----------------------------- MODULE NetProofs -----------------------------
(***************************************************************************)
(* The read side of a connection, the reactor and the listening Engine, for*)
(* every number of readers, connections, threads, arrivals and receivers   *)
(* and every limit.  The bytes that are received are the stream, in order, *)
(* whole and within max_inbound_bytes, and neither a reader nor the owner  *)
(* sleeps through what it waits for.  The flags, the dirty list, the       *)
(* registry and the count of a reactor agree and no turn that somebody     *)
(* asked for is lost.  The places of the handoff are counted exactly, and  *)
(* accepting goes on while it may and ends when it is stopped.             *)
(***************************************************************************)
EXTENDS ReceiveRing, Reactor, EngineAccept, Integers, FiniteSetTheorems, SequenceTheorems, TLAPS

-----------------------------------------------------------------------------
(***************************************************************************)
(* Reading: the invariant.                                                 *)
(***************************************************************************)

\* Where the owner is.
Submitting == {"append", "appending", "defer", "deferring"}
Submitted == {"appendRelease", "appendData", "appended"}
Asking == {"reserve", "reserving", "reserveRelease", "recv"}
Between == {"idle", "arm", "retry", "stage", "endData", "endRelease"}
Shutting == {"markClosed", "closeData", "closeRelease"}

\* There are bytes in at most one place after the ring: what is deferred has been merged
\* before more is received, what is staged by the close is the last.
BytesPlaced ==
  /\ buf # <<>> => opc \in Submitting \/ held
  /\ held => opc \in Submitting \cup Between
  /\ buf # <<>> \/ opc \in Asking \cup {"round"} => pending = <<>>
  /\ detached # <<>> => opc \in Shutting \/ ownerClosed
  /\ opc \in Shutting \/ ownerClosed => ~waiting
  /\ ownerClosed => opc = "idle" /\ ~held

\* The loop of DoReadsOwner; a resubmission is not one of its rounds.
RoundsKept ==
  /\ opc \in Asking => ~again
  /\ opc \in Asking \cup Submitting \cup Submitted /\ ~again => round < ReadBudget
  /\ again => opc \in Submitting \cup Submitted \cup {"arm"}

\* Room that was granted stays: the readers only make more.
GrantKept == opc \in {"reserveRelease", "recv"} => Size + granted <= MaxInbound

Registered ==
  \A c \in Reader : read[c].pc \in {"added", "parked"} => c \in Hub(c)

\* NoLostWakeup, and a reader that waits for a release is notified in the same step.
NotifiedOrComing ==
  \A c \in Reader : read[c].pc = "parked" /\ Ready(c) /\ c \notin woken =>
    read[c].res # "busy" /\ DataNotifyComing

\* Bytes were taken and the owner has not been told: TellComing without the guard that has
\* told already and only has to release.
StillToTell(c) ==
  \/ read[c].pc \in {"guarding", "tell"} /\ read[c].res \in {"ok", "changed"}
  \/ read[c].pc = "release" /\ read[c].res = "ok"

\* A pause that nobody is about to end is right.
PauseJustified ==
  paused /\ ~dirty /\ ~ownerClosed /\ opc \notin {"stage", "markClosed", "closeData"} =>
    Size >= ReadLowWater \/ \E c \in Reader : StillToTell(c)

\* An owner that goes to sleep has armed its wait, is paused, or will pump.
OwnerHears ==
  /\ opc \in {"appended", "closeRelease"} => dirty
  /\ opc \in {"idle", "retry"} /\ ~stopped /\ ~ownerClosed =>
       waiting \/ paused \/ (dirty /\ opc = "idle")

RingInv ==
  /\ InboundExact /\ BytesPlaced /\ RoundsKept /\ GrantKept
  /\ Registered /\ NotifiedOrComing /\ PauseJustified /\ OwnerHears

-----------------------------------------------------------------------------
(***************************************************************************)
(* Types.                                                                  *)
(***************************************************************************)

ByteTypes ==
  /\ ring \in Seq(Position) /\ pending \in Seq(Position) /\ detached \in Seq(Position)
  /\ buf \in Seq(Position) /\ taken \in Seq(Position) /\ received \in 0..StreamLen
FlagTypes ==
  /\ eof \in BOOLEAN /\ error \in BOOLEAN /\ closed \in BOOLEAN
  /\ rawRetry \in BOOLEAN /\ dirty \in BOOLEAN /\ closeRequested \in BOOLEAN
  /\ fromPump \in BOOLEAN /\ held \in BOOLEAN /\ again \in BOOLEAN
  /\ paused \in BOOLEAN /\ stopped \in BOOLEAN /\ waiting \in BOOLEAN
  /\ ownerClosed \in BOOLEAN
HolderTypes == holder \in Reader \cup {Owner, Nobody}
HubTypes == moved \subseteq Reader /\ woken \subseteq Reader
            /\ dataHub \subseteq Reader /\ releaseHub \subseteq Reader
CallSet == [op : Call \cup {"none"}, pc : ReaderPc, res : Result]
ReadTypes == read \in [Reader -> CallSet]
OwnerTypes == opc \in OwnerPc /\ round \in 0..ReadBudget /\ granted \in 0..Chunk
EndTypes == fin \in {"open", "eof", "reset"}

LEMMA TypeParts ==
  TypeOK <=> /\ ByteTypes /\ FlagTypes /\ HolderTypes /\ HubTypes /\ ReadTypes /\ OwnerTypes
             /\ EndTypes
BY DEF TypeOK, ByteTypes, FlagTypes, HolderTypes, HubTypes, ReadTypes, CallSet, OwnerTypes, EndTypes

LEMMA RingStart == Init => RingInv
<1> SUFFICES ASSUME Init PROVE RingInv
  OBVIOUS
<1> USE RingConstants
<1>1. TypeOK
  <2>1. ByteTypes /\ HolderTypes /\ HubTypes /\ EndTypes
    BY DEF Init, ByteTypes, HolderTypes, HubTypes, EndTypes
  <2>2. FlagTypes
    BY DEF Init, FlagTypes
  <2>3. ReadTypes
    BY DEF Init, ReadTypes, CallSet, NoCall, ReaderPc, Result
  <2>4. OwnerTypes
    BY DEF Init, OwnerTypes, OwnerPc
  <2> QED BY <2>1, <2>2, <2>3, <2>4, TypeParts
<1>2. StreamIntact
  <2>1. [i \in 1..0 |-> i] = <<>>
    OBVIOUS
  <2>2. <<>> \o <<>> = <<>>
    OBVIOUS
  <2> QED BY <2>1, <2>2 DEF Init, StreamIntact
<1>3. InboundExact
  BY <1>1, <1>2 DEF Init, InboundExact, InboundBounded, Size
<1>4. BytesPlaced /\ RoundsKept /\ GrantKept
  BY DEF Init, BytesPlaced, RoundsKept, GrantKept, Submitting, Submitted, Asking, Between, Shutting
<1>5. Registered /\ NotifiedOrComing /\ PauseJustified /\ OwnerHears
  BY DEF Init, Registered, NotifiedOrComing, PauseJustified, OwnerHears, NoCall
<1> QED BY <1>3, <1>4, <1>5 DEF RingInv

\* The steps by what they leave alone.
AnyCall(c) == ReaderStep(c) \/ ReaderEvent(c)
OwnerSteps == PumpOwner \/ ReadReady \/ ReadWaitFailed \/ OwnerStep

LEMMA ReadSteps ==
  ASSUME Next
  PROVE  (\E c \in Reader : AnyCall(c)) \/ OwnerSteps \/ RequestClose \/ PeerEnd
BY DEF Next, AnyCall, OwnerSteps

\* A reader changes its own call, the bytes of the ring and what the notifications reach.
LEMMA ReaderLeaves ==
  ASSUME NEW c \in Reader, AnyCall(c)
  PROVE  UNCHANGED <<endVars, closeRequested, ownVars, netVars>>
BY DEF AnyCall, ReaderStep, ReaderEvent, TryBusy, RequestRawRetry, TryLock, Take, FindEmpty,
   TerminalLocked, Release, Tell, Guard, Unguard, AddWaiter, Recheck, Resume, Start, Consume, GiveUp,
   Leave, readerRest

LEMMA OwnerLeaves ==
  ASSUME OwnerSteps \/ RequestClose \/ PeerEnd
  PROVE  UNCHANGED <<read, taken, dataHub, releaseHub>>
<1>1. CASE PumpOwner \/ ReadReady \/ ReadWaitFailed \/ RequestClose \/ PeerEnd
  BY <1>1 DEF PumpOwner, ReadReady, ReadWaitFailed, RequestClose, PeerEnd, quiet, hubVars, othersRest
<1>2. CASE OwnerStep
  BY <1>2 DEF OwnerStep, CheckPending, Want, ReserveBusy, ReserveLock, Reserve, OwnerRelease, Recv,
     RecvAgain, RecvInterrupted, RecvEnd, AppendBusy, AppendLock, TryAppend, DeferBusy, DeferLock,
     AppendDeferred, AppendData, Appended, EndData, EndRelease, Arm, TakeRawRetry, StageHold, MarkClosed,
     quiet, hubVars, othersRest
<1> QED BY <1>1, <1>2 DEF OwnerSteps

\* A call goes from one state to another, the other calls stay.
LEMMA CallMoves ==
  ASSUME ReadTypes, NEW c \in Reader, AnyCall(c)
  PROVE  /\ \E r \in CallSet : read' = [read EXCEPT ![c] = r]
         /\ ReadTypes' /\ \A d \in Reader \ {c} : read'[d] = read[d]
<1>0. /\ read[c].op \in Call \cup {"none"} /\ read[c].pc \in ReaderPc /\ read[c].res \in Result
      /\ read[c] = [op |-> read[c].op, pc |-> read[c].pc, res |-> read[c].res]
      /\ read[c] \in CallSet /\ read \in [Reader -> CallSet]
  BY DEF ReadTypes, CallSet
<1> DEFINE Moves == \E r \in CallSet : read' = [read EXCEPT ![c] = r]
<1>1. ASSUME NEW p \in ReaderPc, Goes(c, p) PROVE Moves
  <2>1. CASE p = "idle"
    <3>1. NoCall \in CallSet
      BY DEF CallSet, NoCall, ReaderPc, Result
    <3> QED BY <1>1, <2>1, <3>1 DEF Goes
  <2>2. CASE p # "idle"
    <3> DEFINE r == [read[c] EXCEPT !.pc = p]
    <3>1. r \in CallSet
      BY <1>0 DEF CallSet
    <3>2. read' = [read EXCEPT ![c] = r]
      BY <1>0, <1>1, <2>2 DEF Goes
    <3> QED BY <3>1, <3>2
  <2> QED BY <2>1, <2>2
<1>2. ASSUME NEW p \in ReaderPc, NEW e \in Result, Ends(c, p, e) PROVE Moves
  <2> DEFINE s == [read[c] EXCEPT !.pc = p]
             r == [s EXCEPT !.res = e]
  <2>1. s \in CallSet
    BY <1>0 DEF CallSet
  <2>2. r \in CallSet
    <3> HIDE DEF s
    <3> QED BY <2>1 DEF CallSet
  <2>3. read' = [[read EXCEPT ![c] = s] EXCEPT ![c] = r]
    BY <1>0, <1>2 DEF Ends
  <2> HIDE DEF s, r
  <2>4. read' = [read EXCEPT ![c] = r]
    BY <1>0, <2>3
  <2> QED BY <2>2, <2>4
<1>3. ASSUME NEW op \in Call, Start(c, op) PROVE Moves
  <2>1. [op |-> op, pc |-> "try", res |-> "none"] \in CallSet
    BY DEF CallSet, ReaderPc, Result
  <2> QED BY <1>3, <2>1 DEF Start
<1>4. UNCHANGED read => Moves
  BY <1>0
<1> HIDE DEF Moves
<1>5. ASSUME \/ TryBusy(c) \/ RequestRawRetry(c) \/ TryLock(c) \/ FindEmpty(c) \/ Release(c) \/ Tell(c)
             \/ Unguard(c) \/ AddWaiter(c) \/ Recheck(c) \/ GiveUp(c)
      PROVE  Moves
  <2>1. (\E p \in ReaderPc : Goes(c, p)) \/ Ends(c, "add", "busy")
    BY <1>5 DEF TryBusy, RequestRawRetry, TryLock, FindEmpty, Release, Tell, Unguard, AddWaiter, Recheck,
       GiveUp, ReaderPc
  <2> QED BY <1>1, <1>2, <2>1 DEF ReaderPc, Result
<1>6. ASSUME \/ Take(c) \/ TerminalLocked(c) \/ Guard(c) \/ Resume(c)
             \/ \E n \in 1..MaxInbound : Consume(c, n)
      PROVE  Moves
  <2>1. \E p \in ReaderPc, e \in Result : Ends(c, p, e)
    BY <1>6 DEF Take, TerminalLocked, Guard, Resume, Consume, ReaderPc, Result
  <2> QED BY <1>2, <2>1
<1>7. Moves
  BY <1>3, <1>5, <1>6 DEF AnyCall, ReaderStep, ReaderEvent
<1> QED BY <1>0, <1>7 DEF Moves, ReadTypes
-----------------------------------------------------------------------------
(***************************************************************************)
(* The bytes.                                                              *)
(***************************************************************************)

Bytes == taken \o ring \o pending \o detached \o buf

LEMMA Empty ==
  ASSUME NEW S
  PROVE  <<>> \in Seq(S) /\ Len(<<>>) = 0 /\ \A s \in Seq(S) : s \o <<>> = s /\ <<>> \o s = s
BY ConcatEmptySeq, EmptySeq

LEMMA ShortOrEmpty ==
  ASSUME NEW S, NEW s \in Seq(S)
  PROVE  Len(s) \in Nat /\ (Len(s) = 0 <=> s = <<>>)
BY EmptySeq, LenProperties

\* What a reader would get is one piece of the whole.
LEMMA Pieces ==
  ByteTypes => /\ Merged \in Seq(Position) /\ Len(Merged) = Size
               /\ Bytes = (taken \o Merged) \o buf
<1> SUFFICES ASSUME ByteTypes
             PROVE  /\ Merged \in Seq(Position) /\ Len(Merged) = Size
                    /\ Bytes = (taken \o Merged) \o buf
  OBVIOUS
<1> DEFINE m == ring \o pending
<1>0. /\ ring \in Seq(Position) /\ pending \in Seq(Position) /\ detached \in Seq(Position)
      /\ buf \in Seq(Position) /\ taken \in Seq(Position)
  BY DEF ByteTypes
<1>1. m \in Seq(Position) /\ Len(m) = Len(ring) + Len(pending)
  BY <1>0, ConcatProperties
<1>2. taken \o m = (taken \o ring) \o pending
  BY <1>0, SMTT(30)
<1> HIDE DEF m
<1>3. m \o detached \in Seq(Position) /\ Len(m \o detached) = Len(m) + Len(detached)
  BY <1>0, <1>1, ConcatProperties
<1>4. taken \o (m \o detached) = (taken \o m) \o detached
  <2>1. m \in Seq(Position)
    BY <1>1
  <2> QED BY <1>0, <2>1
<1>5. Merged = m \o detached
  BY DEF Merged, m
<1> QED BY <1>1, <1>2, <1>3, <1>4, <1>5 DEF Size, Bytes

LEMMA SizeIs ==
  ASSUME ByteTypes
  PROVE  /\ Size \in Nat /\ Len(buf) \in Nat
         /\ Len(ring) \in Nat /\ Len(pending) \in Nat /\ Len(detached) \in Nat
<1>1. Len(ring) \in Nat /\ Len(pending) \in Nat /\ Len(detached) \in Nat /\ Len(buf) \in Nat
  BY LenProperties DEF ByteTypes
<1> QED BY <1>1 DEF Size

\* A reader takes everything, merges everything or takes from the front of the ring.
LEMMA ReaderTakes ==
  ASSUME NEW c \in Reader, AnyCall(c)
  PROVE  \/ UNCHANGED <<dataVars, taken>>
         \/ Take(c) \/ Guard(c) \/ \E n \in 1..MaxInbound : Consume(c, n)
BY DEF AnyCall, ReaderStep, ReaderEvent, TryBusy, RequestRawRetry, TryLock, FindEmpty,
   TerminalLocked, Release, Tell, Unguard, AddWaiter, Recheck, Resume, Start, GiveUp, Leave

LEMMA ReadersKeepBytes ==
  ASSUME ByteTypes, ReadTypes, NEW c \in Reader, AnyCall(c)
  PROVE  /\ ByteTypes' /\ Bytes' = Bytes /\ Size' <= Size /\ buf' = buf
         /\ pending = <<>> => pending' = <<>>
         /\ detached = <<>> => detached' = <<>>
         /\ Size' # Size => StillToTell(c)'
<1>0. UNCHANGED <<buf, received>>
  BY ReaderLeaves DEF ownVars, pumpVars, netVars
<1>1. /\ ring \in Seq(Position) /\ pending \in Seq(Position) /\ detached \in Seq(Position)
      /\ buf \in Seq(Position) /\ taken \in Seq(Position)
      /\ <<>> \in Seq(Position) /\ Len(<<>>) = 0
      /\ \A s \in Seq(Position) : s \o <<>> = s /\ <<>> \o s = s
  BY Empty DEF ByteTypes
<1>2. /\ Size \in Nat /\ Merged \in Seq(Position) /\ Len(Merged) = Size
      /\ Bytes = (taken \o Merged) \o buf
  BY SizeIs, Pieces
<1>3. ByteTypes' => (Bytes = (taken \o Merged) \o buf)'
  BY Pieces, PTL
<1>4. CASE UNCHANGED <<dataVars, taken>>
  <2>1. ByteTypes' /\ Size' = Size
    BY <1>0, <1>4 DEF dataVars, ByteTypes, Size
  <2>2. Bytes' = Bytes /\ pending' = pending /\ detached' = detached
    BY <1>0, <1>4 DEF dataVars, Bytes
  <2> QED BY <1>0, <1>2, <2>1, <2>2
<1>5. CASE Take(c)
  <2>1. /\ taken' = taken \o Merged /\ ring' = <<>> /\ pending' = <<>> /\ detached' = <<>>
        /\ Ends(c, "release", "ok")
    BY <1>5 DEF Take
  <2>2. taken \o Merged \in Seq(Position)
    BY <1>1, <1>2, ConcatProperties
  <2>3. ByteTypes'
    BY <1>0, <1>1, <2>1, <2>2 DEF ByteTypes
  <2>4. Merged' = <<>> /\ Size' = 0
    BY <1>1, <2>1 DEF Merged, Size
  <2>5. Bytes' = Bytes
    <3>1. Bytes' = (taken' \o <<>>) \o buf
      BY <1>0, <1>3, <2>3, <2>4
    <3>2. taken' \o <<>> = taken'
      BY <1>1, <2>1, <2>2
    <3> QED BY <1>2, <2>1, <3>1, <3>2
  <2>6. read'[c].pc = "release" /\ read'[c].res = "ok"
    BY <2>1 DEF Ends, ReadTypes, CallSet
  <2> QED BY <1>0, <1>2, <2>1, <2>3, <2>4, <2>5, <2>6 DEF StillToTell
<1>6. CASE Guard(c)
  <2>1. ring' = Merged /\ pending' = <<>> /\ detached' = <<>> /\ taken' = taken
    BY <1>6 DEF Guard
  <2>2. ByteTypes'
    BY <1>0, <1>1, <1>2, <2>1 DEF ByteTypes
  <2>3. Merged' = Merged /\ Size' = Size
    <3>1. Merged \o <<>> = Merged
      BY <1>1, <1>2
    <3>2. Merged' = Merged
      BY <2>1, <3>1 DEF Merged
    <3> QED BY <1>1, <1>2, <2>1, <3>2 DEF Size
  <2>4. Bytes' = Bytes
    BY <1>0, <1>2, <1>3, <2>1, <2>2, <2>3
  <2> QED BY <1>0, <1>2, <2>1, <2>2, <2>3, <2>4
<1>7. ASSUME NEW n \in 1..MaxInbound, Consume(c, n)
      PROVE  /\ ByteTypes' /\ Bytes' = Bytes /\ Size' <= Size /\ buf' = buf
             /\ pending' = pending /\ detached' = detached /\ StillToTell(c)'
  <2> DEFINE p == SubSeq(ring, 1, n)
             q == SubSeq(ring, n + 1, Len(ring))
  <2>1. /\ n \in 1..Len(ring) /\ taken' = taken \o p /\ ring' = q
        /\ pending' = pending /\ detached' = detached /\ Ends(c, "guarding", "changed")
    BY <1>7 DEF Consume
  <2>2. Len(ring) \in Nat /\ \A i \in 1..Len(ring) : ring[i] \in Position
    BY <1>1, LenProperties
  <2>3. p \in Seq(Position)
    BY <2>1, <2>2, SubSeqProperties
  <2>4. q \in Seq(Position) /\ Len(q) <= Len(ring)
    <3>1. n + 1 \in Int /\ Len(ring) \in Int /\ \A i \in (n + 1)..Len(ring) : ring[i] \in Position
      BY <2>1, <2>2
    <3>2. q \in Seq(Position) /\ Len(q) = IF n + 1 <= Len(ring) THEN Len(ring) - (n + 1) + 1 ELSE 0
      BY <3>1, SubSeqProperties
    <3> QED BY <2>1, <2>2, <3>2
  <2>5. p \o q = ring
    <3>1. SubSeq(ring, 1, Len(ring)) = ring
      BY <1>1, SubSeqFull
    <3>2. p \o q = SubSeq(ring, 1, Len(ring))
      BY <1>1, <2>1, <2>2, ConcatAdjacentSubSeq
    <3> QED BY <3>1, <3>2
  <2> HIDE DEF p, q
  <2>6. taken \o p \in Seq(Position)
    BY <1>1, <2>3, ConcatProperties
  <2>7. ByteTypes'
    BY <1>0, <1>1, <2>1, <2>4, <2>6 DEF ByteTypes
  <2>8. (taken \o p) \o q = taken \o ring
    <3>1. (taken \o p) \o q = taken \o (p \o q)
      BY <1>1, <2>3, <2>4, SMTT(30)
    <3> QED BY <2>5, <3>1
  <2>9. Bytes' = Bytes
    BY <1>0, <2>1, <2>8 DEF Bytes
  <2>10. Size' <= Size
    BY <1>1, <2>1, <2>2, <2>4, LenProperties DEF Size
  <2>11. read'[c].pc = "guarding" /\ read'[c].res = "changed"
    BY <2>1 DEF Ends, ReadTypes, CallSet
  <2> QED BY <1>0, <2>1, <2>7, <2>9, <2>10, <2>11 DEF StillToTell
<1> QED BY <1>4, <1>5, <1>6, <1>7, ReaderTakes
LEMMA OwnerMovesBytes ==
  ASSUME OwnerSteps \/ RequestClose \/ PeerEnd
  PROVE  \/ UNCHANGED <<dataVars, buf, received>>
         \/ TryAppend \/ AppendDeferred \/ StageHold \/ \E n \in 1..StreamLen : Recv(n)
<1>1. CASE PumpOwner \/ ReadReady \/ ReadWaitFailed \/ RequestClose \/ PeerEnd
  BY <1>1 DEF PumpOwner, ReadReady, ReadWaitFailed, RequestClose, PeerEnd, quiet, ownVars, pumpVars,
     netVars
<1>2. CASE OwnerStep
  BY <1>2 DEF OwnerStep, CheckPending, Want, ReserveBusy, ReserveLock, Reserve, OwnerRelease,
     RecvAgain, RecvInterrupted, RecvEnd, AppendBusy, AppendLock, DeferBusy, DeferLock,
     AppendData, Appended, EndData, EndRelease, Arm, TakeRawRetry, MarkClosed, quiet, pumpVars, netVars
<1> QED BY <1>1, <1>2 DEF OwnerSteps

\* What recv returns are the next bytes of the stream.
LEMMA StreamGrows ==
  ASSUME NEW k \in Nat, NEW n \in Nat
  PROVE  [i \in 1..k |-> i] \o [i \in 1..n |-> k + i] = [i \in 1..(k + n) |-> i]
<1> DEFINE a == [i \in 1..k |-> i]
           b == [i \in 1..n |-> k + i]
           w == [i \in 1..(k + n) |-> i]
<1>1. a \in Seq(Nat) /\ Len(a) = k /\ \A i \in 1..k : a[i] = i
  OBVIOUS
<1>2. b \in Seq(Nat) /\ Len(b) = n /\ \A i \in 1..n : b[i] = k + i
  OBVIOUS
<1>3. w \in Seq(Nat) /\ Len(w) = k + n /\ \A i \in 1..(k + n) : w[i] = i
  OBVIOUS
<1> HIDE DEF a, b, w
<1>4. /\ a \o b \in Seq(Nat) /\ Len(a \o b) = k + n
      /\ \A i \in 1..(k + n) : (a \o b)[i] = IF i <= k THEN a[i] ELSE b[i - k]
  BY <1>1, <1>2, ConcatProperties
<1>5. \A i \in 1..(k + n) : (a \o b)[i] = w[i]
  <2> SUFFICES ASSUME NEW i \in 1..(k + n) PROVE (a \o b)[i] = i
    BY <1>3
  <2>1. CASE i <= k
    BY <1>1, <1>4, <2>1
  <2>2. CASE ~(i <= k)
    <3>1. i - k \in 1..n /\ (a \o b)[i] = b[i - k]
      BY <1>4, <2>2
    <3>2. b[i - k] = k + (i - k)
      BY <1>2, <3>1
    <3> QED BY <3>1, <3>2
  <2> QED BY <2>1, <2>2
<1>6. a \o b = w
  BY <1>3, <1>4, <1>5, SeqEqual
<1> QED BY <1>6 DEF a, b, w

\* Where the bytes are when the owner moves them.
LEMMA WhereBytesAre ==
  ASSUME BytesPlaced
  PROVE  /\ opc \in {"round", "recv"} \cup Asking \cup Submitted \cup {"check"} => buf = <<>> /\ ~held
         /\ opc \in Submitting \cup {"stage"} => detached = <<>>
         /\ buf # <<>> => pending = <<>>
BY DEF BytesPlaced, Submitting, Submitted, Between, Shutting, Asking

LEMMA AppendKeepsBytes ==
  ASSUME ByteTypes, BytesPlaced, TryAppend
  PROVE  ByteTypes' /\ Bytes' = Bytes /\ Size' + Len(buf') = Size + Len(buf)
<1>1. /\ ring \in Seq(Position) /\ pending \in Seq(Position) /\ detached = <<>>
      /\ buf \in Seq(Position) /\ taken \in Seq(Position) /\ <<>> \in Seq(Position) /\ Len(<<>>) = 0
      /\ buf # <<>> => pending = <<>>
      /\ \A s \in Seq(Position) : s \o <<>> = s
  BY Empty, WhereBytesAre DEF ByteTypes, TryAppend, Submitting
<1>2. ring' = ring \o buf /\ buf' = <<>> /\ UNCHANGED <<taken, pending, detached, received>>
  BY DEF TryAppend, quiet, othersRest, netVars
<1>3. /\ ring \o buf \in Seq(Position) /\ Len(ring \o buf) = Len(ring) + Len(buf)
      /\ taken \o ring \in Seq(Position)
  BY <1>1, ConcatProperties
<1>4. ByteTypes'
  BY <1>1, <1>2, <1>3 DEF ByteTypes
<1>5. Size' + Len(buf') = Size + Len(buf)
  BY <1>1, <1>2, <1>3, SizeIs DEF Size
<1>6. Bytes' = Bytes
  <2>1. CASE buf = <<>>
    BY <1>1, <1>2, <2>1 DEF Bytes
  <2>2. CASE pending = <<>>
    <3>1. taken \o (ring \o buf) = (taken \o ring) \o buf
      BY <1>1, SMTT(30)
    <3>2. taken \o (ring \o buf) \in Seq(Position)
      BY <1>1, <1>3, ConcatProperties
    <3>3. Bytes = (taken \o ring) \o buf
      BY <1>1, <1>3, <2>2 DEF Bytes
    <3>4. Bytes' = taken \o (ring \o buf) \o <<>> \o <<>> \o <<>>
      BY <1>1, <1>2, <2>2 DEF Bytes
    <3> DEFINE x == taken \o (ring \o buf)
    <3>5. x \o <<>> \o <<>> \o <<>> = x
      <4> HIDE DEF x
      <4>1. x \in Seq(Position)
        BY <3>2 DEF x
      <4> QED BY <1>1, <4>1
    <3> QED BY <3>1, <3>3, <3>4, <3>5
  <2> QED BY <1>1, <2>1, <2>2
<1> QED BY <1>4, <1>5, <1>6

LEMMA DeferKeepsBytes ==
  ASSUME ByteTypes, BytesPlaced, AppendDeferred
  PROVE  ByteTypes' /\ Bytes' = Bytes /\ Size' + Len(buf') = Size + Len(buf)
<1>1. /\ ring \in Seq(Position) /\ pending \in Seq(Position) /\ detached = <<>>
      /\ buf \in Seq(Position) /\ taken \in Seq(Position) /\ <<>> \in Seq(Position) /\ Len(<<>>) = 0
      /\ \A s \in Seq(Position) : s \o <<>> = s
  BY Empty, WhereBytesAre DEF ByteTypes, AppendDeferred, Submitting
<1>2. pending' = pending \o buf /\ buf' = <<>> /\ UNCHANGED <<taken, ring, detached, received>>
  BY DEF AppendDeferred, quiet, othersRest, netVars
<1> DEFINE x == taken \o ring
<1>3. /\ pending \o buf \in Seq(Position) /\ Len(pending \o buf) = Len(pending) + Len(buf)
      /\ x \in Seq(Position)
  BY <1>1, ConcatProperties
<1>4. ByteTypes'
  BY <1>1, <1>2, <1>3 DEF ByteTypes
<1>5. Size' + Len(buf') = Size + Len(buf)
  BY <1>1, <1>2, <1>3, SizeIs DEF Size
<1>6. Bytes' = x \o (pending \o buf) \o <<>> \o <<>> /\ Bytes = x \o pending \o <<>> \o buf
  BY <1>1, <1>2 DEF Bytes
<1> HIDE DEF x
<1>7. x \o pending \in Seq(Position) /\ x \o (pending \o buf) \in Seq(Position)
  BY <1>1, <1>3, ConcatProperties
<1>8. x \o (pending \o buf) = x \o pending \o buf
  BY <1>1, <1>3
<1>9. Bytes = x \o pending \o buf
  BY <1>1, <1>6, <1>7
<1>10. x \o (pending \o buf) \o <<>> \o <<>> = x \o (pending \o buf)
  BY <1>1, <1>7
<1> QED BY <1>4, <1>5, <1>6, <1>8, <1>9, <1>10
LEMMA StageKeepsBytes ==
  ASSUME ByteTypes, BytesPlaced, StageHold
  PROVE  ByteTypes' /\ Bytes' = Bytes /\ Size' + Len(buf') = Size + Len(buf)
<1>1. /\ ring \in Seq(Position) /\ pending \in Seq(Position) /\ detached \in Seq(Position)
      /\ buf \in Seq(Position) /\ taken \in Seq(Position) /\ <<>> \in Seq(Position) /\ Len(<<>>) = 0
      /\ \A s \in Seq(Position) : s \o <<>> = s
  BY Empty DEF ByteTypes
<1>2. CASE ~held
  <2>1. UNCHANGED <<dataVars, buf, taken, received>>
    BY <1>2 DEF StageHold, othersRest, netVars, dataVars
  <2> QED BY <2>1 DEF dataVars, ByteTypes, Bytes, Size
<1>3. CASE held
  <2>1. detached' = detached \o buf /\ buf' = <<>> /\ UNCHANGED <<taken, ring, pending, received>>
    BY <1>3 DEF StageHold, othersRest, netVars
  <2> DEFINE x == taken \o ring \o pending
  <2>2. /\ detached \o buf \in Seq(Position) /\ Len(detached \o buf) = Len(detached) + Len(buf)
        /\ taken \o ring \in Seq(Position)
    BY <1>1, ConcatProperties
  <2>3. ByteTypes'
    BY <1>1, <2>1, <2>2 DEF ByteTypes
  <2>4. Size' + Len(buf') = Size + Len(buf)
    BY <1>1, <2>1, <2>2, SizeIs DEF Size
  <2>5. Bytes' = x \o (detached \o buf) \o <<>> /\ Bytes = x \o detached \o buf /\ x \in Seq(Position)
    BY <1>1, <2>1, <2>2, ConcatProperties DEF Bytes
  <2> HIDE DEF x
  <2>6. x \o (detached \o buf) \in Seq(Position)
    BY <2>2, <2>5, ConcatProperties
  <2>7. x \o (detached \o buf) = x \o detached \o buf
    BY <1>1, <2>5, SMTT(30)
  <2> QED BY <1>1, <2>3, <2>4, <2>5, <2>6, <2>7
<1> QED BY <1>2, <1>3

LEMMA RecvKeepsStream ==
  ASSUME ByteTypes, BytesPlaced, GrantKept, granted \in Nat, StreamIntact, NEW n \in 1..StreamLen, Recv(n)
  PROVE  ByteTypes' /\ StreamIntact' /\ Size' + Len(buf') <= MaxInbound /\ Len(buf) = 0
<1>1. /\ ring \in Seq(Position) /\ pending \in Seq(Position) /\ detached \in Seq(Position)
      /\ taken \in Seq(Position) /\ <<>> \in Seq(Position) /\ Len(<<>>) = 0
      /\ \A s \in Seq(Position) : s \o <<>> = s
      /\ buf = <<>> /\ received \in Nat /\ n \in Nat /\ n <= StreamLen - received /\ n <= granted
      /\ StreamLen \in Nat
  BY Empty, WhereBytesAre, RingConstants DEF ByteTypes, Recv
<1>2. buf' = [i \in 1..n |-> received + i] /\ received' = received + n
      /\ UNCHANGED <<dataVars, taken>>
  BY DEF Recv, othersRest
<1>3. buf' \in Seq(Position) /\ Len(buf') = n
  <2>1. \A i \in 1..n : received + i \in Position
    BY <1>1 DEF Position
  <2> QED BY <1>1, <1>2, <2>1
<1>4. ByteTypes'
  BY <1>1, <1>2, <1>3 DEF ByteTypes, dataVars
<1> DEFINE x == taken \o ring \o pending \o detached
<1>5. x \in Seq(Position)
  <2>1. taken \o ring \in Seq(Position)
    BY <1>1, ConcatProperties
  <2>2. taken \o ring \o pending \in Seq(Position)
    BY <1>1, <2>1, ConcatProperties
  <2> QED BY <1>1, <2>2, ConcatProperties
<1>6. x \o buf = [i \in 1..received |-> i] /\ x' = x
  BY <1>2 DEF StreamIntact, dataVars
<1>7. StreamIntact <=> x \o buf = [i \in 1..received |-> i]
  BY DEF StreamIntact
<1>8. StreamIntact' <=> x' \o buf' = [i \in 1..received' |-> i]
  BY DEF StreamIntact
<1> HIDE DEF x
<1>9. x = [i \in 1..received |-> i]
  BY <1>1, <1>5, <1>6
<1>10. x \o buf' = [i \in 1..(received + n) |-> i]
  BY <1>1, <1>2, <1>9, StreamGrows
<1>11. StreamIntact'
  BY <1>2, <1>6, <1>8, <1>10
<1>12. Size' = Size /\ Size \in Nat /\ Size + granted <= MaxInbound
  BY <1>2, SizeIs DEF dataVars, Size, GrantKept, Recv
<1> QED BY <1>1, <1>3, <1>4, <1>11, <1>12, RingConstants

\* The bytes are the stream, whole and within the limit.
LEMMA BytesKept ==
  ASSUME InboundExact, BytesPlaced, GrantKept, Next
  PROVE  /\ ByteTypes' /\ StreamIntact' /\ Size' + Len(buf') <= MaxInbound
<1>0. ByteTypes /\ ReadTypes /\ granted \in Nat /\ StreamIntact /\ Size + Len(buf) <= MaxInbound
      /\ Size \in Nat /\ Len(buf) \in Nat /\ MaxInbound \in Nat
  BY TypeParts, SizeIs, RingConstants DEF InboundExact, InboundBounded, OwnerTypes
<1>1. /\ StreamIntact <=> Bytes = [i \in 1..received |-> i]
      /\ StreamIntact' <=> Bytes' = [i \in 1..received' |-> i]
  BY DEF StreamIntact, Bytes
<1>2. ASSUME NEW c \in Reader, AnyCall(c)
      PROVE  ByteTypes' /\ StreamIntact' /\ Size' + Len(buf') <= MaxInbound
  <2>1. ByteTypes' /\ Bytes' = Bytes /\ Size' <= Size /\ buf' = buf
    BY <1>0, <1>2, ReadersKeepBytes
  <2>2. received' = received
    BY <1>2, ReaderLeaves DEF netVars
  <2>3. (Size \in Nat)'
    BY <2>1, SizeIs, PTL
  <2> QED BY <1>0, <1>1, <2>1, <2>2, <2>3
<1>3. CASE TryAppend \/ AppendDeferred \/ StageHold
  <2>1. received' = received
    BY <1>3 DEF TryAppend, AppendDeferred, StageHold, quiet, netVars
  <2> QED BY <1>0, <1>1, <1>3, <2>1, AppendKeepsBytes, DeferKeepsBytes, StageKeepsBytes
<1>4. CASE \E n \in 1..StreamLen : Recv(n)
  BY <1>0, <1>4, RecvKeepsStream
<1>5. CASE UNCHANGED <<dataVars, buf, received, taken>>
  BY <1>0, <1>1, <1>5 DEF dataVars, ByteTypes, Bytes, Size
<1> QED BY <1>2, <1>3, <1>4, <1>5, ReadSteps, OwnerLeaves, OwnerMovesBytes

-----------------------------------------------------------------------------
(***************************************************************************)
(* Where the owner is.                                                     *)
(***************************************************************************)

LEMMA ReadFlagsKept ==
  ASSUME FlagTypes, Next
  PROVE  FlagTypes'
<1>1. ASSUME NEW c \in Reader, AnyCall(c) PROVE FlagTypes'
  <2>1. rawRetry' \in BOOLEAN /\ dirty' \in BOOLEAN
    BY <1>1 DEF FlagTypes, AnyCall, ReaderStep, ReaderEvent, TryBusy, RequestRawRetry, TryLock, Take,
       FindEmpty, TerminalLocked, Release, Tell, Guard, Unguard, AddWaiter, Recheck, Resume, Start, Consume,
       GiveUp, Leave, readerRest, NotifyDataChanged, WakeOwnerOnly
  <2> QED BY <1>1, <2>1, ReaderLeaves DEF FlagTypes, endVars, ownVars, pumpVars, flagVars
<1>2. ASSUME OwnerSteps \/ RequestClose \/ PeerEnd PROVE FlagTypes'
  <2> USE <1>2 DEF OwnerSteps, OwnerStep, PumpOwner, ReadReady, ReadWaitFailed, RequestClose, PeerEnd,
        CheckPending, Want, ReserveBusy, ReserveLock, Reserve, OwnerRelease, Recv, RecvAgain,
        RecvInterrupted, RecvEnd, AppendBusy, AppendLock, TryAppend, DeferBusy, DeferLock, AppendDeferred,
        AppendData, Appended, EndData, EndRelease, Arm, TakeRawRetry, StageHold, MarkClosed,
        quiet, endVars, othersRest, ownVars, pumpVars, flagVars, NotifyDataChanged, WakeOwnerOnly
  <2>1. eof' \in BOOLEAN
    BY DEF FlagTypes
  <2>2. error' \in BOOLEAN
    BY DEF FlagTypes
  <2>3. closed' \in BOOLEAN
    BY DEF FlagTypes
  <2>4. rawRetry' \in BOOLEAN
    BY DEF FlagTypes
  <2>5. dirty' \in BOOLEAN
    BY DEF FlagTypes
  <2>6. closeRequested' \in BOOLEAN
    BY DEF FlagTypes
  <2>7. fromPump' \in BOOLEAN
    BY DEF FlagTypes
  <2>8. held' \in BOOLEAN
    BY DEF FlagTypes
  <2>9. again' \in BOOLEAN
    BY DEF FlagTypes
  <2>10. paused' \in BOOLEAN
    BY DEF FlagTypes
  <2>11. stopped' \in BOOLEAN
    BY DEF FlagTypes
  <2>12. waiting' \in BOOLEAN
    BY DEF FlagTypes
  <2>13. ownerClosed' \in BOOLEAN
    BY DEF FlagTypes
  <2> QED BY <2>1, <2>2, <2>3, <2>4, <2>5, <2>6, <2>7, <2>8, <2>9, <2>10, <2>11, <2>12, <2>13 DEF FlagTypes
<1> QED BY <1>1, <1>2, ReadSteps

LEMMA PlacesKept ==
  ASSUME FlagTypes, BytesPlaced, Next, ByteTypes, ReadTypes
  PROVE  BytesPlaced'
<1> USE DEF Submitting, Submitted, Between, Shutting, Asking
<1>1. ASSUME NEW c \in Reader, AnyCall(c) PROVE BytesPlaced'
  <2>1. /\ pending = <<>> => pending' = <<>>
        /\ detached = <<>> => detached' = <<>>
    BY <1>1, ReadersKeepBytes
  <2> QED BY <1>1, <2>1, ReaderLeaves DEF BytesPlaced, ownVars, pumpVars, flagVars
<1>2. CASE PumpOwner \/ ReadReady \/ ReadWaitFailed \/ RequestClose \/ PeerEnd
  BY <1>2 DEF BytesPlaced, PumpOwner, ReadReady, ReadWaitFailed, RequestClose, PeerEnd, quiet, dataVars,
     ownVars, pumpVars, flagVars, Goto, Submit
<1>3. CASE \/ CheckPending \/ Want \/ ReserveBusy \/ ReserveLock \/ Reserve \/ OwnerRelease
           \/ RecvAgain \/ RecvInterrupted \/ RecvEnd \/ AppendBusy \/ AppendLock \/ DeferBusy \/ DeferLock
  BY <1>3 DEF BytesPlaced, CheckPending, Want, ReserveBusy, ReserveLock, Reserve, OwnerRelease,
     RecvAgain, RecvInterrupted, RecvEnd, AppendBusy, AppendLock, DeferBusy, DeferLock,
     quiet, dataVars, pumpVars, flagVars, Goto
<1>4. CASE AppendData \/ Appended \/ EndData \/ Arm
  BY <1>4 DEF BytesPlaced, AppendData, Appended, EndData, Arm, quiet, dataVars, pumpVars, flagVars, Goto
<1>5. CASE TakeRawRetry \/ MarkClosed
  BY <1>5 DEF BytesPlaced, TakeRawRetry, MarkClosed, dataVars, pumpVars, flagVars, Goto
<1>6. CASE EndRelease
  <2>1. ownerClosed' = (opc = "closeRelease") /\ ~ownerClosed
    BY <1>6 DEF EndRelease, BytesPlaced
  <2> QED BY <1>6, <2>1 DEF BytesPlaced, EndRelease, dataVars, Goto
<1>7. CASE TryAppend \/ AppendDeferred \/ StageHold \/ \E n \in 1..StreamLen : Recv(n)
  BY <1>7 DEF BytesPlaced, TryAppend, AppendDeferred, StageHold, Recv, quiet, dataVars, flagVars, Goto
<1> QED BY <1>1, <1>2, <1>3, <1>4, <1>5, <1>6, <1>7, ReadSteps DEF OwnerSteps, OwnerStep
LEMMA RoundsStay ==
  ASSUME FlagTypes, OwnerTypes, RoundsKept, Next
  PROVE  RoundsKept' /\ opc' \in OwnerPc /\ round' \in 0..ReadBudget
<1> USE RingConstants DEF Submitting, Submitted, Asking
<1>0. round \in 0..ReadBudget /\ opc \in OwnerPc /\ ReadBudget \in Nat \ {0}
  BY DEF OwnerTypes
<1>1. ASSUME NEW c \in Reader, AnyCall(c)
      PROVE  RoundsKept' /\ opc' \in OwnerPc /\ round' \in 0..ReadBudget
  BY <1>0, <1>1, ReaderLeaves DEF RoundsKept, ownVars, pumpVars
<1>2. CASE PumpOwner \/ ReadReady
  <2>1. /\ opc = "idle" /\ round' = round /\ again' = (opc' = "append")
        /\ opc' \in {"idle", "stage", "retry", "arm", "append", "check"}
    BY <1>2 DEF PumpOwner, ReadReady, Goto, Submit
  <2>2. opc' = "append" => again'
    BY <2>1
  <2>3. opc' # "append" => ~again'
    BY <2>1
  <2> QED BY <1>0, <2>1, <2>2, <2>3 DEF RoundsKept, OwnerPc
<1>3. CASE ReadWaitFailed \/ RequestClose \/ PeerEnd
  <2>1. UNCHANGED <<round, again>> /\ (opc' = opc \/ (opc = "idle" /\ opc' = "endData"))
    BY <1>3 DEF ReadWaitFailed, RequestClose, PeerEnd, ownVars, pumpVars, Goto
  <2> QED BY <1>0, <2>1 DEF RoundsKept, OwnerPc
<1>4. CASE \/ ReserveBusy \/ ReserveLock \/ Reserve \/ OwnerRelease \/ RecvAgain \/ RecvEnd
           \/ AppendBusy \/ AppendLock \/ TryAppend \/ DeferBusy \/ DeferLock \/ AppendDeferred
           \/ AppendData \/ EndData \/ EndRelease \/ TakeRawRetry \/ StageHold \/ MarkClosed
           \/ \E n \in 1..StreamLen : Recv(n)
  <2>1. UNCHANGED <<round, again>>
    BY <1>4 DEF ReserveBusy, ReserveLock, Reserve, OwnerRelease, RecvAgain, RecvEnd, AppendBusy,
       AppendLock, TryAppend, DeferBusy, DeferLock, AppendDeferred, AppendData, EndData, EndRelease,
       TakeRawRetry, StageHold, MarkClosed, Recv, pumpVars
  <2>2. \/ opc \in Asking \cup Submitting \cup Submitted /\ opc' \in (Asking \cup {"append"}) \ {opc}
           /\ (opc \notin Asking => opc' \notin Asking)
        \/ opc \in Submitting \cup {"appendRelease", "appendData"} /\ opc' \in Submitting \cup Submitted
        \/ opc \in Asking \cup Submitting /\ opc' = "arm"
        \/ opc \in OwnerPc \ (Submitting \cup Submitted \cup {"arm"})
           /\ opc' \in {"endData", "arm", "endRelease", "closeRelease", "idle", "markClosed", "closeData"}
    BY <1>4 DEF ReserveBusy, ReserveLock, Reserve, OwnerRelease, RecvAgain, RecvEnd, AppendBusy,
       AppendLock, TryAppend, DeferBusy, DeferLock, AppendDeferred, AppendData, EndData, EndRelease,
       TakeRawRetry, StageHold, MarkClosed, Recv, Goto, OwnerPc
  <2> QED BY <1>0, <2>1, <2>2 DEF RoundsKept, OwnerPc
<1>5. CASE CheckPending
  <2>1. opc = "check" /\ round' = 0 /\ again' = again /\ opc' \in {"arm", "round"}
    BY <1>5 DEF CheckPending, Goto
  <2> QED BY <1>0, <2>1 DEF RoundsKept, OwnerPc
<1>6. CASE Want
  <2>1. /\ opc = "round" /\ round' = round /\ again' = again /\ opc' \in {"arm", "reserve"}
        /\ opc' = "reserve" => round < ReadBudget
    BY <1>6 DEF Want, Goto
  <2> QED BY <1>0, <2>1 DEF RoundsKept, OwnerPc
<1>7. CASE RecvInterrupted
  <2>1. opc = "recv" /\ round' = round + 1 /\ again' = again /\ opc' = "round"
    BY <1>7 DEF RecvInterrupted, Goto
  <2> QED BY <1>0, <2>1 DEF RoundsKept, OwnerPc
<1>8. CASE Appended
  <2>1. /\ opc = "appended" /\ round' = (IF again THEN round ELSE round + 1) /\ again' = FALSE
        /\ opc' \in {"check", "arm", "round"}
    BY <1>8 DEF Appended, Goto
  <2>2. ~again => round < ReadBudget
    BY <2>1 DEF RoundsKept
  <2> QED BY <1>0, <2>1, <2>2 DEF RoundsKept, OwnerPc
<1>9. CASE Arm
  <2>1. opc = "arm" /\ round' = 0 /\ again' = FALSE /\ opc' \in {"retry", "idle"}
    BY <1>9 DEF Arm, Goto
  <2> QED BY <1>0, <2>1 DEF RoundsKept, OwnerPc
<1> QED BY <1>1, <1>2, <1>3, <1>4, <1>5, <1>6, <1>7, <1>8, <1>9, ReadSteps DEF OwnerSteps, OwnerStep

LEMMA GrantStays ==
  ASSUME InboundExact, BytesPlaced, GrantKept, Next
  PROVE  GrantKept' /\ granted' \in 0..Chunk
<1>0. ByteTypes /\ ReadTypes /\ granted \in 0..Chunk /\ Size + Len(buf) <= MaxInbound
      /\ Size \in Nat /\ Len(buf) \in Nat /\ MaxInbound \in Nat /\ Chunk \in Nat
  BY TypeParts, SizeIs, RingConstants DEF InboundExact, InboundBounded, OwnerTypes
<1>1. ASSUME NEW c \in Reader, AnyCall(c) PROVE GrantKept' /\ granted' \in 0..Chunk
  <2>1. Size' <= Size /\ ByteTypes' /\ UNCHANGED <<opc, granted>>
    BY <1>0, <1>1, ReadersKeepBytes, ReaderLeaves DEF ownVars, pumpVars
  <2>2. (Size \in Nat)'
    BY <2>1, SizeIs, PTL
  <2>3. opc' = opc /\ granted' = granted /\ Size' <= Size /\ Size' \in Nat
    BY <2>1, <2>2
  <2>4. ASSUME opc \in {"reserveRelease", "recv"} PROVE Size' + granted <= MaxInbound
    <3>1. Size + granted <= MaxInbound
      BY <2>4 DEF GrantKept
    <3>2. granted \in Nat
      BY <1>0
    <3>3. \A a, b, g, m \in Nat : a <= b /\ b + g <= m => a + g <= m
      OBVIOUS
    <3> QED BY <1>0, <2>3, <3>1, <3>2, <3>3
  <2> QED BY <1>0, <2>3, <2>4 DEF GrantKept
<1>2. CASE Want
  <2>1. opc' \in {"reserve", "arm"}
    BY <1>2 DEF Want, Goto
  <2>2. granted' \in 0..Chunk
    BY <1>0, <1>2 DEF Want, Least
  <2> QED BY <2>1, <2>2 DEF GrantKept
<1>3. CASE Reserve
  <2>1. granted' = Least(granted, MaxInbound - Size) /\ Size' = Size
    BY <1>3 DEF Reserve, dataVars, quiet, Size
  <2> QED BY <1>0, <2>1 DEF GrantKept, Least
<1>4. CASE OwnerRelease
  <2>1. /\ granted' = granted /\ Size' = Size /\ opc \in {"reserveRelease", "appendRelease"}
        /\ opc' = IF opc = "reserveRelease" THEN "recv" ELSE "appendData"
    BY <1>4 DEF OwnerRelease, dataVars, pumpVars, Size, Goto
  <2> QED BY <1>0, <2>1 DEF GrantKept
<1>5. CASE Arm \/ \E n \in 1..StreamLen : Recv(n)
  <2>1. granted' = 0 /\ opc' \in {"retry", "idle", "append"}
    BY <1>5 DEF Arm, Recv, Goto
  <2> QED BY <1>0, <2>1 DEF GrantKept
<1>6. CASE PumpOwner \/ ReadReady \/ ReadWaitFailed \/ RequestClose \/ PeerEnd
  <2>1. granted' = granted
    BY <1>6 DEF PumpOwner, ReadReady, ReadWaitFailed, RequestClose, PeerEnd, ownVars, pumpVars
  <2>2. opc' \notin {"reserveRelease", "recv"} \/ UNCHANGED <<opc, dataVars>>
    BY <1>6 DEF PumpOwner, ReadReady, ReadWaitFailed, RequestClose, PeerEnd, ownVars, Goto, Submit
  <2> QED BY <1>0, <2>1, <2>2 DEF GrantKept, Size, dataVars
<1>7. CASE \/ CheckPending \/ ReserveBusy \/ ReserveLock \/ RecvAgain \/ RecvInterrupted \/ RecvEnd
           \/ AppendBusy \/ AppendLock \/ TryAppend \/ DeferBusy \/ DeferLock \/ AppendDeferred
           \/ AppendData \/ Appended \/ EndData \/ EndRelease \/ TakeRawRetry \/ StageHold \/ MarkClosed
  <2>1. granted' = granted /\ opc' \notin {"reserveRelease", "recv"}
    BY <1>7 DEF CheckPending, ReserveBusy, ReserveLock, RecvAgain, RecvInterrupted, RecvEnd, AppendBusy,
       AppendLock, TryAppend, DeferBusy, DeferLock, AppendDeferred, AppendData, Appended, EndData,
       EndRelease, TakeRawRetry, StageHold, MarkClosed, Goto, pumpVars
  <2> QED BY <1>0, <2>1 DEF GrantKept
<1> QED BY <1>1, <1>2, <1>3, <1>4, <1>5, <1>6, <1>7, ReadSteps DEF OwnerSteps, OwnerStep

\* The types of what the rest of the invariant does not speak of.
LEMMA OthersTyped ==
  ASSUME HolderTypes, HubTypes, ReadTypes, EndTypes, Next
  PROVE  HolderTypes' /\ HubTypes' /\ ReadTypes' /\ EndTypes'
<1>1. ASSUME NEW c \in Reader, AnyCall(c) PROVE HolderTypes' /\ HubTypes' /\ ReadTypes' /\ EndTypes'
  <2>1. HolderTypes'
    BY <1>1 DEF HolderTypes, AnyCall, ReaderStep, ReaderEvent, TryBusy, RequestRawRetry, TryLock, Take,
       FindEmpty, TerminalLocked, Release, Tell, Guard, Unguard, AddWaiter, Recheck, Resume, Start, Consume,
       GiveUp, Leave
  <2>2. HubTypes'
    BY <1>1 DEF HubTypes, AnyCall, ReaderStep, ReaderEvent, TryBusy, RequestRawRetry, TryLock, Take,
       FindEmpty, TerminalLocked, Release, Tell, Guard, Unguard, AddWaiter, Recheck, Resume, Start, Consume,
       GiveUp, Leave, hubVars, NotifyRelease, NotifyDataChanged, Sampled
  <2> QED BY <1>1, <2>1, <2>2, CallMoves, ReaderLeaves DEF EndTypes, netVars
<1>2. ASSUME OwnerSteps \/ RequestClose \/ PeerEnd
      PROVE  HolderTypes' /\ HubTypes' /\ ReadTypes' /\ EndTypes'
  <2> USE <1>2 DEF OwnerSteps, OwnerStep, PumpOwner, ReadReady, ReadWaitFailed, RequestClose, PeerEnd,
        CheckPending, Want, ReserveBusy, ReserveLock, Reserve, OwnerRelease, Recv, RecvAgain,
        RecvInterrupted, RecvEnd, AppendBusy, AppendLock, TryAppend, DeferBusy, DeferLock, AppendDeferred,
        AppendData, Appended, EndData, EndRelease, Arm, TakeRawRetry, StageHold, MarkClosed
  <2>1. HolderTypes'
    BY DEF HolderTypes, quiet, othersRest
  <2>2. HubTypes'
    BY DEF HubTypes, quiet, hubVars, NotifyRelease, NotifyDataChanged, Sampled
  <2>3. EndTypes'
    BY DEF EndTypes, quiet, netVars
  <2> QED BY <2>1, <2>2, <2>3, OwnerLeaves DEF ReadTypes
<1> QED BY <1>1, <1>2, ReadSteps
-----------------------------------------------------------------------------
(***************************************************************************)
(* Who is notified.                                                        *)
(***************************************************************************)

Outside == OwnerSteps \/ RequestClose \/ PeerEnd

\* A reader touches the registration of nobody else, and moves nobody's generation without
\* notifying those who wait for it.
LEMMA ReaderNotifies ==
  ASSUME NEW c \in Reader, AnyCall(c)
  PROVE  /\ dataHub \ {c} \subseteq dataHub' /\ releaseHub \ {c} \subseteq releaseHub'
         /\ woken \ {c} \subseteq woken'
         /\ moved' \subseteq moved \/ releaseHub \subseteq woken'
BY DEF AnyCall, ReaderStep, ReaderEvent, TryBusy, RequestRawRetry, TryLock, Take, FindEmpty, TerminalLocked,
   Release, Tell, Guard, Unguard, AddWaiter, Recheck, Resume, Start, Consume, GiveUp, Leave, hubVars,
   NotifyRelease, NotifyDataChanged

\* A call gets to where it waits only by registering and by looking again.
LEMMA CallWaits ==
  ASSUME ReadTypes, NEW c \in Reader, AnyCall(c), read'[c].pc \in {"added", "parked"}
  PROVE  (AddWaiter(c) /\ read'[c].pc = "added") \/ Recheck(c)
<1>0. /\ \A p : Goes(c, p) => read'[c].pc = p
      /\ \A p, e : Ends(c, p, e) => read'[c].pc = p
  BY DEF ReadTypes, CallSet, Goes, Ends, NoCall
<1>1. ASSUME \/ TryBusy(c) \/ RequestRawRetry(c) \/ TryLock(c) \/ Take(c) \/ FindEmpty(c)
             \/ TerminalLocked(c) \/ Release(c) \/ Tell(c) \/ Guard(c) \/ Unguard(c) \/ Resume(c)
             \/ (\E n \in 1..MaxInbound : Consume(c, n)) \/ GiveUp(c)
      PROVE  FALSE
  <2>1. \E p \in ReaderPc \ {"added", "parked"} : Goes(c, p) \/ \E e : Ends(c, p, e)
    BY <1>1 DEF TryBusy, RequestRawRetry, TryLock, Take, FindEmpty, TerminalLocked, Release, Tell, Guard,
       Unguard, Resume, Consume, GiveUp, ReaderPc
  <2> QED BY <1>0, <2>1
<1>2. ASSUME NEW op \in Call, Start(c, op) PROVE FALSE
  BY <1>2 DEF Start, ReadTypes
<1>3. ASSUME AddWaiter(c), read'[c].pc = "parked" PROVE FALSE
  BY <1>0, <1>3 DEF AddWaiter
<1> QED BY <1>1, <1>2, <1>3 DEF AnyCall, ReaderStep, ReaderEvent

LEMMA RegisteredKept ==
  ASSUME ReadTypes, Registered, Next
  PROVE  Registered'
<1>1. ASSUME NEW d \in Reader, AnyCall(d), NEW c \in Reader, read'[c].pc \in {"added", "parked"}
      PROVE  Hub(c)' = (IF read'[c].res = "busy" THEN releaseHub' ELSE dataHub') /\ c \in Hub(c)'
  <2>0. Hub(c)' = (IF read'[c].res = "busy" THEN releaseHub' ELSE dataHub')
    BY DEF Hub
  <2>1. CASE c # d
    <3>1. read'[c] = read[c]
      BY <1>1, <2>1, CallMoves
    <3>2. c \in Hub(c)
      BY <1>1, <3>1 DEF Registered
    <3> QED BY <1>1, <2>0, <2>1, <3>1, <3>2, ReaderNotifies DEF Hub
  <2>2. CASE c = d /\ AddWaiter(c) /\ read'[c].pc = "added"
    <3>1. Goes(c, "added") \/ Goes(c, "idle")
      BY <2>2 DEF AddWaiter
    <3>2. read'[c].res = read[c].res /\ Goes(c, "added")
      BY <2>2, <3>1 DEF Goes, ReadTypes, CallSet, NoCall
    <3>3. ~Goes(c, "idle")
      BY <2>2 DEF Goes, ReadTypes, NoCall
    <3> QED BY <2>0, <2>2, <3>2, <3>3 DEF AddWaiter
  <2>3. CASE c = d /\ Recheck(c)
    <3>1. read'[c].res = read[c].res /\ read[c].pc = "added"
      BY <2>3 DEF Recheck, Goes, ReadTypes, CallSet
    <3>2. c \in Hub(c) /\ UNCHANGED <<dataHub, releaseHub>>
      BY <2>3, <3>1 DEF Registered, Recheck
    <3> QED BY <2>0, <3>1, <3>2 DEF Hub
  <2> QED BY <1>1, <2>1, <2>2, <2>3, CallWaits
<1>2. ASSUME Outside PROVE Registered'
  BY <1>2, OwnerLeaves DEF Outside, Registered, Hub
<1> QED BY <1>1, <1>2, ReadSteps DEF Registered, Outside

\* What the owner publishes it reports, before or in the same step.
LEMMA OwnerNotifies ==
  ASSUME Outside
  PROVE  /\ woken \subseteq woken'
         /\ moved' = moved \/ releaseHub \subseteq woken'
         /\ DataNotifyComing => DataNotifyComing' \/ dataHub \subseteq woken'
         /\ UNCHANGED <<dataVars, endVars>> \/ DataNotifyComing' \/ dataHub \subseteq woken'
<1>1. CASE PumpOwner \/ ReadReady \/ ReadWaitFailed \/ RequestClose \/ PeerEnd
  BY <1>1 DEF PumpOwner, ReadReady, ReadWaitFailed, RequestClose, PeerEnd, quiet, hubVars, ownVars,
     DataNotifyComing, Goto
<1>2. CASE \/ CheckPending \/ Want \/ ReserveBusy \/ ReserveLock \/ Reserve
           \/ RecvAgain \/ RecvInterrupted \/ RecvEnd \/ AppendBusy \/ AppendLock \/ DeferBusy \/ DeferLock
           \/ Arm \/ TakeRawRetry \/ MarkClosed \/ \E n \in 1..StreamLen : Recv(n)
  BY <1>2 DEF CheckPending, Want, ReserveBusy, ReserveLock, Reserve, RecvAgain, RecvInterrupted, RecvEnd,
     AppendBusy, AppendLock, DeferBusy, DeferLock, Arm, TakeRawRetry, MarkClosed, Recv, quiet, hubVars,
     DataNotifyComing, Goto
<1>3. CASE OwnerRelease \/ EndRelease
  BY <1>3 DEF OwnerRelease, EndRelease, NotifyRelease, DataNotifyComing, Goto
<1>4. CASE TryAppend \/ AppendDeferred \/ AppendData \/ Appended \/ EndData \/ StageHold
  BY <1>4 DEF TryAppend, AppendDeferred, AppendData, Appended, EndData, StageHold, NotifyDataChanged,
     DataNotifyComing, Goto, quiet, hubVars, dataVars
<1> QED BY <1>1, <1>2, <1>3, <1>4 DEF Outside, OwnerSteps, OwnerStep

LEMMA NotifiedKept ==
  ASSUME ByteTypes, ReadTypes, Registered, NotifiedOrComing, Next
  PROVE  NotifiedOrComing'
<1> SUFFICES ASSUME NEW c \in Reader, (read[c].pc = "parked" /\ Ready(c) /\ c \notin woken)'
             PROVE  (read[c].res # "busy" /\ DataNotifyComing)'
  BY DEF NotifiedOrComing
<1>0. /\ Ready(c)' <=> IF read'[c].res = "busy" THEN c \in moved'
                       ELSE Size' > 0 \/ eof' \/ error' \/ closed'
      /\ Ready(c) <=> IF read[c].res = "busy" THEN c \in moved
                      ELSE Size > 0 \/ eof \/ error \/ closed
      /\ DataNotifyComing' <=> opc' \in {"appendRelease", "appendData", "endData", "closeData"}
      /\ read'[c].pc = "parked" /\ Ready(c)' /\ c \notin woken'
  BY DEF Ready, DataNotifyComing
<1>1. ASSUME NEW d \in Reader, d # c, AnyCall(d) PROVE (read[c].res # "busy" /\ DataNotifyComing)'
  <2>1. /\ read'[c] = read[c] /\ c \notin woken
        /\ moved' \subseteq moved \/ releaseHub \subseteq woken'
    BY <1>0, <1>1, CallMoves, ReaderNotifies
  <2>2. c \in Hub(c) /\ (Ready(c) => read[c].res # "busy" /\ DataNotifyComing)
    BY <1>0, <2>1 DEF Registered, NotifiedOrComing
  <2>3. read[c].res # "busy"
    BY <1>0, <2>1, <2>2 DEF Hub
  <2>4. Size' <= Size /\ UNCHANGED <<eof, error, closed, opc>> /\ ByteTypes'
    BY <1>1, ReadersKeepBytes, ReaderLeaves DEF endVars, ownVars
  <2>5. Size \in Nat /\ (Size \in Nat)'
    BY <2>4, SizeIs, PTL
  <2>6. \A a, b \in Nat : a <= b /\ a > 0 => b > 0
    OBVIOUS
  <2>7. Ready(c)
    BY <1>0, <2>1, <2>3, <2>4, <2>5, <2>6
  <2> QED BY <1>0, <2>1, <2>2, <2>3, <2>4, <2>7 DEF DataNotifyComing
<1>2. ASSUME AnyCall(c) PROVE (read[c].res # "busy" /\ DataNotifyComing)'
  <2>1. Recheck(c)
    BY <1>0, <1>2, CallWaits
  <2>2. read'[c].res = read[c].res /\ UNCHANGED <<moved, dataVars, endVars>>
    BY <2>1 DEF Recheck, Goes, ReadTypes, CallSet
  <2>3. Size' = Size
    BY <2>2 DEF Size, dataVars
  <2>4. Ready(c)
    BY <1>0, <2>2, <2>3 DEF endVars
  <2> QED BY <1>0, <2>1, <2>4 DEF Recheck
<1>3. ASSUME Outside PROVE (read[c].res # "busy" /\ DataNotifyComing)'
  <2>1. /\ read' = read /\ c \notin woken
        /\ moved' = moved \/ releaseHub \subseteq woken'
        /\ DataNotifyComing => DataNotifyComing' \/ dataHub \subseteq woken'
        /\ UNCHANGED <<dataVars, endVars>> \/ DataNotifyComing' \/ dataHub \subseteq woken'
    BY <1>0, <1>3, OwnerLeaves, OwnerNotifies DEF Outside
  <2>2. c \in Hub(c) /\ (Ready(c) => read[c].res # "busy" /\ DataNotifyComing)
    BY <1>0, <2>1 DEF Registered, NotifiedOrComing
  <2>3. read[c].res # "busy"
    BY <1>0, <2>1, <2>2 DEF Hub
  <2>4. c \in dataHub /\ ~(dataHub \subseteq woken')
    BY <1>0, <2>2, <2>3 DEF Hub
  <2>5. CASE UNCHANGED <<dataVars, endVars>>
    <3>1. Size' = Size /\ UNCHANGED <<eof, error, closed>>
      BY <2>5 DEF Size, dataVars, endVars
    <3>2. Ready(c)
      BY <1>0, <2>1, <2>3, <3>1
    <3> QED BY <2>1, <2>2, <2>3, <2>4, <3>2
  <2> QED BY <2>1, <2>3, <2>4, <2>5
<1> QED BY <1>1, <1>2, <1>3, ReadSteps DEF Outside
-----------------------------------------------------------------------------
(***************************************************************************)
(* The owner that sleeps.                                                  *)
(***************************************************************************)

Closing == {"stage", "markClosed", "closeData"}

\* Bytes that were taken are still to be told, or the owner is told.
LEMMA TellStays ==
  ASSUME ReadTypes, NEW c \in Reader, AnyCall(c)
  PROVE  /\ dirty => dirty'
         /\ \A d \in Reader : StillToTell(d) => StillToTell(d)' \/ dirty'
<1>0. /\ \A p : Goes(c, p) /\ p # "idle" => read'[c].pc = p /\ read'[c].res = read[c].res
      /\ \A p, e : Ends(c, p, e) => read'[c].pc = p /\ read'[c].res = e
  BY DEF ReadTypes, CallSet, Goes, Ends
<1>1. dirty => dirty'
  BY DEF AnyCall, ReaderStep, ReaderEvent, TryBusy, RequestRawRetry, TryLock, Take, FindEmpty,
     TerminalLocked, Release, Tell, Guard, Unguard, AddWaiter, Recheck, Resume, Start, Consume, GiveUp,
     Leave, readerRest, NotifyDataChanged, WakeOwnerOnly
<1>2. ASSUME StillToTell(c) PROVE StillToTell(c)' \/ dirty'
  <2>0. /\ StillToTell(c)' <=> \/ read'[c].pc \in {"guarding", "tell"} /\ read'[c].res \in {"ok", "changed"}
                               \/ read'[c].pc = "release" /\ read'[c].res = "ok"
        /\ \/ read[c].pc \in {"guarding", "tell"} /\ read[c].res \in {"ok", "changed"}
           \/ read[c].pc = "release" /\ read[c].res = "ok"
    BY <1>2 DEF StillToTell
  <2>1. CASE Tell(c)
    BY <2>1, <2>0 DEF Tell, NotifyDataChanged, WakeOwnerOnly
  <2>2. CASE Release(c)
    <3>1. Goes(c, "tell") /\ read[c].res = "ok"
      BY <2>0, <2>2 DEF Release
    <3> QED BY <1>0, <2>0, <3>1
  <2>3. CASE Unguard(c)
    BY <1>0, <2>0, <2>3 DEF Unguard
  <2>4. CASE \E n \in 1..MaxInbound : Consume(c, n)
    BY <1>0, <2>0, <2>4 DEF Consume
  <2>5. ASSUME \/ TryBusy(c) \/ RequestRawRetry(c) \/ TryLock(c) \/ Take(c) \/ FindEmpty(c)
               \/ TerminalLocked(c) \/ Guard(c) \/ AddWaiter(c) \/ Recheck(c) \/ Resume(c)
               \/ (\E op \in Call : Start(c, op)) \/ GiveUp(c)
        PROVE  FALSE
    BY <2>0, <2>5 DEF TryBusy, RequestRawRetry, TryLock, Take, FindEmpty, TerminalLocked, Guard, AddWaiter,
       Recheck, Resume, Start, GiveUp
  <2> QED BY <2>1, <2>2, <2>3, <2>4, <2>5 DEF AnyCall, ReaderStep, ReaderEvent
<1>3. \A d \in Reader \ {c} : StillToTell(d)' <=> StillToTell(d)
  BY CallMoves DEF StillToTell
<1> QED BY <1>1, <1>2, <1>3

LEMMA OwnerPauses ==
  ASSUME FlagTypes, BytesPlaced, OwnerHears, Outside, ~PumpOwner, ~dirty'
  PROVE  /\ ~dirty
         /\ paused' => paused \/ Want
         /\ opc \in Closing => opc' \in Closing
         /\ ownerClosed => ownerClosed'
<1>1. CASE ReadReady \/ ReadWaitFailed \/ RequestClose \/ PeerEnd
  BY <1>1 DEF ReadReady, ReadWaitFailed, RequestClose, PeerEnd, quiet, ownVars, flagVars, WakeOwnerOnly,
     Goto, Closing
<1>2. CASE \/ CheckPending \/ ReserveBusy \/ ReserveLock \/ Reserve \/ OwnerRelease
           \/ RecvAgain \/ RecvInterrupted \/ RecvEnd \/ AppendBusy \/ AppendLock \/ DeferBusy \/ DeferLock
           \/ TryAppend \/ AppendDeferred \/ \E n \in 1..StreamLen : Recv(n)
  BY <1>2 DEF CheckPending, ReserveBusy, ReserveLock, Reserve, OwnerRelease, RecvAgain, RecvInterrupted,
     RecvEnd, AppendBusy, AppendLock, DeferBusy, DeferLock, TryAppend, AppendDeferred, Recv, quiet, flagVars,
     Goto, Closing
<1>3. CASE Want \/ Arm \/ TakeRawRetry \/ StageHold \/ MarkClosed
  BY <1>3 DEF Want, Arm, TakeRawRetry, StageHold, MarkClosed, quiet, flagVars, NotifyDataChanged,
     WakeOwnerOnly, Goto, Closing
<1>4. CASE AppendData \/ EndData
  BY <1>4 DEF AppendData, EndData, NotifyDataChanged, WakeOwnerOnly
<1>5. CASE Appended
  <2>1. dirty /\ dirty' = dirty
    BY <1>5 DEF Appended, OwnerHears, quiet
  <2> QED BY <2>1
<1>6. CASE EndRelease
  <2>1. ~ownerClosed /\ opc \notin Closing /\ dirty' = dirty /\ paused' = paused
    BY <1>6 DEF EndRelease, BytesPlaced, Closing
  <2> QED BY <2>1
<1> QED BY <1>1, <1>2, <1>3, <1>4, <1>5, <1>6 DEF Outside, OwnerSteps, OwnerStep

\* The owner adds bytes or leaves them.
LEMMA OwnerAdds ==
  ASSUME ByteTypes, BytesPlaced, Outside
  PROVE  Size' >= Size /\ Size \in Nat /\ Size' \in Nat
<1>0. Size \in Nat /\ Len(buf) \in Nat
  BY SizeIs
<1>1. CASE UNCHANGED <<dataVars, buf, received>> \/ \E n \in 1..StreamLen : Recv(n)
  <2>1. UNCHANGED dataVars
    BY <1>1 DEF Recv
  <2>2. Size' = Size
    BY <2>1 DEF dataVars, Size
  <2> QED BY <1>0, <2>2
<1>2. CASE TryAppend \/ AppendDeferred \/ StageHold
  <2>1. ByteTypes' /\ Size' + Len(buf') = Size + Len(buf)
    BY <1>2, AppendKeepsBytes, DeferKeepsBytes, StageKeepsBytes
  <2>2. (Size \in Nat /\ Len(buf) \in Nat)'
    BY <2>1, SizeIs, PTL
  <2>3. UNCHANGED buf \/ buf' = <<>>
    BY <1>2 DEF TryAppend, AppendDeferred, StageHold
  <2>4. Len(buf') <= Len(buf)
    <3>1. Len(<<>>) = 0
      OBVIOUS
    <3> QED BY <1>0, <2>3, <3>1
  <2>5. \A a, b, x, y \in Nat : a + x = b + y /\ x <= y => a >= b
    OBVIOUS
  <2> QED BY <1>0, <2>1, <2>2, <2>4, <2>5
<1> QED BY <1>1, <1>2, OwnerMovesBytes DEF Outside

LEMMA PauseKept ==
  ASSUME FlagTypes, ByteTypes, ReadTypes, BytesPlaced, OwnerHears, PauseJustified, Next
  PROVE  PauseJustified'
<1> SUFFICES ASSUME paused', ~dirty', ~ownerClosed', opc' \notin Closing
             PROVE  Size' >= ReadLowWater \/ \E c \in Reader : StillToTell(c)'
  BY DEF PauseJustified, ReadLowWater, Closing
<1>0. ReadLowWater \in Nat /\ ReadLowWater <= MaxInbound /\ Size \in Nat /\ MaxInbound \in Nat
  BY RingConstants, SizeIs DEF ReadLowWater
<1> HIDE DEF ReadLowWater
<1>1. ASSUME NEW d \in Reader, AnyCall(d)
      PROVE  Size' >= ReadLowWater \/ \E c \in Reader : StillToTell(c)'
  <2>1. UNCHANGED <<paused, ownerClosed, opc>> /\ ~dirty
    BY <1>1, ReaderLeaves, TellStays DEF ownVars, flagVars
  <2>2. Size >= ReadLowWater \/ \E c \in Reader : StillToTell(c)
    BY <2>1 DEF PauseJustified, Closing
  <2>3. Size' = Size \/ StillToTell(d)'
    BY <1>1, ReadersKeepBytes
  <2> QED BY <1>1, <2>2, <2>3, TellStays
<1>2. CASE PumpOwner
  <2>1. Size' = Size
    BY <1>2 DEF PumpOwner, dataVars, Size
  <2>2. ~(Size < ReadLowWater)
    BY <1>2 DEF PumpOwner, Goto, Closing, flagVars
  <2> QED BY <1>0, <2>1, <2>2
<1>3. CASE Want /\ ~paused
  <2>1. Size' = Size /\ ~(MaxInbound > Size)
    <3>1. (IF MaxInbound > Size THEN MaxInbound - Size ELSE 0) = 0
      BY <1>3 DEF Want
    <3>2. UNCHANGED dataVars
      BY <1>3 DEF Want
    <3> QED BY <1>0, <3>1, <3>2 DEF dataVars, Size
  <2> QED BY <1>0, <2>1
<1>4. ASSUME Outside, ~PumpOwner, ~(Want /\ ~paused)
      PROVE  Size' >= ReadLowWater \/ \E c \in Reader : StillToTell(c)'
  <2>1. ~dirty /\ paused /\ opc \notin Closing /\ ~ownerClosed
    BY <1>4, OwnerPauses
  <2>2. Size >= ReadLowWater \/ \E c \in Reader : StillToTell(c)
    BY <2>1 DEF PauseJustified, Closing
  <2>3. read' = read /\ Size' >= Size /\ Size' \in Nat
    BY <1>4, OwnerLeaves, OwnerAdds DEF Outside
  <2>4. Size >= ReadLowWater => Size' >= ReadLowWater
    <3>1. \A a, b, x \in Nat : a >= b /\ b >= x => a >= x
      OBVIOUS
    <3> QED BY <1>0, <2>3, <3>1
  <2>5. \A c \in Reader : StillToTell(c)' <=> StillToTell(c)
    BY <2>3 DEF StillToTell
  <2> QED BY <2>2, <2>4, <2>5
<1> QED BY <1>1, <1>2, <1>3, <1>4, ReadSteps DEF Outside

LEMMA HearsKept ==
  ASSUME FlagTypes, ReadTypes, BytesPlaced, OwnerHears, Next
  PROVE  OwnerHears'
<1>1. ASSUME NEW c \in Reader, AnyCall(c) PROVE OwnerHears'
  BY <1>1, ReaderLeaves, TellStays DEF OwnerHears, ownVars, flagVars
<1>2. CASE PumpOwner
  <2>1. opc = "idle" /\ UNCHANGED <<stopped, waiting, ownerClosed>>
    BY <1>2 DEF PumpOwner
  <2>2. CASE ownerClosed
    BY <1>2, <2>1, <2>2 DEF PumpOwner, OwnerHears
  <2>3. CASE ~ownerClosed
    <3>1. /\ opc' \in {"stage", "retry", "append", "check"}
          /\ opc' = "retry" => paused' \/ stopped
      BY <1>2, <2>3 DEF PumpOwner, Goto, Submit
    <3> QED BY <2>1, <3>1 DEF OwnerHears
  <2> QED BY <2>2, <2>3
<1>3. CASE ReadReady \/ ReadWaitFailed
  BY <1>3 DEF ReadReady, ReadWaitFailed, OwnerHears, Goto, Submit
<1>4. CASE RequestClose \/ PeerEnd
  BY <1>4 DEF RequestClose, PeerEnd, OwnerHears, ownVars, flagVars, WakeOwnerOnly
<1>5. CASE \/ CheckPending \/ Want \/ ReserveBusy \/ ReserveLock \/ Reserve \/ OwnerRelease
           \/ RecvAgain \/ RecvInterrupted \/ RecvEnd \/ AppendBusy \/ AppendLock \/ DeferBusy \/ DeferLock
           \/ TryAppend \/ AppendDeferred \/ Appended \/ StageHold \/ MarkClosed
           \/ \E n \in 1..StreamLen : Recv(n)
  <2>1. opc' \notin {"appended", "closeRelease", "idle", "retry"}
    BY <1>5 DEF CheckPending, Want, ReserveBusy, ReserveLock, Reserve, OwnerRelease, RecvAgain,
       RecvInterrupted, RecvEnd, AppendBusy, AppendLock, DeferBusy, DeferLock, TryAppend, AppendDeferred,
       Appended, StageHold, MarkClosed, Recv, Goto
  <2> QED BY <2>1 DEF OwnerHears
<1>6. CASE AppendData \/ EndData
  BY <1>6 DEF AppendData, EndData, NotifyDataChanged, WakeOwnerOnly, OwnerHears, Goto
<1>7. CASE EndRelease
  BY <1>7 DEF EndRelease, OwnerHears, Goto
<1>8. CASE Arm
  <2>1. /\ opc = "arm" /\ UNCHANGED <<stopped, ownerClosed, paused>>
        /\ waiting' = (waiting \/ (~stopped /\ (fromPump \/ ~paused)))
        /\ opc' = IF fromPump THEN "retry" ELSE "idle"
    BY <1>8 DEF Arm, Goto
  <2>2. ~stopped => waiting' \/ paused'
    BY <2>1
  <2>3. opc' \in {"idle", "retry"}
    BY <2>1
  <2> QED BY <2>2, <2>1, <2>3 DEF OwnerHears
<1>9. CASE TakeRawRetry
  BY <1>9 DEF TakeRawRetry, OwnerHears, Goto, flagVars
<1> QED BY <1>1, <1>2, <1>3, <1>4, <1>5, <1>6, <1>7, <1>8, <1>9, ReadSteps DEF OwnerSteps, OwnerStep

-----------------------------------------------------------------------------
(***************************************************************************)
(* Reading: the theorems.                                                  *)
(***************************************************************************)

LEMMA RingKept == RingInv /\ [Next]_vars => RingInv'
<1>1. ASSUME RingInv, Next PROVE RingInv'
  <2>1. /\ ByteTypes /\ FlagTypes /\ HolderTypes /\ HubTypes /\ ReadTypes /\ OwnerTypes /\ EndTypes
        /\ InboundExact /\ BytesPlaced /\ RoundsKept /\ GrantKept
        /\ Registered /\ NotifiedOrComing /\ PauseJustified /\ OwnerHears
    BY <1>1, TypeParts DEF RingInv, InboundExact, InboundBounded
  <2>2. ByteTypes' /\ StreamIntact' /\ Size' + Len(buf') <= MaxInbound
    BY <1>1, <2>1, BytesKept
  <2>3. FlagTypes' /\ HolderTypes' /\ HubTypes' /\ ReadTypes' /\ EndTypes'
    BY <1>1, <2>1, ReadFlagsKept, OthersTyped
  <2>4. RoundsKept' /\ GrantKept' /\ OwnerTypes'
    BY <1>1, <2>1, RoundsStay, GrantStays DEF OwnerTypes
  <2>5. TypeOK'
    BY <2>2, <2>3, <2>4, TypeParts, PTL
  <2>6. InboundExact'
    BY <2>2, <2>5 DEF InboundExact, InboundBounded
  <2>7. BytesPlaced' /\ Registered' /\ NotifiedOrComing'
    BY <1>1, <2>1, PlacesKept, RegisteredKept, NotifiedKept
  <2>8. PauseJustified' /\ OwnerHears'
    BY <1>1, <2>1, PauseKept, HearsKept
  <2> QED BY <2>4, <2>6, <2>7, <2>8 DEF RingInv
<1>2. ASSUME RingInv, UNCHANGED vars PROVE RingInv'
  <2>1. InboundExact'
    BY <1>2 DEF RingInv, vars, dataVars, endVars, hubVars, pumpVars, flagVars, ownVars, netVars,
       InboundExact, StreamIntact, InboundBounded, TypeOK, Size
  <2>2. BytesPlaced' /\ RoundsKept' /\ GrantKept'
    BY <1>2 DEF RingInv, vars, dataVars, endVars, hubVars, pumpVars, flagVars, ownVars, netVars,
       BytesPlaced, RoundsKept, GrantKept, Size
  <2>3. Registered' /\ NotifiedOrComing'
    BY <1>2 DEF RingInv, vars, dataVars, endVars, hubVars, pumpVars, flagVars, ownVars, netVars,
       Registered, NotifiedOrComing, Hub, Ready, Size, DataNotifyComing
  <2>4. PauseJustified' /\ OwnerHears'
    BY <1>2 DEF RingInv, vars, dataVars, endVars, hubVars, pumpVars, flagVars, ownVars, netVars,
       PauseJustified, OwnerHears, StillToTell, Size, ReadLowWater
  <2> QED BY <2>1, <2>2, <2>3, <2>4 DEF RingInv
<1> QED BY <1>1, <1>2

\* The invariant holds of every connection.
THEOREM RingAlways == Spec => []RingInv
<1> QED BY RingStart, RingKept, PTL DEF Spec

\* No byte is lost, repeated or reordered between recv and the readers, by a Busy, a deferral,
\* a hold or a close, and together they never exceed max_inbound_bytes.
THEOREM InboundCorrect == Spec => []InboundExact
<1>1. RingInv => InboundExact
  BY DEF RingInv
<1> QED BY <1>1, RingAlways, PTL

\* No reader sleeps through what it waits for, and the owner does not go deaf.
THEOREM NobodySleeps == Spec => []NobodyStranded
<1>1. RingInv => NoLostWakeup
  BY DEF RingInv, NotifiedOrComing, NoLostWakeup
<1>2. RingInv => ReadNeverStranded
  BY DEF RingInv, PauseJustified, OwnerHears, ReadNeverStranded, StillToTell, TellComing
<1>3. RingInv => NobodyStranded
  BY <1>1, <1>2 DEF NobodyStranded
<1> QED BY <1>3, RingAlways, PTL
-----------------------------------------------------------------------------
(***************************************************************************)
(* The reactor: the dirty list.                                            *)
(***************************************************************************)

Distinct(s) == \A i, j \in DOMAIN s : s[i] = s[j] => i = j

\* Linking a connection at the tail.
LEMMA Linked ==
  ASSUME NEW S, NEW s \in Seq(S), NEW c \in S
  PROVE  /\ Append(s, c) \in Seq(S) /\ ToSet(Append(s, c)) = ToSet(s) \cup {c}
         /\ Distinct(s) /\ c \notin ToSet(s) => Distinct(Append(s, c))
<1> DEFINE t == Append(s, c)
           n == Len(s)
<1>1. /\ t \in Seq(S) /\ DOMAIN s = 1 .. n /\ DOMAIN t = 1 .. (n + 1) /\ n \in Nat
      /\ \A i \in 1 .. n : t[i] = s[i]
      /\ t[n + 1] = c
  OBVIOUS
<1> HIDE DEF t, n
<1>2. ToSet(t) = ToSet(s) \cup {c}
  BY <1>1 DEF ToSet
<1>3. ASSUME Distinct(s), c \notin ToSet(s) PROVE Distinct(t)
  BY <1>1, <1>3 DEF Distinct, ToSet
<1> QED BY <1>1, <1>2, <1>3 DEF t

\* Taking the head off.
LEMMA Popped ==
  ASSUME NEW S, NEW s \in Seq(S), s # <<>>, Distinct(s)
  PROVE  /\ Tail(s) \in Seq(S) /\ Head(s) \in ToSet(s)
         /\ ToSet(Tail(s)) = ToSet(s) \ {Head(s)} /\ Distinct(Tail(s))
<1> DEFINE t == Tail(s)
           n == Len(s)
           h == Head(s)
<1>1. /\ t \in Seq(S) /\ DOMAIN s = 1 .. n /\ DOMAIN t = 1 .. (n - 1) /\ n \in Nat \ {0}
      /\ \A i \in 1 .. (n - 1) : t[i] = s[i + 1]
      /\ h = s[1]
  OBVIOUS
<1> HIDE DEF t, n, h
<1>2. h \in ToSet(s)
  BY <1>1 DEF ToSet
<1>3. ASSUME NEW i \in 1 .. (n - 1) PROVE t[i] \in ToSet(s) \ {h}
  <2>1. i + 1 \in 1 .. n /\ 1 \in 1 .. n /\ i + 1 # 1 /\ t[i] = s[i + 1]
    BY <1>1
  <2>2. s[i + 1] # s[1]
    BY <1>1, <2>1 DEF Distinct
  <2> QED BY <1>1, <2>1, <2>2 DEF ToSet
<1>4. ASSUME NEW i \in 1 .. n, s[i] # h PROVE s[i] \in ToSet(t)
  <2>1. i - 1 \in 1 .. (n - 1) /\ t[i - 1] = s[i]
    BY <1>1, <1>4
  <2> QED BY <1>1, <2>1 DEF ToSet
<1>5. ToSet(t) = ToSet(s) \ {h}
  <2>1. ToSet(t) \subseteq ToSet(s) \ {h}
    BY <1>1, <1>3 DEF ToSet
  <2>2. ToSet(s) \ {h} \subseteq ToSet(t)
    BY <1>1, <1>4 DEF ToSet
  <2> QED BY <2>1, <2>2
<1>6. Distinct(t)
  <2> SUFFICES ASSUME NEW i \in 1 .. (n - 1), NEW j \in 1 .. (n - 1), t[i] = t[j]
               PROVE  i = j
    BY <1>1 DEF Distinct
  <2>1. i + 1 \in 1 .. n /\ j + 1 \in 1 .. n /\ s[i + 1] = s[j + 1]
    BY <1>1
  <2>2. i + 1 = j + 1
    BY <1>1, <2>1 DEF Distinct
  <2> QED BY <2>2
<1> QED BY <1>1, <1>2, <1>5, <1>6 DEF t, h

\* Unlinking one connection, linked or not.
LEMMA Unlinked ==
  ASSUME NEW S, NEW s \in Seq(S), NEW c \in S, Distinct(s)
  PROVE  /\ RemoveFirst(s, c) \in Seq(S) /\ Distinct(RemoveFirst(s, c))
         /\ ToSet(RemoveFirst(s, c)) = ToSet(s) \ {c}
<1> DEFINE n == Len(s)
<1>0. n \in Nat /\ DOMAIN s = 1 .. n /\ \A i \in 1 .. n : s[i] \in S
  OBVIOUS
<1>1. CASE \A i \in 1 .. n : s[i] # c
  <2>1. RemoveFirst(s, c) = s
    BY <1>1 DEF RemoveFirst
  <2>2. c \notin ToSet(s)
    BY <1>0, <1>1 DEF ToSet
  <2> QED BY <2>1, <2>2
<1>2. CASE \E i \in 1 .. n : s[i] = c
  <2>1. PICK k \in 1 .. n : s[k] = c
    BY <1>2
  <2>2. { i \in 1 .. n : s[i] = c } = {k}
    BY <1>0, <2>1 DEF Distinct
  <2>3. Min({k}) = k
    BY <2>1 DEF Min
  <2>4. RemoveFirst(s, c) = RemoveAt(s, k)
    BY <1>2, <2>2, <2>3 DEF RemoveFirst, SelectInSeq
  <2> DEFINE t == RemoveAt(s, k)
  <2> DEFINE u == SubSeq(s, 1, k - 1)
             v == SubSeq(s, k + 1, n)
  <2>5. u \in Seq(S) /\ Len(u) = k - 1 /\ \A i \in 1 .. (k - 1) : u[i] = s[i]
    BY <1>0, <2>1
  <2>6. v \in Seq(S) /\ Len(v) = n - k /\ \A i \in 1 .. (n - k) : v[i] = s[k + i]
    <3>1. k + 1 \in Int /\ n \in Int /\ n - (k + 1) + 1 = n - k
          /\ \A i \in k + 1 .. n : s[i] \in S
      BY <1>0, <2>1
    <3>2. /\ v \in Seq(S) /\ Len(v) = IF k + 1 <= n THEN n - (k + 1) + 1 ELSE 0
          /\ \A i \in 1 .. (n - (k + 1) + 1) : v[i] = s[(k + 1) + i - 1]
      BY <3>1, SubSeqProperties
    <3>3. Len(v) = n - k
      <4>1. CASE k + 1 <= n
        BY <3>1, <3>2, <4>1
      <4>2. CASE ~(k + 1 <= n)
        <5>1. k = n /\ n - k = 0
          <6> HIDE DEF n
          <6> QED BY <1>0, <2>1, <4>2
        <5> QED BY <3>2, <4>2, <5>1
      <4> QED BY <4>1, <4>2
    <3>4. ASSUME NEW i \in 1 .. (n - k) PROVE v[i] = s[k + i]
      <4>1. (k + 1) + i - 1 = k + i
        BY <2>1
      <4> QED BY <3>1, <3>2, <4>1
    <3> QED BY <3>2, <3>3, <3>4
  <2>7. t = u \o v
    BY DEF RemoveAt
  <2> HIDE DEF t, u, v
  <2>8. /\ t \in Seq(S) /\ Len(t) = n - 1 /\ DOMAIN t = 1 .. (n - 1)
        /\ \A i \in 1 .. (n - 1) : t[i] = IF i <= k - 1 THEN u[i] ELSE v[i - (k - 1)]
    <3>1. /\ t \in Seq(S) /\ Len(t) = Len(u) + Len(v)
          /\ \A i \in 1 .. (Len(u) + Len(v)) : t[i] = IF i <= Len(u) THEN u[i] ELSE v[i - Len(u)]
      BY <2>5, <2>6, <2>7, ConcatProperties
    <3>2. Len(u) + Len(v) = n - 1
      BY <1>0, <2>1, <2>5, <2>6
    <3> QED BY <2>5, <3>1, <3>2
  <2>9. ASSUME NEW i \in 1 .. (n - 1)
        PROVE  \/ i < k /\ t[i] = s[i]
               \/ i >= k /\ t[i] = s[i + 1]
    <3>1. CASE i < k
      <4>1. i \in 1 .. (k - 1)
        BY <2>1, <3>1
      <4> QED BY <2>5, <2>8, <3>1, <4>1
    <3>2. CASE i >= k
      <4>1. i - (k - 1) \in 1 .. (n - k) /\ ~(i <= k - 1) /\ k + (i - (k - 1)) = i + 1
        BY <1>0, <2>1, <3>2
      <4> QED BY <2>6, <2>8, <3>2, <4>1
    <3> QED BY <2>1, <3>1, <3>2
  <2>10. ASSUME NEW i \in 1 .. (n - 1) PROVE t[i] \in ToSet(s) \ {c}
    <3>1. PICK j \in 1 .. n : t[i] = s[j] /\ j # k
      BY <1>0, <2>1, <2>9
    <3>2. s[j] # s[k]
      BY <1>0, <3>1 DEF Distinct
    <3> QED BY <1>0, <2>1, <3>1, <3>2 DEF ToSet
  <2>11. ASSUME NEW j \in 1 .. n, s[j] # c PROVE s[j] \in ToSet(t)
    <3>1. CASE j < k
      <4>1. j \in 1 .. (n - 1) /\ t[j] = s[j]
        BY <1>0, <2>1, <2>9, <3>1
      <4> QED BY <2>8, <4>1 DEF ToSet
    <3>2. CASE j > k
      <4>1. j - 1 \in 1 .. (n - 1) /\ j - 1 >= k /\ (j - 1) + 1 = j
        BY <1>0, <2>1, <3>2
      <4>2. t[j - 1] = s[j]
        BY <2>1, <2>9, <4>1
      <4> QED BY <2>8, <4>1, <4>2 DEF ToSet
    <3> QED BY <2>1, <2>11, <3>1, <3>2
  <2>12. ToSet(t) = ToSet(s) \ {c}
    <3>1. ToSet(t) \subseteq ToSet(s) \ {c}
      BY <2>8, <2>10 DEF ToSet
    <3>2. ToSet(s) \ {c} \subseteq ToSet(t)
      BY <1>0, <2>11 DEF ToSet
    <3> QED BY <3>1, <3>2
  <2>13. ASSUME NEW i \in 1 .. (n - 1), NEW j \in 1 .. (n - 1), t[i] = t[j] PROVE i = j
    <3>1. CASE i < k /\ j < k
      <4>1. i \in 1 .. n /\ j \in 1 .. n /\ s[i] = s[j]
        BY <1>0, <2>1, <2>9, <2>13, <3>1
      <4> QED BY <1>0, <4>1 DEF Distinct
    <3>2. CASE i < k /\ j >= k
      <4>1. i \in 1 .. n /\ j + 1 \in 1 .. n /\ s[i] = s[j + 1] /\ i # j + 1
        BY <1>0, <2>1, <2>9, <2>13, <3>2
      <4> QED BY <1>0, <4>1 DEF Distinct
    <3>3. CASE i >= k /\ j < k
      <4>1. i + 1 \in 1 .. n /\ j \in 1 .. n /\ s[i + 1] = s[j] /\ i + 1 # j
        BY <1>0, <2>1, <2>9, <2>13, <3>3
      <4> QED BY <1>0, <4>1 DEF Distinct
    <3>4. CASE i >= k /\ j >= k
      <4>1. i + 1 \in 1 .. n /\ j + 1 \in 1 .. n /\ s[i + 1] = s[j + 1]
        BY <1>0, <2>1, <2>9, <2>13, <3>4
      <4>2. i + 1 = j + 1
        BY <1>0, <4>1 DEF Distinct
      <4> QED BY <4>2
    <3> QED BY <2>1, <3>1, <3>2, <3>3, <3>4
  <2>14. Distinct(t)
    BY <2>8, <2>13 DEF Distinct
  <2> QED BY <2>4, <2>8, <2>12, <2>14 DEF t
<1> QED BY <1>1, <1>2

-----------------------------------------------------------------------------
(***************************************************************************)
(* The reactor: the invariant.                                             *)
(***************************************************************************)

Idle(a)     == mark[a].pc = "idle" /\ mark[a].conn = None
Links(a, c) == mark[a].pc = "link" /\ mark[a].conn = c

OwnerPlace == {"idle", "find", "core", "shut", "shutting", "after", "sealFlag", "sealNext",
               "sealErase", "finalize", "gone"}
MarkType == [pc : {"idle", "check", "exchange", "link"}, conn : Conn \cup {None}]

\* Types; whoever is in a call holds a connection that was adopted.
Types ==
  /\ adopted \subseteq Conn /\ registered \subseteq adopted
  /\ queued \subseteq adopted /\ reactorClosed \subseteq adopted /\ work \subseteq adopted
  /\ list \in Seq(Conn) /\ ToSet(list) \subseteq adopted
  /\ mark \in [Actor -> MarkType]
  /\ \A a \in Actor : IF mark[a].pc = "idle" THEN mark[a].conn = None ELSE mark[a].conn \in adopted

\* The flag of a registered connection is set by who is about to link it and
\* stays as long as it is linked.
FlagOf(c) ==
  /\ c \in ToSet(list) => c \in queued /\ \A a \in Actor : ~Links(a, c)
  /\ c \in queued => c \in ToSet(list) \/ \E a \in Actor : Links(a, c)
  /\ \A a \in Actor : Links(a, c) => c \in queued
  /\ \A a, b \in Actor : Links(a, c) /\ Links(b, c) => a = b

Flags == Distinct(list) /\ \A c \in registered : FlagOf(c)

\* The count lies between the connections there are and those there ever were,
\* and is exact as long as the service is not sealed.
Counted ==
  /\ connCount \in Nat
  /\ Cardinality(registered) <= connCount /\ connCount <= Cardinality(adopted)
  /\ ~implSealed => connCount = Cardinality(registered)

LinkedRegistered == ~implSealed => ToSet(list) \subseteq registered

\* What the owner relies on between its steps.
OwnerState ==
  /\ reactorOpc \in OwnerPlace /\ then \in {"idle", "after", "sealErase"}
  /\ cur \in Conn \cup {None} /\ implSealed \in BOOLEAN /\ sealed \in BOOLEAN
  /\ reactorOpc \in {"core", "shut", "shutting", "after", "sealErase"} => cur \in registered
  /\ reactorOpc = "find" => then = "after"
  /\ reactorOpc = "core" => then \in {"idle", "after"} /\ (then = "idle" => cur \notin reactorClosed)
  /\ reactorOpc \in {"find", "core", "shut", "sealFlag", "sealNext", "sealErase", "finalize", "gone"}
       => Idle(ReactorOwner)
  /\ sealed => implSealed
  /\ then = "sealErase" => implSealed
  /\ reactorOpc \in {"sealFlag", "sealNext", "sealErase", "finalize", "gone"} => implSealed

\* A turn of c is asked for: c is linked, or somebody is about to.
Asked(c) == c \in ToSet(list) \/ \E a \in Actor : mark[a].conn = c

\* Beside NoLostTurn: the owner leaves nothing behind that it relies on itself to see.
Turns ==
  ~implSealed =>
    /\ \A c \in registered \cap (work \cup reactorClosed) : TurnComing(c)
    /\ reactorOpc = "after" /\ cur \in work \ reactorClosed => Asked(cur)
    /\ reactorOpc = "shutting" => Asked(cur)

ReactorInv ==
  Types /\ Flags /\ Counted /\ LinkedRegistered /\ OwnerState /\ Turns

\* The invariant implies the properties.
LEMMA ReactorProperties == ReactorConstants /\ ReactorInv => ListsExact /\ NoLostTurn
<1> SUFFICES ASSUME ReactorConstants, ReactorInv PROVE ListsExact /\ NoLostTurn
  OBVIOUS
<1>1. Types /\ Flags /\ Counted /\ LinkedRegistered /\ OwnerState /\ Turns
  BY DEF ReactorInv
<1>2. IsFiniteSet(adopted) /\ Cardinality(adopted) <= Cardinality(Conn)
      /\ Cardinality(Conn) \in Nat /\ Cardinality(adopted) \in Nat
  BY <1>1, FS_Subset, FS_CardinalityType DEF ReactorConstants, Types
<1>3. ReactorTypeOK
  <2>1. connCount \in 0 .. Cardinality(Conn)
    BY <1>1, <1>2 DEF Counted
  <2>2. /\ adopted \subseteq Conn /\ registered \subseteq adopted /\ queued \subseteq Conn
        /\ reactorClosed \subseteq adopted /\ work \subseteq adopted /\ list \in Seq(Conn)
    BY <1>1 DEF Types
  <2>3. mark \in [Actor -> [pc : {"idle", "check", "exchange", "link"}, conn : Conn \cup {None}]]
    BY <1>1 DEF Types, MarkType
  <2>4. /\ implSealed \in BOOLEAN /\ sealed \in BOOLEAN /\ cur \in Conn \cup {None}
        /\ reactorOpc \in OwnerPlace /\ then \in {"idle", "after", "sealErase"}
    BY <1>1 DEF OwnerState
  <2> QED BY <2>1, <2>2, <2>3, <2>4 DEF ReactorTypeOK, OwnerPlace
<1>4. QueuedExact
  <2>1. \A i, j \in DOMAIN list : list[i] = list[j] => i = j
    BY <1>1 DEF Flags, Distinct
  <2> DEFINE linkers(c) == { a \in Actor : mark[a] = Marking("link", c) }
  <2>2. ASSUME NEW c \in registered
        PROVE  c \in queued <=> \/ c \in ToSet(list) /\ linkers(c) = {}
                                \/ c \notin ToSet(list) /\ Cardinality(linkers(c)) = 1
    <3>1. FlagOf(c)
      BY <1>1 DEF Flags
    <3>2. ASSUME NEW a \in Actor PROVE mark[a] = Marking("link", c) <=> Links(a, c)
      BY <1>1 DEF Types, MarkType, Marking, Links
    <3>3. linkers(c) = { a \in Actor : Links(a, c) }
      BY <3>2
    <3> HIDE DEF linkers
    <3>4. CASE \A a \in Actor : ~Links(a, c)
      <4>1. linkers(c) = {} /\ Cardinality(linkers(c)) = 0
        BY <3>3, <3>4, FS_EmptySet
      <4>2. c \in queued <=> c \in ToSet(list)
        BY <3>1, <3>4 DEF FlagOf
      <4> QED BY <4>1, <4>2
    <3>5. CASE \E a \in Actor : Links(a, c)
      <4>1. PICK a \in Actor : Links(a, c)
        BY <3>5
      <4>2. linkers(c) = {a} /\ c \in queued /\ c \notin ToSet(list)
        BY <3>1, <3>3, <4>1 DEF FlagOf
      <4>3. Cardinality(linkers(c)) = 1
        BY <4>2, FS_Singleton
      <4> QED BY <4>2, <4>3
    <3> QED BY <3>4, <3>5
  <2> QED BY <2>1, <2>2 DEF QueuedExact
<1>5. RegistryExact
  BY <1>1 DEF RegistryExact, LinkedRegistered, Counted
<1>6. NoLostTurn
  BY <1>1 DEF NoLostTurn, Turns
<1> QED BY <1>3, <1>4, <1>5, <1>6 DEF ListsExact

\* Nothing was adopted yet.
LEMMA ReactorStart == ReactorConstants /\ ReactorInit => ReactorInv
<1> SUFFICES ASSUME ReactorConstants, ReactorInit PROVE ReactorInv
  OBVIOUS
<1>1. ToSet(list) = {} /\ list \in Seq(Conn) /\ Distinct(list)
  BY DEF ReactorInit, ToSet, Distinct
<1>2. mark \in [Actor -> MarkType] /\ \A a \in Actor : Idle(a)
  BY DEF ReactorInit, NoMark, MarkType, Idle
<1>3. Types
  BY <1>1, <1>2 DEF ReactorInit, Types, Idle
<1>4. Flags /\ LinkedRegistered
  BY <1>1 DEF ReactorInit, Flags, LinkedRegistered
<1>5. Counted
  BY FS_EmptySet DEF ReactorInit, Counted
<1>6. OwnerState
  BY DEF ReactorInit, OwnerState, OwnerPlace
<1>7. Turns
  BY DEF ReactorInit, Turns
<1> QED BY <1>3, <1>4, <1>5, <1>6, <1>7 DEF ReactorInv

-----------------------------------------------------------------------------
(***************************************************************************)
(* What the steps have in common.                                          *)
(***************************************************************************)

\* An actor comes to a place of MarkDirty, or leaves it.
LEMMA MarkSet ==
  ASSUME Types, NEW a \in Actor, NEW m \in MarkType, mark' = [mark EXCEPT ![a] = m]
  PROVE  /\ mark' \in [Actor -> MarkType] /\ mark'[a] = m
         /\ \A b \in Actor \ {a} : mark'[b] = mark[b]
BY DEF Types

LEMMA MarkTypes ==
  /\ NoMark \in MarkType /\ NoMark.pc = "idle" /\ NoMark.conn = None
  /\ \A c \in Conn, p \in {"check", "exchange", "link"} :
       Marking(p, c) \in MarkType /\ Marking(p, c).pc = p /\ Marking(p, c).conn = c
BY DEF NoMark, Marking, MarkType

\* Types when the registry stays.
LEMMA TypesKept ==
  ASSUME ReactorInv, UNCHANGED <<adopted, registered>>, queued' \subseteq adopted,
         reactorClosed' \subseteq adopted, work' \subseteq adopted,
         list' \in Seq(Conn), ToSet(list') \subseteq adopted,
         \/ mark' = mark
         \/ \E a \in Actor : \/ mark' = [mark EXCEPT ![a] = NoMark]
                             \/ \E c \in adopted, p \in {"check", "exchange", "link"} :
                                  mark' = [mark EXCEPT ![a] = Marking(p, c)]
  PROVE  Types'
<1>1. Types /\ adopted \subseteq Conn
  BY DEF ReactorInv, Types
<1> DEFINE Marks == /\ mark' \in [Actor -> MarkType]
                     /\ \A b \in Actor : IF mark'[b].pc = "idle" THEN mark'[b].conn = None
                                                                 ELSE mark'[b].conn \in adopted
<1>2. Marks
  <2>1. CASE mark' = mark
    BY <1>1, <2>1 DEF Types
  <2>2. ASSUME NEW a \in Actor, mark' = [mark EXCEPT ![a] = NoMark]
        PROVE  Marks
    BY <1>1, <2>2, MarkSet, MarkTypes DEF Types
  <2>3. ASSUME NEW a \in Actor, NEW c \in adopted, NEW p \in {"check", "exchange", "link"},
               mark' = [mark EXCEPT ![a] = Marking(p, c)]
        PROVE  Marks
    <3>1. c \in Conn
      BY <1>1
    <3>2. /\ Marking(p, c) \in MarkType /\ Marking(p, c).pc = p /\ Marking(p, c).conn = c
      BY <3>1, MarkTypes
    <3>3. /\ mark' \in [Actor -> MarkType] /\ mark'[a] = Marking(p, c)
          /\ \A b \in Actor \ {a} : mark'[b] = mark[b]
      BY <1>1, <2>3, <3>2, MarkSet
    <3> QED BY <1>1, <3>2, <3>3 DEF Types
  <2> QED BY <2>1, <2>2, <2>3
<1>3. /\ adopted' \subseteq Conn /\ registered' \subseteq adopted' /\ queued' \subseteq adopted'
      /\ reactorClosed' \subseteq adopted' /\ work' \subseteq adopted'
  BY <1>1 DEF Types
<1>4. list' \in Seq(Conn) /\ ToSet(list') \subseteq adopted'
  OBVIOUS
<1> QED BY <1>2, <1>3, <1>4 DEF Types

\* Nobody starts or ends to link anything, nothing is linked or unlinked.
LEMMA FlagsKept ==
  ASSUME ReactorInv, UNCHANGED listVars, registered' \subseteq registered,
         \A a \in Actor, c \in Conn : Links(a, c)' <=> Links(a, c)
  PROVE  Flags'
<1>1. Flags /\ registered \subseteq Conn
  BY DEF ReactorInv, Types
<1>2. ASSUME NEW c \in registered' PROVE FlagOf(c)'
  <2>1. FlagOf(c) /\ c \in Conn
    BY <1>1 DEF Flags
  <2>2. \A a \in Actor : Links(a, c)' <=> Links(a, c)
    BY <2>1
  <2> QED BY <2>1, <2>2 DEF FlagOf, listVars
<1> QED BY <1>1, <1>2 DEF Flags, listVars

\* A step of the owner that touches neither the list nor the registry; it may
\* enter MarkDirty for its own connection.
OwnerMoves ==
  /\ UNCHANGED <<regVars, listVars, implSealed>>
  /\ reactorClosed' \subseteq adopted /\ work' \subseteq adopted
  /\ \/ mark' = mark
     \/ /\ Idle(ReactorOwner) /\ cur \in registered
        /\ mark' = [mark EXCEPT ![ReactorOwner] = Marking("check", cur)]

LEMMA OwnerMovesKeeps ==
  ASSUME ReactorInv, OwnerMoves
  PROVE  Types' /\ Flags' /\ Counted' /\ LinkedRegistered'
<1>1. Types /\ Flags /\ Counted /\ LinkedRegistered
  BY DEF ReactorInv
<1>2. UNCHANGED <<adopted, registered, connCount, list, queued, implSealed>>
  BY DEF OwnerMoves, regVars, listVars
<1>3. registered \subseteq adopted /\ adopted \subseteq Conn
  BY <1>1 DEF Types
<1>4. Types'
  <2>1. queued' \subseteq adopted /\ list' \in Seq(Conn) /\ ToSet(list') \subseteq adopted
    BY <1>1, <1>2 DEF Types
  <2>2. reactorClosed' \subseteq adopted /\ work' \subseteq adopted
    BY DEF OwnerMoves
  <2>3. \/ mark' = mark
        \/ \E a \in Actor : \/ mark' = [mark EXCEPT ![a] = NoMark]
                            \/ \E c \in adopted, p \in {"check", "exchange", "link"} :
                                 mark' = [mark EXCEPT ![a] = Marking(p, c)]
    BY <1>3 DEF OwnerMoves, Actor
  <2> QED BY <1>2, <2>1, <2>2, <2>3, TypesKept
<1>5. Flags'
  <2>1. ASSUME NEW a \in Actor, NEW c \in Conn PROVE Links(a, c)' <=> Links(a, c)
    <3>1. CASE mark' = mark
      BY <3>1 DEF Links
    <3>2. CASE /\ Idle(ReactorOwner) /\ cur \in registered
               /\ mark' = [mark EXCEPT ![ReactorOwner] = Marking("check", cur)]
      <4>1. /\ cur \in Conn /\ Marking("check", cur).pc = "check"
            /\ Marking("check", cur) \in MarkType
        BY <1>3, <3>2, MarkTypes
      <4>2. mark'[ReactorOwner].pc = "check" /\ \A b \in Actor \ {ReactorOwner} : mark'[b] = mark[b]
        BY <1>1, <3>2, <4>1, MarkSet DEF Actor
      <4> QED BY <3>2, <4>2 DEF Links, Idle
    <3> QED BY <3>1, <3>2 DEF OwnerMoves
  <2>2. UNCHANGED listVars /\ registered' \subseteq registered
    BY <1>2 DEF listVars
  <2> QED BY <2>1, <2>2, FlagsKept
<1>6. Counted'
  BY <1>1, <1>2 DEF Counted
<1>7. LinkedRegistered'
  BY <1>1, <1>2 DEF LinkedRegistered
<1> QED BY <1>4, <1>5, <1>6, <1>7

\* Nobody who was about to link something stops in such a step.
LEMMA AskedKept ==
  ASSUME ReactorConstants, ReactorInv, OwnerMoves, NEW c \in Conn, Asked(c)
  PROVE  Asked(c)'
<1>1. CASE c \in ToSet(list)
  BY <1>1 DEF Asked, OwnerMoves, listVars
<1>2. ASSUME NEW a \in Actor, mark[a].conn = c PROVE Asked(c)'
  <2>1. CASE mark' = mark
    BY <1>2, <2>1 DEF Asked
  <2>2. CASE /\ Idle(ReactorOwner) /\ cur \in registered
             /\ mark' = [mark EXCEPT ![ReactorOwner] = Marking("check", cur)]
    <3>1. a # ReactorOwner
      BY <1>2, <2>2 DEF Idle, ReactorConstants
    <3>2. mark'[a] = mark[a]
      BY <2>2, <3>1 DEF ReactorInv, Types
    <3> QED BY <1>2, <3>2 DEF Asked
  <2> QED BY <2>1, <2>2 DEF OwnerMoves
<1> QED BY <1>1, <1>2 DEF Asked

\* Pumping and closing one connection: Find, Serve, ServeCloses, WaitFails, Shutdown and
\* ShutdownDone.
LEMMA ServingKeeps ==
  ASSUME ReactorConstants, ReactorInv,
         \/ Find \/ Serve \/ ServeCloses \/ Shutdown \/ ShutdownDone
         \/ \E c \in Conn : WaitFails(c)
  PROVE  ReactorInv'
<1>1. Types /\ Flags /\ Counted /\ LinkedRegistered /\ OwnerState /\ Turns
  BY DEF ReactorInv
<1>2. registered \subseteq adopted /\ adopted \subseteq Conn /\ None \notin Conn
  BY <1>1 DEF Types, ReactorConstants
<1>3. OwnerMoves
  <2>1. CASE Find
    BY <1>1, <2>1 DEF Find, OwnerMoves, Types, sealVars
  <2>2. CASE Serve
    <3>1. cur \in registered /\ Idle(ReactorOwner) /\ work' \subseteq adopted
      BY <1>1, <1>2, <2>2 DEF Serve, OwnerState, Types
    <3> QED BY <1>1, <2>2, <3>1 DEF Serve, OwnerMoves, Types, sealVars
  <2>3. CASE ServeCloses
    BY <1>1, <2>3 DEF ServeCloses, OwnerMoves, Types, sealVars
  <2>4. CASE Shutdown
    BY <1>1, <2>4 DEF Shutdown, OwnerMoves, Types, OwnerState, sealVars
  <2>5. CASE ShutdownDone
    BY <1>1, <1>2, <2>5 DEF ShutdownDone, OwnerMoves, Types, OwnerState, sealVars
  <2>6. ASSUME NEW c \in Conn, WaitFails(c) PROVE OwnerMoves
    BY <1>1, <2>6 DEF WaitFails, OwnerMoves, Types, sealVars
  <2> QED BY <2>1, <2>2, <2>3, <2>4, <2>5, <2>6
<1>4. Types' /\ Flags' /\ Counted' /\ LinkedRegistered'
  BY <1>3, OwnerMovesKeeps
<1>5. OwnerState'
  <2>1. CASE Find
    BY <1>1, <2>1 DEF Find, OwnerState, OwnerPlace, Idle, regVars, sealVars
  <2>2. CASE Serve
    <3>1. cur \in registered /\ then \in {"idle", "after"} /\ Idle(ReactorOwner)
      BY <1>1, <2>2 DEF Serve, OwnerState
    <3> QED BY <1>1, <2>2, <3>1 DEF Serve, Return, OwnerState, OwnerPlace, regVars, sealVars
  <2>3. CASE ServeCloses
    BY <1>1, <2>3 DEF ServeCloses, OwnerState, OwnerPlace, Idle, regVars, sealVars
  <2>4. CASE Shutdown
    BY <1>1, <2>4 DEF Shutdown, OwnerState, OwnerPlace, regVars, sealVars
  <2>5. CASE ShutdownDone
    <3>1. Idle(ReactorOwner)'
      BY <1>1, <2>5 DEF ShutdownDone, OwnerFree, Types, Idle, Actor
    <3> QED BY <1>1, <2>5, <3>1 DEF ShutdownDone, Return, OwnerState, OwnerPlace, regVars, sealVars
  <2>6. ASSUME NEW c \in Conn, WaitFails(c) PROVE OwnerState'
    <3>1. Idle(ReactorOwner)'
      BY <1>1, <2>6 DEF WaitFails, OwnerFree, Types, Idle, Actor
    <3> QED BY <1>1, <2>6, <3>1 DEF WaitFails, OwnerState, OwnerPlace, regVars, sealVars
  <2> QED BY <2>1, <2>2, <2>3, <2>4, <2>5, <2>6
<1>6. Turns'
  <2> SUFFICES ASSUME ~implSealed PROVE Turns'
    BY <1>3 DEF OwnerMoves, Turns
  <2>0. /\ \A c \in registered \cap (work \cup reactorClosed) : TurnComing(c)
        /\ reactorOpc = "after" /\ cur \in work \ reactorClosed => Asked(cur)
        /\ reactorOpc = "shutting" => Asked(cur)
        /\ \A c \in Conn : Asked(c) => Asked(c)'
        /\ registered' = registered
    BY <1>1, <1>3, AskedKept DEF Turns, OwnerMoves, regVars
  <2>1. CASE Find
    BY <1>1, <1>2, <2>0, <2>1 DEF Find, Turns, TurnComing, Asked, OwnerState
  <2>10. ASSUME NEW c \in registered, TurnComing(c), c # cur PROVE TurnComing(c)'
    BY <1>2, <2>0, <2>10 DEF TurnComing, Asked
  <2>2. CASE Serve
    <3>1. /\ cur \in registered /\ cur \in Conn /\ then \in {"idle", "after"}
          /\ (then = "idle" => cur \notin reactorClosed)
          /\ reactorOpc' = then /\ reactorClosed' = reactorClosed /\ (then = "after" => cur' = cur)
      BY <1>1, <1>2, <2>2 DEF Serve, Return, OwnerState
    <3>2. CASE work' = IF cur \in reactorClosed THEN work ELSE work \ {cur}
      <4>1. ASSUME NEW c \in registered \cap (work' \cup reactorClosed) PROVE TurnComing(c)'
        <5>1. CASE c = cur
          BY <3>1, <3>2, <5>1 DEF TurnComing
        <5>2. CASE c # cur
          <6>1. c \in work \cup reactorClosed
            BY <3>2, <5>2
          <6> QED BY <2>0, <2>10, <5>2, <6>1
        <5> QED BY <5>1, <5>2
      <4>2. cur \notin work' \ reactorClosed
        BY <3>2
      <4> QED BY <2>0, <3>1, <4>1, <4>2 DEF Turns
    <3>3. CASE /\ mark' = [mark EXCEPT ![ReactorOwner] = Marking("check", cur)]
               /\ work' = work \cup {cur}
      <4>1. ASSUME NEW c \in Conn, c = cur PROVE Asked(c)'
        BY <1>1, <1>2, <3>1, <3>3, <4>1, MarkSet, MarkTypes DEF Asked, Actor
      <4>2. ASSUME NEW c \in registered \cap (work' \cup reactorClosed) PROVE TurnComing(c)'
        <5>1. CASE c = cur
          BY <1>2, <4>1, <5>1 DEF TurnComing, Asked
        <5>2. CASE c # cur
          <6>1. c \in work \cup reactorClosed
            BY <3>3, <5>2
          <6> QED BY <2>0, <2>10, <5>2, <6>1
        <5> QED BY <5>1, <5>2
      <4> QED BY <2>0, <3>1, <4>1, <4>2 DEF Turns
    <3> QED BY <2>2, <3>2, <3>3 DEF Serve
  <2>3. CASE ServeCloses
    BY <1>1, <1>2, <2>0, <2>3 DEF ServeCloses, Turns, TurnComing, Asked, OwnerState
  <2>4. CASE Shutdown
    <3>1. /\ cur \in Conn /\ mark' = [mark EXCEPT ![ReactorOwner] = Marking("check", cur)]
          /\ reactorOpc' = "shutting" /\ UNCHANGED <<work, reactorClosed, cur>>
      BY <1>1, <1>2, <2>4 DEF Shutdown, OwnerState
    <3>2. ASSUME NEW c \in Conn, c = cur PROVE Asked(c)'
      BY <1>1, <1>2, <3>1, <3>2, MarkSet, MarkTypes DEF Asked, Actor
    <3>3. ASSUME NEW c \in registered \cap (work \cup reactorClosed) PROVE TurnComing(c)'
      <4>1. CASE c = cur
        BY <1>2, <3>1, <3>2, <4>1 DEF TurnComing, Asked
      <4>2. CASE c # cur
        BY <2>0, <2>10, <4>2
      <4> QED BY <4>1, <4>2
    <3> QED BY <2>0, <3>1, <3>2, <3>3 DEF Turns
  <2>5. CASE ShutdownDone
    <3>1. /\ reactorOpc = "shutting" /\ cur \in registered /\ reactorOpc' = then /\ then # "sealErase"
          /\ (then = "after" => cur' = cur) /\ then \in {"idle", "after"}
          /\ reactorClosed' = reactorClosed \cup {cur} /\ work' = work \ {cur}
      BY <1>1, <2>5 DEF ShutdownDone, Return, OwnerState
    <3>2. ASSUME NEW c \in Conn, c = cur PROVE Asked(c)'
      BY <2>0, <3>1, <3>2
    <3>3. ASSUME NEW c \in registered \cap (work' \cup reactorClosed') PROVE TurnComing(c)'
      <4>1. CASE c = cur
        BY <1>2, <3>2, <4>1 DEF TurnComing, Asked
      <4>2. CASE c # cur
        <5>1. c \in work \cup reactorClosed
          BY <3>1, <4>2
        <5> QED BY <2>0, <2>10, <4>2, <5>1
      <4> QED BY <4>1, <4>2
    <3>4. cur' = cur => cur' \notin work' \ reactorClosed'
      BY <3>1
    <3> QED BY <2>0, <3>1, <3>3, <3>4 DEF Turns
  <2>6. ASSUME NEW c \in Conn, WaitFails(c) PROVE Turns'
    BY <1>1, <1>2, <2>0, <2>6 DEF WaitFails, Turns, TurnComing, Asked, OwnerState
  <2> QED BY <2>1, <2>2, <2>3, <2>4, <2>5, <2>6
<1> QED BY <1>4, <1>5, <1>6 DEF ReactorInv

-----------------------------------------------------------------------------
(***************************************************************************)
(* Asking for a turn: Ask and the steps of MarkDirty.                      *)
(***************************************************************************)

\* One actor moves; the owner, the registry and what is closed stay.
LEMMA MarkMoves ==
  ASSUME ReactorInv, NEW a \in Actor, NEW m \in MarkType, mark' = [mark EXCEPT ![a] = m],
         a # ReactorOwner \/ mark[a].pc # "idle",
         UNCHANGED <<regVars, sealVars, reactorClosed, reactorOwnVars>>,
         implSealed \/ /\ \A d \in registered : Asked(d) => Asked(d)'
                       /\ \A d \in registered \cap (work' \ work) : Asked(d)'
  PROVE  Counted' /\ OwnerState' /\ Turns'
<1>1. Types /\ Counted /\ OwnerState /\ Turns
  BY DEF ReactorInv
<1>2. /\ UNCHANGED <<adopted, registered, connCount, implSealed, sealed>>
      /\ UNCHANGED <<reactorClosed, reactorOpc, cur, then>>
  BY DEF regVars, sealVars, reactorOwnVars
<1>3. Counted'
  BY <1>1, <1>2 DEF Counted
<1>4. OwnerState'
  <2>1. Idle(ReactorOwner) => Idle(ReactorOwner)'
    BY <1>1, MarkSet DEF Idle, Actor
  <2> QED BY <1>1, <1>2, <2>1 DEF OwnerState
<1>5. Turns'
  <2> SUFFICES ASSUME ~implSealed PROVE Turns'
    BY <1>2 DEF Turns
  <2>1. ASSUME NEW d \in registered \cap (work' \cup reactorClosed) PROVE TurnComing(d)'
    <3>1. CASE d \in work \cup reactorClosed
      <4>1. TurnComing(d)
        BY <1>1, <3>1 DEF Turns
      <4> QED BY <1>2, <4>1 DEF TurnComing, Asked
    <3>2. CASE d \notin work \cup reactorClosed
      BY <2>1, <3>2 DEF TurnComing, Asked
    <3> QED BY <3>1, <3>2
  <2>2. ASSUME reactorOpc = "after", cur \in work' \ reactorClosed PROVE Asked(cur)'
    <3>1. cur \in registered
      BY <1>1, <2>2 DEF OwnerState
    <3>2. CASE cur \in work
      <4>1. Asked(cur)
        BY <1>1, <2>2, <3>2 DEF Turns
      <4>2. ASSUME NEW d \in registered, d = cur PROVE Asked(d)'
        BY <4>1, <4>2
      <4> QED BY <1>2, <3>1, <4>2 DEF Asked
    <3>3. CASE cur \notin work
      <4>1. ASSUME NEW d \in registered, d = cur PROVE Asked(d)'
        BY <2>2, <3>3, <4>1
      <4> QED BY <1>2, <3>1, <4>1 DEF Asked
    <3> QED BY <3>2, <3>3
  <2>3. ASSUME reactorOpc = "shutting" PROVE Asked(cur)'
    <3>1. cur \in registered /\ Asked(cur)
      BY <1>1, <2>3 DEF OwnerState, Turns
    <3>2. ASSUME NEW d \in registered, d = cur PROVE Asked(d)'
      BY <3>1, <3>2
    <3> QED BY <1>2, <3>1, <3>2 DEF Asked
  <2> QED BY <1>2, <2>1, <2>2, <2>3 DEF Turns
<1> QED BY <1>3, <1>4, <1>5

\* A thread leaves something to do and wakes the owner.
LEMMA AskKeeps ==
  ASSUME ReactorConstants, ReactorInv, NEW t \in Thread, NEW c \in Conn, Ask(t, c)
  PROVE  ReactorInv'
<1>1. Types /\ Flags /\ LinkedRegistered
  BY DEF ReactorInv
<1>2. /\ t \in Actor /\ t # ReactorOwner /\ c \in adopted /\ mark[t].pc = "idle" /\ mark[t].conn = None
      /\ work' = work \cup {c} /\ mark' = [mark EXCEPT ![t] = Marking("check", c)]
      /\ UNCHANGED <<regVars, listVars, sealVars, reactorClosed, reactorOwnVars>>
  BY <1>1 DEF Ask, ReactorConstants, Actor, Types
<1>3. /\ Marking("check", c) \in MarkType /\ Marking("check", c).pc = "check"
      /\ Marking("check", c).conn = c
  BY MarkTypes
<1>4. /\ mark'[t] = Marking("check", c) /\ \A b \in Actor \ {t} : mark'[b] = mark[b]
  BY <1>1, <1>2, <1>3, MarkSet
<1>5. Types'
  <2>1. /\ UNCHANGED <<adopted, registered>> /\ queued' \subseteq adopted
        /\ reactorClosed' \subseteq adopted /\ work' \subseteq adopted
        /\ list' \in Seq(Conn) /\ ToSet(list') \subseteq adopted
    BY <1>1, <1>2 DEF Types, regVars, listVars
  <2> QED BY <1>2, <2>1, TypesKept
<1>6. Flags'
  <2>1. ASSUME NEW a \in Actor, NEW d \in Conn PROVE Links(a, d)' <=> Links(a, d)
    BY <1>2, <1>3, <1>4 DEF Links
  <2> QED BY <1>2, <2>1, FlagsKept DEF regVars
<1>7. LinkedRegistered'
  BY <1>1, <1>2 DEF LinkedRegistered, regVars, listVars, sealVars
<1>8. ASSUME NEW d \in registered, Asked(d) PROVE Asked(d)'
  <2>1. d # None
    BY <1>1 DEF Types, ReactorConstants
  <2> QED BY <1>2, <1>4, <1>8, <2>1 DEF Asked, listVars
<1>9. ASSUME NEW d \in registered \cap (work' \ work) PROVE Asked(d)'
  BY <1>2, <1>3, <1>4 DEF Asked
<1>10. Counted' /\ OwnerState' /\ Turns'
  BY <1>2, <1>3, <1>8, <1>9, MarkMoves
<1> QED BY <1>5, <1>6, <1>7, <1>10 DEF ReactorInv

\* The early checks.
LEMMA MarkCheckKeeps ==
  ASSUME ReactorConstants, ReactorInv, NEW a \in Actor, MarkCheck(a)
  PROVE  ReactorInv'
<1> DEFINE c == mark[a].conn
<1>1. Types /\ Flags /\ LinkedRegistered /\ OwnerState
  BY DEF ReactorInv
<1>2. /\ mark[a].pc = "check" /\ c \in adopted /\ c \in Conn
      /\ UNCHANGED <<regVars, listVars, sealVars, reactorClosed, work, reactorOwnVars>>
      /\ \/ mark' = [mark EXCEPT ![a] = NoMark] /\ implSealed
         \/ mark' = [mark EXCEPT ![a] = Marking("exchange", c)]
  BY <1>1 DEF MarkCheck, Types, OwnerState, markRest
<1> HIDE DEF c
<1>3. PICK m \in MarkType : /\ mark' = [mark EXCEPT ![a] = m] /\ m.pc # "link"
                            /\ implSealed \/ m.conn = c
  BY <1>2, MarkTypes
<1>4. /\ mark'[a] = m /\ \A b \in Actor \ {a} : mark'[b] = mark[b]
  BY <1>1, <1>3, MarkSet
<1>5. Types'
  <2>1. /\ UNCHANGED <<adopted, registered>> /\ queued' \subseteq adopted
        /\ reactorClosed' \subseteq adopted /\ work' \subseteq adopted
        /\ list' \in Seq(Conn) /\ ToSet(list') \subseteq adopted
    BY <1>1, <1>2 DEF Types, regVars, listVars
  <2> QED BY <1>2, <2>1, TypesKept
<1>6. Flags'
  <2>1. ASSUME NEW b \in Actor, NEW d \in Conn PROVE Links(b, d)' <=> Links(b, d)
    BY <1>2, <1>3, <1>4 DEF Links
  <2> QED BY <1>2, <2>1, FlagsKept DEF regVars
<1>7. LinkedRegistered'
  BY <1>1, <1>2 DEF LinkedRegistered, regVars, listVars, sealVars
<1>8. implSealed \/ \A d \in registered : Asked(d) => Asked(d)'
  BY <1>2, <1>3, <1>4 DEF Asked, listVars, c
<1>9. Counted' /\ OwnerState' /\ Turns'
  BY <1>2, <1>3, <1>8, MarkMoves
<1> QED BY <1>5, <1>6, <1>7, <1>9 DEF ReactorInv

\* The compare-exchange: somebody links already, or the connection is linked.
LEMMA MarkExchangeKeeps ==
  ASSUME ReactorConstants, ReactorInv, NEW a \in Actor, MarkExchange(a)
  PROVE  ReactorInv'
<1> DEFINE c == mark[a].conn
<1>1. Types /\ Flags /\ LinkedRegistered
  BY DEF ReactorInv
<1>2. /\ mark[a].pc = "exchange" /\ c \in adopted /\ c \in Conn
      /\ list' = list /\ queued' = queued \cup {c}
      /\ UNCHANGED <<regVars, sealVars, reactorClosed, work, reactorOwnVars>>
      /\ \/ c \in queued /\ mark' = [mark EXCEPT ![a] = NoMark]
         \/ c \notin queued /\ mark' = [mark EXCEPT ![a] = Marking("link", c)]
  BY <1>1 DEF MarkExchange, Types, markRest
<1> HIDE DEF c
<1>3. PICK m \in MarkType : /\ mark' = [mark EXCEPT ![a] = m]
                            /\ \/ c \in queued /\ m.pc = "idle"
                               \/ c \notin queued /\ m.pc = "link" /\ m.conn = c
  BY <1>2, MarkTypes
<1>4. /\ mark'[a] = m /\ \A b \in Actor \ {a} : mark'[b] = mark[b]
  BY <1>1, <1>3, MarkSet
<1>5. Types'
  <2>1. /\ UNCHANGED <<adopted, registered>> /\ queued' \subseteq adopted
        /\ reactorClosed' \subseteq adopted /\ work' \subseteq adopted
        /\ list' \in Seq(Conn) /\ ToSet(list') \subseteq adopted
    BY <1>1, <1>2 DEF Types, regVars
  <2> QED BY <1>2, <2>1, TypesKept
<1>6. Flags'
  <2>1. registered' = registered /\ registered \subseteq Conn
    BY <1>1, <1>2 DEF regVars, Types
  <2>2. ASSUME NEW d \in registered PROVE FlagOf(d)'
    <3>1. FlagOf(d)
      BY <1>1 DEF Flags
    <3>2. CASE d # c \/ c \in queued
      <4>1. \A b \in Actor : Links(b, d)' <=> Links(b, d)
        BY <1>2, <1>3, <1>4, <3>2 DEF Links
      <4>2. d \in queued' <=> d \in queued
        BY <1>2, <3>2
      <4> QED BY <1>2, <3>1, <4>1, <4>2 DEF FlagOf
    <3>3. CASE d = c /\ c \notin queued
      <4>1. \A b \in Actor : ~Links(b, d)
        BY <3>1, <3>3 DEF FlagOf
      <4>2. Links(a, d)'
        BY <1>3, <1>4, <3>3 DEF Links
      <4>3. ASSUME NEW b \in Actor \ {a} PROVE ~Links(b, d)'
        BY <1>4, <4>1 DEF Links
      <4>4. d \in queued' /\ d \notin ToSet(list')
        BY <1>2, <3>1, <3>3 DEF FlagOf
      <4> QED BY <4>2, <4>3, <4>4 DEF FlagOf
    <3> QED BY <3>2, <3>3
  <2> QED BY <1>1, <1>2, <2>1, <2>2 DEF Flags
<1>7. LinkedRegistered'
  BY <1>1, <1>2 DEF LinkedRegistered, regVars, sealVars
<1>8. ASSUME NEW d \in registered, Asked(d) PROVE Asked(d)'
  <2>1. FlagOf(d)
    BY <1>1 DEF Flags
  <2>2. CASE d = c
    <3>1. CASE c \in ToSet(list)
      BY <1>2, <2>2, <3>1 DEF Asked
    <3>2. ASSUME NEW b \in Actor, Links(b, c) PROVE Asked(d)'
      <4>1. b # a
        BY <1>2, <3>2 DEF Links
      <4> QED BY <1>4, <2>2, <3>2, <4>1 DEF Asked, Links
    <3>3. CASE c \notin queued
      BY <1>3, <1>4, <2>2, <3>3 DEF Asked
    <3> QED BY <2>1, <2>2, <3>1, <3>2, <3>3 DEF FlagOf
  <2>3. CASE d # c
    BY <1>2, <1>4, <1>8, <2>3 DEF Asked, c
  <2> QED BY <2>2, <2>3
<1>9. Counted' /\ OwnerState' /\ Turns'
  BY <1>2, <1>3, <1>8, MarkMoves
<1> QED BY <1>5, <1>6, <1>7, <1>9 DEF ReactorInv

\* Linking under the lock, refused when the reactor is sealed or the
\* connection is not registered any more.
LEMMA MarkLinkKeeps ==
  ASSUME ReactorConstants, ReactorInv, NEW a \in Actor, MarkLink(a)
  PROVE  ReactorInv'
<1> DEFINE c == mark[a].conn
<1>1. Types /\ Flags /\ LinkedRegistered /\ OwnerState
  BY DEF ReactorInv
<1>2. /\ mark[a].pc = "link" /\ c \in adopted /\ c \in Conn /\ Links(a, c)
      /\ UNCHANGED <<regVars, sealVars, reactorClosed, work, reactorOwnVars>>
      /\ mark' = [mark EXCEPT ![a] = NoMark]
      /\ \/ ~sealed /\ c \in registered /\ list' = Append(list, c) /\ queued' = queued
         \/ ~(~sealed /\ c \in registered) /\ list' = list /\ queued' = queued \ {c}
  BY <1>1 DEF MarkLink, Types, markRest, Links
<1> HIDE DEF c
<1>3. NoMark \in MarkType /\ NoMark.pc = "idle"
  BY MarkTypes
<1>4. /\ mark'[a] = NoMark /\ \A b \in Actor \ {a} : mark'[b] = mark[b]
  BY <1>1, <1>2, <1>3, MarkSet
<1>5. c \in registered => c \notin ToSet(list) /\ \A b \in Actor : Links(b, c) => b = a
  BY <1>1, <1>2 DEF Flags, FlagOf
<1>6. list \in Seq(Conn) /\ ToSet(list) \subseteq adopted /\ Distinct(list)
  BY <1>1 DEF Types, Flags
<1>7. /\ list' \in Seq(Conn) /\ Distinct(list') /\ ToSet(list) \subseteq ToSet(list')
      /\ ToSet(list') \subseteq ToSet(list) \cup {c}
      /\ ~sealed /\ c \in registered => c \in ToSet(list')
      /\ ~(~sealed /\ c \in registered) => list' = list
  <2>1. CASE ~sealed /\ c \in registered
    <3>1. list' = Append(list, c) /\ c \notin ToSet(list)
      BY <1>2, <1>5, <2>1
    <3>2. list' \in Seq(Conn) /\ ToSet(list') = ToSet(list) \cup {c} /\ Distinct(list')
      BY <1>2, <1>6, <3>1, Linked
    <3> QED BY <2>1, <3>2
  <2>2. CASE ~(~sealed /\ c \in registered)
    BY <1>2, <1>6, <2>2
  <2> QED BY <2>1, <2>2
<1>8. Types'
  <2>1. /\ UNCHANGED <<adopted, registered>> /\ queued' \subseteq adopted
        /\ reactorClosed' \subseteq adopted /\ work' \subseteq adopted
        /\ ToSet(list') \subseteq adopted
    BY <1>1, <1>2, <1>7 DEF Types, regVars
  <2> QED BY <1>2, <1>7, <2>1, TypesKept
<1>9. Flags'
  <2>1. registered' = registered
    BY <1>2 DEF regVars
  <2>2. ASSUME NEW d \in registered PROVE FlagOf(d)'
    <3>1. FlagOf(d)
      BY <1>1 DEF Flags
    <3>2. CASE d # c
      <4>1. \A b \in Actor : Links(b, d)' <=> Links(b, d)
        BY <1>2, <1>3, <1>4, <3>2 DEF Links
      <4>2. (d \in queued' <=> d \in queued) /\ (d \in ToSet(list') <=> d \in ToSet(list))
        BY <1>2, <1>7, <3>2
      <4> QED BY <3>1, <4>1, <4>2 DEF FlagOf
    <3>3. CASE d = c
      <4>1. \A b \in Actor : ~Links(b, d)'
        BY <1>3, <1>4, <1>5, <3>3 DEF Links
      <4>2. d \in ToSet(list') <=> d \in queued'
        <5>1. c \in queued
          BY <1>2, <3>1, <3>3 DEF FlagOf
        <5> QED BY <1>2, <1>5, <1>7, <3>3, <5>1
      <4> QED BY <4>1, <4>2 DEF FlagOf
    <3> QED BY <3>2, <3>3
  <2> QED BY <1>7, <2>1, <2>2 DEF Flags
<1>10. LinkedRegistered'
  BY <1>1, <1>2, <1>7 DEF LinkedRegistered, regVars, sealVars
<1>11. ASSUME ~implSealed, NEW d \in registered, Asked(d) PROVE Asked(d)'
  <2>1. ~sealed
    BY <1>1, <1>11 DEF OwnerState
  <2>2. CASE d = c
    BY <1>7, <2>1, <2>2 DEF Asked
  <2>3. CASE d # c
    BY <1>4, <1>7, <1>11, <2>3 DEF Asked, c
  <2> QED BY <2>2, <2>3
<1>12. Counted' /\ OwnerState' /\ Turns'
  BY <1>2, <1>3, <1>11, MarkMoves
<1> QED BY <1>8, <1>9, <1>10, <1>12 DEF ReactorInv

-----------------------------------------------------------------------------
(***************************************************************************)
(* The owner: adopting, popping, removing, sealing.                        *)
(***************************************************************************)

\* A new connection, with the service sealed or not.
LEMMA AdoptKeeps ==
  ASSUME ReactorConstants, ReactorInv, NEW c \in Conn, Adopt(c) \/ AdoptSealed(c)
  PROVE  ReactorInv'
<1>1. Types /\ Flags /\ Counted /\ LinkedRegistered /\ OwnerState /\ Turns
  BY DEF ReactorInv
<1>2. /\ reactorOpc = "idle" /\ mark[ReactorOwner].pc = "idle" /\ c \notin adopted
      /\ adopted' = adopted \cup {c} /\ registered' = registered \cup {c}
      /\ connCount' = connCount + 1 /\ cur' = c
      /\ UNCHANGED <<list, queued, implSealed, sealed, reactorClosed, work, mark>>
      /\ \/ ~implSealed /\ reactorOpc' = "core" /\ then' = "idle"
         \/ implSealed /\ reactorOpc' = "shut" /\ then' \in {"after", "idle"}
  BY DEF Adopt, AdoptSealed, OwnerFree, listVars, sealVars
<1>3. /\ registered \subseteq adopted /\ adopted \subseteq Conn /\ reactorClosed \subseteq adopted
      /\ work \subseteq adopted /\ queued \subseteq adopted /\ ToSet(list) \subseteq adopted
      /\ list \in Seq(Conn) /\ mark \in [Actor -> MarkType] /\ None \notin Conn
      /\ \A a \in Actor : IF mark[a].pc = "idle" THEN mark[a].conn = None
                                                 ELSE mark[a].conn \in adopted
  BY <1>1 DEF Types, ReactorConstants
<1>4. Types'
  BY <1>2, <1>3 DEF Types
<1>5. Flags'
  <2>1. ASSUME NEW d \in registered' PROVE FlagOf(d)'
    <3>1. CASE d \in registered
      <4>1. FlagOf(d)
        BY <1>1, <3>1 DEF Flags
      <4> QED BY <1>2, <4>1 DEF FlagOf, Links
    <3>2. CASE d = c
      <4>1. d \notin ToSet(list') /\ d \notin queued' /\ \A a \in Actor : mark'[a].conn # d
        BY <1>2, <1>3, <3>2
      <4> QED BY <4>1 DEF FlagOf, Links
    <3> QED BY <1>2, <3>1, <3>2
  <2> QED BY <1>1, <1>2, <2>1 DEF Flags
<1>6. Counted'
  <2>1. IsFiniteSet(adopted) /\ IsFiniteSet(registered)
    BY <1>3, FS_Subset DEF ReactorConstants
  <2>2. /\ Cardinality(adopted \cup {c}) = Cardinality(adopted) + 1
        /\ Cardinality(registered \cup {c}) = Cardinality(registered) + 1
        /\ Cardinality(adopted) \in Nat /\ Cardinality(registered) \in Nat
    BY <1>2, <1>3, <2>1, FS_AddElement, FS_CardinalityType
  <2> QED BY <1>1, <1>2, <2>2 DEF Counted
<1>7. LinkedRegistered'
  BY <1>1, <1>2 DEF LinkedRegistered
<1>8. OwnerState'
  <2>1. Idle(ReactorOwner)'
    BY <1>2, <1>3 DEF Idle, Actor
  <2>2. c \notin reactorClosed /\ c \in registered'
    BY <1>2, <1>3
  <2> QED BY <1>1, <1>2, <2>1, <2>2 DEF OwnerState, OwnerPlace
<1>9. Turns'
  <2> SUFFICES ASSUME ~implSealed PROVE Turns'
    BY <1>2 DEF Turns
  <2>1. ASSUME NEW d \in registered' \cap (work \cup reactorClosed) PROVE TurnComing(d)'
    <3>1. d \in registered
      BY <1>2, <1>3, <2>1
    <3>2. TurnComing(d) /\ reactorOpc = "idle"
      BY <1>1, <1>2, <2>1, <3>1 DEF Turns
    <3> QED BY <1>2, <3>2 DEF TurnComing
  <2> QED BY <1>2, <2>1 DEF Turns
<1> QED BY <1>4, <1>5, <1>6, <1>7, <1>8, <1>9 DEF ReactorInv

\* The head of the list gets its turn.
LEMMA PopKeeps ==
  ASSUME ReactorConstants, ReactorInv, Pop
  PROVE  ReactorInv'
<1> DEFINE h == Head(list)
<1>1. Types /\ Flags /\ Counted /\ LinkedRegistered /\ OwnerState /\ Turns
  BY DEF ReactorInv
<1>2. /\ reactorOpc = "idle" /\ mark[ReactorOwner].pc = "idle" /\ list # <<>>
      /\ list' = Tail(list) /\ queued' = queued \ {h}
      /\ cur' = h /\ reactorOpc' = "find" /\ then' = "after"
      /\ UNCHANGED <<adopted, registered, connCount, implSealed, sealed, reactorClosed, work,
                     mark>>
  BY DEF Pop, OwnerFree, regVars, sealVars
<1>3. list \in Seq(Conn) /\ ToSet(list) \subseteq adopted /\ Distinct(list)
  BY <1>1 DEF Types, Flags
<1>4. /\ list' \in Seq(Conn) /\ h \in ToSet(list) /\ ToSet(list') = ToSet(list) \ {h}
      /\ Distinct(list')
  BY <1>2, <1>3, Popped
<1> HIDE DEF h
<1>5. Types'
  <2>1. queued' \subseteq adopted /\ reactorClosed' \subseteq adopted /\ work' \subseteq adopted
        /\ ToSet(list') \subseteq adopted
    BY <1>1, <1>2, <1>3, <1>4 DEF Types
  <2> QED BY <1>2, <1>4, <2>1, TypesKept
<1>6. Flags'
  <2>1. ASSUME NEW d \in registered PROVE FlagOf(d)'
    <3>1. FlagOf(d)
      BY <1>1 DEF Flags
    <3>2. \A a \in Actor : Links(a, d)' <=> Links(a, d)
      BY <1>2 DEF Links
    <3>3. CASE d # h
      <4>1. (d \in queued' <=> d \in queued) /\ (d \in ToSet(list') <=> d \in ToSet(list))
        BY <1>2, <1>4, <3>3
      <4> QED BY <3>1, <3>2, <4>1 DEF FlagOf
    <3>4. CASE d = h
      <4>1. \A a \in Actor : ~Links(a, d)
        BY <1>4, <3>1, <3>4 DEF FlagOf
      <4>2. d \notin queued' /\ d \notin ToSet(list')
        BY <1>2, <1>4, <3>4
      <4> QED BY <3>2, <4>1, <4>2 DEF FlagOf
    <3> QED BY <3>3, <3>4
  <2> QED BY <1>2, <1>4, <2>1 DEF Flags
<1>7. Counted'
  BY <1>1, <1>2 DEF Counted
<1>8. LinkedRegistered'
  BY <1>1, <1>2, <1>4 DEF LinkedRegistered
<1>9. OwnerState'
  <2>1. Idle(ReactorOwner)' /\ h \in Conn
    BY <1>1, <1>2, <1>3, <1>4 DEF Types, Idle, Actor
  <2> QED BY <1>1, <1>2, <2>1 DEF OwnerState, OwnerPlace
<1>10. Turns'
  <2> SUFFICES ASSUME ~implSealed PROVE Turns'
    BY <1>2 DEF Turns
  <2>1. ASSUME NEW d \in registered \cap (work \cup reactorClosed) PROVE TurnComing(d)'
    <3>1. TurnComing(d)
      BY <1>1, <2>1 DEF Turns
    <3>2. CASE d = h
      BY <1>2, <3>2 DEF TurnComing
    <3>3. CASE d # h
      BY <1>2, <1>4, <3>1, <3>3 DEF TurnComing
    <3> QED BY <3>2, <3>3
  <2> QED BY <1>2, <2>1 DEF Turns
<1> QED BY <1>5, <1>6, <1>7, <1>8, <1>9, <1>10 DEF ReactorInv

\* After the pump a closed connection is unlinked and taken from the registry.
LEMMA AfterKeeps ==
  ASSUME ReactorConstants, ReactorInv, After
  PROVE  ReactorInv'
<1>1. Types /\ Flags /\ Counted /\ LinkedRegistered /\ OwnerState /\ Turns
  BY DEF ReactorInv
<1>2. /\ reactorOpc = "after" /\ reactorOpc' = "idle" /\ cur' = None /\ cur \in registered
      /\ UNCHANGED <<adopted, implSealed, sealed, reactorClosed, work, mark, then>>
  BY <1>1 DEF After, OwnerState, sealVars
<1>3. list \in Seq(Conn) /\ ToSet(list) \subseteq adopted /\ Distinct(list)
      /\ registered \subseteq adopted /\ adopted \subseteq Conn
  BY <1>1 DEF Types, Flags
<1>4. OwnerState'
  BY <1>1, <1>2 DEF OwnerState, OwnerPlace
<1>5. CASE cur \in reactorClosed
  <2>1. /\ list' = RemoveFirst(list, cur) /\ queued' = queued \ {cur}
        /\ registered' = registered \ {cur} /\ connCount' = connCount - 1
    BY <1>5 DEF After, RemoveConn
  <2>2. list' \in Seq(Conn) /\ Distinct(list') /\ ToSet(list') = ToSet(list) \ {cur}
    BY <1>2, <1>3, <2>1, Unlinked
  <2>3. Types'
    BY <1>1, <1>2, <2>1, <2>2 DEF Types
  <2>4. Flags'
    <3>1. ASSUME NEW d \in registered' PROVE FlagOf(d)'
      <4>1. FlagOf(d) /\ d # cur
        BY <1>1, <2>1 DEF Flags
      <4>2. (d \in queued' <=> d \in queued) /\ (d \in ToSet(list') <=> d \in ToSet(list))
        BY <2>1, <2>2, <4>1
      <4> QED BY <1>2, <4>1, <4>2 DEF FlagOf, Links
    <3> QED BY <2>2, <3>1 DEF Flags
  <2>5. Counted'
    <3>1. IsFiniteSet(registered)
      BY <1>3, FS_Subset DEF ReactorConstants
    <3>2. /\ Cardinality(registered \ {cur}) = Cardinality(registered) - 1
          /\ Cardinality(registered \ {cur}) \in Nat /\ Cardinality(registered) \in Nat
      BY <1>2, <3>1, FS_RemoveElement, FS_CardinalityType
    <3>3. Cardinality(adopted) \in Nat
      BY <1>3, FS_Subset, FS_CardinalityType DEF ReactorConstants
    <3> QED BY <1>1, <1>2, <2>1, <3>2, <3>3 DEF Counted
  <2>6. LinkedRegistered'
    BY <1>1, <1>2, <2>1, <2>2 DEF LinkedRegistered
  <2>7. Turns'
    <3> SUFFICES ASSUME ~implSealed PROVE Turns'
      BY <1>2 DEF Turns
    <3>1. ASSUME NEW d \in registered' \cap (work \cup reactorClosed) PROVE TurnComing(d)'
      <4>1. TurnComing(d) /\ d # cur
        BY <1>1, <2>1, <3>1 DEF Turns
      <4> QED BY <1>2, <2>2, <4>1 DEF TurnComing
    <3> QED BY <1>2, <3>1 DEF Turns
  <2> QED BY <1>4, <2>3, <2>4, <2>5, <2>6, <2>7 DEF ReactorInv
<1>6. CASE cur \notin reactorClosed
  <2>1. UNCHANGED <<list, queued, registered, connCount>>
    BY <1>6 DEF After, listVars
  <2>2. Types' /\ LinkedRegistered'
    BY <1>1, <1>2, <2>1 DEF Types, LinkedRegistered
  <2>3. Flags'
    BY <1>2, <2>1, FlagsKept DEF listVars, Links
  <2>4. Counted'
    BY <1>1, <1>2, <2>1 DEF Counted
  <2>5. Turns'
    <3> SUFFICES ASSUME ~implSealed PROVE Turns'
      BY <1>2 DEF Turns
    <3>1. ASSUME NEW d \in registered \cap (work \cup reactorClosed) PROVE TurnComing(d)'
      <4>1. CASE d = cur
        <5>1. Asked(cur)
          BY <1>1, <1>2, <1>6, <3>1, <4>1 DEF Turns
        <5> QED BY <1>2, <2>1, <4>1, <5>1 DEF TurnComing, Asked
      <4>2. CASE d # cur
        <5>1. TurnComing(d)
          BY <1>1, <3>1 DEF Turns
        <5> QED BY <1>2, <2>1, <4>2, <5>1 DEF TurnComing
      <4> QED BY <4>1, <4>2
    <3> QED BY <1>2, <2>1, <3>1 DEF Turns
  <2> QED BY <1>4, <2>2, <2>3, <2>4, <2>5 DEF ReactorInv
<1> QED BY <1>5, <1>6

\* The service is sealed: from now on nothing is promised to the connections.
LEMMA SealKeeps ==
  ASSUME ReactorConstants, ReactorInv, Seal
  PROVE  ReactorInv'
<1>1. Types /\ Flags /\ Counted /\ OwnerState
  BY DEF ReactorInv
<1>2. implSealed' = TRUE /\ UNCHANGED <<regVars, listVars, sealed, reactorClosed, work, mark, reactorOwnVars>>
  BY DEF Seal
<1>3. Types'
  BY <1>1, <1>2 DEF Types, regVars, listVars
<1>4. Flags'
  BY <1>2, FlagsKept DEF Links, regVars
<1>5. Counted' /\ LinkedRegistered' /\ Turns'
  BY <1>1, <1>2 DEF Counted, LinkedRegistered, Turns, regVars
<1>6. OwnerState'
  BY <1>1, <1>2 DEF OwnerState, Idle, regVars, reactorOwnVars
<1> QED BY <1>3, <1>4, <1>5, <1>6 DEF ReactorInv

\* SealServiceOnOwner and FinalizeControl empty the list.
LEMMA UnlinkKeeps ==
  ASSUME ReactorConstants, ReactorInv, SealUnlink \/ FinalizeUnlink
  PROVE  ReactorInv'
<1>1. Types /\ Flags /\ Counted /\ OwnerState
  BY DEF ReactorInv
<1>2. /\ list' = <<>> /\ queued' = queued \ ToSet(list) /\ implSealed /\ implSealed'
      /\ reactorOpc' \in {"sealFlag", "finalize"} /\ mark[ReactorOwner].pc = "idle"
      /\ UNCHANGED <<adopted, registered, connCount, implSealed, sealed, reactorClosed, work, mark,
                     cur, then>>
  BY DEF SealUnlink, FinalizeUnlink, UnlinkAll, OwnerFree, regVars, sealVars
<1>3. list' \in Seq(Conn) /\ ToSet(list') = {} /\ Distinct(list')
  BY <1>2 DEF ToSet, Distinct
<1>4. Types'
  BY <1>1, <1>2, <1>3 DEF Types
<1>5. Flags'
  <2>1. ASSUME NEW d \in registered PROVE FlagOf(d)'
    <3>1. FlagOf(d)
      BY <1>1 DEF Flags
    <3>2. \A a \in Actor : Links(a, d)' <=> Links(a, d)
      BY <1>2 DEF Links
    <3>3. CASE d \in ToSet(list)
      <4>1. d \notin queued' /\ \A a \in Actor : ~Links(a, d)
        BY <1>2, <3>1, <3>3 DEF FlagOf
      <4> QED BY <1>3, <3>2, <4>1 DEF FlagOf
    <3>4. CASE d \notin ToSet(list)
      <4>1. d \in queued' <=> d \in queued
        BY <1>2, <3>4
      <4> QED BY <1>3, <3>1, <3>2, <3>4, <4>1 DEF FlagOf
    <3> QED BY <3>3, <3>4
  <2> QED BY <1>2, <1>3, <2>1 DEF Flags
<1>6. Counted' /\ LinkedRegistered' /\ Turns'
  BY <1>1, <1>2 DEF Counted, LinkedRegistered, Turns
<1>7. OwnerState'
  <2>1. Idle(ReactorOwner)'
    BY <1>1, <1>2 DEF Types, Idle, Actor
  <2> QED BY <1>1, <1>2, <2>1 DEF OwnerState, OwnerPlace
<1> QED BY <1>4, <1>5, <1>6, <1>7 DEF ReactorInv

\* The rest of both: the connections are ended and erased.
LEMMA EndKeeps ==
  ASSUME ReactorConstants, ReactorInv, SealFlag \/ SealNext \/ SealErase \/ Finalize
  PROVE  ReactorInv'
<1>1. Types /\ Flags /\ Counted /\ OwnerState
  BY DEF ReactorInv
<1>2. /\ implSealed /\ implSealed' /\ Idle(ReactorOwner) /\ reactorOpc # "idle"
      /\ UNCHANGED <<adopted, list, queued, mark>> /\ implSealed' = implSealed
  BY <1>1 DEF SealFlag, SealNext, SealErase, Finalize, OwnerState, regVars, listVars, sealVars
<1>3. registered \subseteq adopted /\ registered' \subseteq registered
      /\ IsFiniteSet(adopted) /\ IsFiniteSet(registered)
  <2>1. registered' \subseteq registered
    BY DEF SealFlag, SealNext, SealErase, Finalize, regVars
  <2> QED BY <1>1, <2>1, FS_Subset DEF Types, ReactorConstants
<1>4. Types'
  <2>1. reactorClosed' \subseteq adopted /\ work' \subseteq adopted
    BY <1>1 DEF SealFlag, SealNext, SealErase, Finalize, Types
  <2> QED BY <1>1, <1>2, <1>3, <2>1 DEF Types
<1>5. Flags'
  BY <1>2, <1>3, FlagsKept DEF listVars, Links
<1>6. Counted'
  <2>1. /\ Cardinality(registered') \in Nat /\ Cardinality(registered) \in Nat
        /\ Cardinality(registered') <= Cardinality(registered) /\ Cardinality(adopted) \in Nat
    BY <1>3, FS_Subset, FS_CardinalityType
  <2>2. \/ connCount' = connCount
        \/ connCount' = 0 /\ registered' = {}
    BY DEF SealFlag, SealNext, SealErase, Finalize, regVars
  <2>3. registered' = {} => Cardinality(registered') = 0
    BY FS_EmptySet
  <2> QED BY <1>1, <1>2, <2>1, <2>2, <2>3 DEF Counted
<1>7. LinkedRegistered' /\ Turns'
  BY <1>2 DEF LinkedRegistered, Turns
<1>8. OwnerState'
  <2>0. Idle(ReactorOwner)' /\ registered \subseteq Conn
    BY <1>1, <1>2 DEF Idle, Types
  <2>1. CASE SealFlag
    BY <1>1, <1>2, <2>0, <2>1 DEF SealFlag, OwnerState, OwnerPlace, regVars
  <2>2. CASE SealNext
    BY <1>1, <1>2, <2>0, <2>2 DEF SealNext, OwnerState, OwnerPlace, sealVars
  <2>3. CASE SealErase
    BY <1>1, <1>2, <2>0, <2>3 DEF SealErase, OwnerState, OwnerPlace, sealVars
  <2>4. CASE Finalize
    BY <1>1, <1>2, <2>0, <2>4 DEF Finalize, OwnerState, OwnerPlace
  <2> QED BY <2>1, <2>2, <2>3, <2>4
<1> QED BY <1>4, <1>5, <1>6, <1>7, <1>8 DEF ReactorInv

-----------------------------------------------------------------------------
(***************************************************************************)
(* The reactor: the theorems.                                              *)
(***************************************************************************)

\* The inductive invariant of the reactor: a flag, a place in the list and an actor about to link
\* go together; what the owner is busy with is registered; every promised turn has a holder.
THEOREM ReactorAlways ==
  ASSUME ReactorConstants
  PROVE  ReactorSpec => []ReactorInv
<1>1. ASSUME ReactorInv, [ReactorNext]_reactorVars PROVE ReactorInv'
  <2>1. CASE UNCHANGED reactorVars
    <3>1. Types' /\ Counted' /\ LinkedRegistered'
      BY <1>1, <2>1 DEF reactorVars, regVars, listVars, sealVars, reactorOwnVars, ReactorInv,
         Types, Counted,
                        LinkedRegistered
    <3>2. Flags'
      BY <1>1, <2>1, FlagsKept DEF reactorVars, regVars, Links
    <3>3. OwnerState'
      BY <1>1, <2>1 DEF reactorVars, regVars, sealVars, reactorOwnVars, ReactorInv, OwnerState,
         Idle
    <3>4. Turns'
      BY <1>1, <2>1 DEF reactorVars, regVars, listVars, sealVars, reactorOwnVars, ReactorInv,
         Turns, TurnComing,
                        Asked
    <3> QED BY <3>1, <3>2, <3>3, <3>4 DEF ReactorInv
  <2>2. ASSUME NEW t \in Thread, NEW c \in Conn, Ask(t, c) PROVE ReactorInv'
    BY <1>1, <2>2, AskKeeps
  <2>3. ASSUME NEW a \in Actor, MarkStep(a) PROVE ReactorInv'
    BY <1>1, <2>3, MarkCheckKeeps, MarkExchangeKeeps, MarkLinkKeeps DEF MarkStep
  <2>4. ASSUME NEW c \in Conn, Adopt(c) \/ AdoptSealed(c) PROVE ReactorInv'
    BY <1>1, <2>4, AdoptKeeps
  <2>5. CASE \/ Find \/ Serve \/ ServeCloses \/ Shutdown \/ ShutdownDone
             \/ \E c \in Conn : WaitFails(c)
    BY <1>1, <2>5, ServingKeeps
  <2>6. CASE Pop \/ After \/ Seal
    BY <1>1, <2>6, PopKeeps, AfterKeeps, SealKeeps
  <2>7. CASE SealUnlink \/ FinalizeUnlink
    BY <1>1, <2>7, UnlinkKeeps
  <2>8. CASE SealFlag \/ SealNext \/ SealErase \/ Finalize
    BY <1>1, <2>8, EndKeeps
  <2> QED BY <1>1, <2>1, <2>2, <2>3, <2>4, <2>5, <2>6, <2>7, <2>8 DEF ReactorNext, ReactorStep
<1>2. ReactorInit => ReactorInv
  BY ReactorStart
<1> QED BY <1>1, <1>2, PTL DEF ReactorSpec

\* The flags, the dirty list, the registry and its count agree: no node is linked twice or barred
\* for ever, and until the service is sealed none that is linked has left the registry.
THEOREM ListsAgree ==
  ASSUME ReactorConstants
  PROVE  ReactorSpec => []ListsExact
<1>1. ReactorInv => ListsExact
  BY ReactorProperties
<1> QED BY <1>1, ReactorAlways, PTL

\* No lost wake: whatever a thread left for the owner, and every closed connection that is still
\* registered, has a turn on its way until the service is sealed.
THEOREM TurnsKept ==
  ASSUME ReactorConstants
  PROVE  ReactorSpec => []NoLostTurn
<1>1. ReactorInv => NoLostTurn
  BY ReactorProperties
<1> QED BY <1>1, ReactorAlways, PTL

-----------------------------------------------------------------------------
(***************************************************************************)
(* The listening Engine: the invariant.                                    *)
(***************************************************************************)

Handler == {"install", "arm", "resume", "stop", "seal"}
Place == {"away", "task", "hand", "commit", "handoff", "held", "closed"}

AcceptTypes ==
  /\ mode \in {"raw", "handoff", "client"}
  /\ reserved \in Nat
  /\ tasks \in Seq(Handler)
  /\ where \in [Peer -> Place]
  /\ stop \in [requested : BOOLEAN, posted : BOOLEAN, done : BOOLEAN]
  /\ pc \in [Receiver -> {"idle", "look", "park", "parked", "got", "error"}]

\* Drivers are bound from the installation to the end of the close-out.
Working == {"install", "publish", "running", "loop", "shut", "await", "abort", "unbind"}

Posted(t) == \E i \in 1..Len(tasks) : tasks[i] = t

\* Nothing happens before Run has built the owners.
Unbuilt ==
  /\ installed = "no" /\ listener = "none" /\ reserved = 0 /\ ~armed
  /\ ~mainShut /\ ~resumePending /\ \A p \in Peer : where[p] = "away"

RunKept ==
  /\ bound <=> run \in Working
  /\ phase = "Idle" <=> run = "idle"
  /\ phase = "Running" => run = "loop"
  /\ phase = "Stopped" => run = "ended"
  /\ run \in {"shut", "await", "unbind"} => acceptSealed
  /\ mode # "client" /\ run \in Working => mainSet
  /\ mode = "client" => listener = "none" /\ installed # "open"

BuildKept ==
  /\ run \in {"idle", "check"} => Unbuilt
  /\ run \in {"confirm", "clear", "ended"} => listener # "open"
  /\ ~bound => installed # "open" /\ tasks = <<>>

\* What a posted handler stands for.
TasksKept ==
  /\ \A i \in 1..Len(tasks) : tasks[i] = "install" => i = 1 /\ installed = "no"
  /\ Posted("seal") => acceptSealed
  /\ Posted("stop") => stop.requested
  /\ sealsLeft # {} => acceptSealed
  /\ mainShut => acceptSealed \/ ~bound
  /\ resumePending /\ bound => Posted("resume")

StopKept ==
  /\ installed # "ok" => ~armed
  /\ stop.done => stop.requested
  /\ stopper # "idle" => stop.requested
  /\ stopper \in {"find", "post", "done"} => handoffClosed
  /\ handoffClosed => At("handoff") = {}

\* The two halves of AcceptanceKept.
Coming == armed \/ InFlight # {} \/ Posted("arm") \/ Posted("resume")
Rearmed == mode = "handoff" /\ installed = "ok" /\ bound /\ ~failed /\ ~Stopping /\ Room => Coming
ReceiversTold ==
  \A r \in Receiver : pc[r] = "parked" /\ r \notin acceptWoken =>
    At("handoff") = {} /\ stopper \notin {"find", "post", "done"}

AcceptInv ==
  /\ AcceptTypes /\ RunKept /\ BuildKept /\ TasksKept /\ StopKept
  /\ HandoffExact /\ Rearmed /\ ReceiversTold /\ StopTrue

-----------------------------------------------------------------------------
(***************************************************************************)
(* The handlers that are posted.                                           *)
(***************************************************************************)

LEMMA PostedOne ==
  ASSUME tasks \in Seq(Handler), NEW x \in Handler, tasks' = Append(tasks, x)
  PROVE  /\ tasks' \in Seq(Handler)
         /\ \A t : Posted(t)' <=> Posted(t) \/ t = x
         /\ \A i \in 1..Len(tasks') : tasks'[i] = (IF i <= Len(tasks) THEN tasks[i] ELSE x)
         /\ Len(tasks') = Len(tasks) + 1
<1>1. /\ tasks' \in Seq(Handler) /\ Len(tasks') = Len(tasks) + 1 /\ Len(tasks) \in Nat
      /\ \A i \in 1..Len(tasks) : tasks'[i] = tasks[i]
      /\ tasks'[Len(tasks) + 1] = x
  BY AppendProperties
<1>2. ASSUME NEW t PROVE Posted(t)' <=> Posted(t) \/ t = x
  <2>1. Posted(t) => Posted(t)'
    BY <1>1 DEF Posted
  <2>2. t = x => Posted(t)'
    <3>1. Len(tasks) + 1 \in 1..Len(tasks')
      BY <1>1
    <3> QED BY <1>1, <3>1 DEF Posted
  <2>3. Posted(t)' => Posted(t) \/ t = x
    BY <1>1 DEF Posted
  <2> QED BY <2>1, <2>2, <2>3
<1>3. \A i \in 1..Len(tasks') : tasks'[i] = (IF i <= Len(tasks) THEN tasks[i] ELSE x)
  BY <1>1
<1> QED BY <1>1, <1>2, <1>3

LEMMA PostedTail ==
  ASSUME tasks \in Seq(Handler), tasks # <<>>, tasks' = Tail(tasks)
  PROVE  /\ tasks' \in Seq(Handler)
         /\ \A t : Posted(t)' => Posted(t)
         /\ \A t : Posted(t) => Posted(t)' \/ t = Head(tasks)
         /\ Posted(Head(tasks)) /\ Head(tasks) = tasks[1] /\ 1 \in 1..Len(tasks)
         /\ \A i \in 1..Len(tasks') : i + 1 \in 1..Len(tasks) /\ tasks'[i] = tasks[i + 1]
<1>1. /\ tasks' \in Seq(Handler) /\ Len(tasks') = Len(tasks) - 1 /\ Len(tasks) \in Nat \ {0}
      /\ \A i \in 1..Len(tasks') : tasks'[i] = tasks[i + 1]
      /\ Head(tasks) = tasks[1]
  BY HeadTailProperties, EmptySeq
<1>2. \A i \in 1..Len(tasks') : i + 1 \in 1..Len(tasks)
  BY <1>1
<1>3. ASSUME NEW t, Posted(t), t # Head(tasks) PROVE Posted(t)'
  <2>1. PICK i \in 1..Len(tasks) : tasks[i] = t
    BY <1>3 DEF Posted
  <2>2. i - 1 \in 1..Len(tasks') /\ tasks'[i - 1] = t
    BY <1>1, <1>3, <2>1
  <2> QED BY <2>2 DEF Posted
<1>4. ASSUME NEW t, Posted(t)' PROVE Posted(t)
  BY <1>1, <1>2, <1>4 DEF Posted
<1>5. 1 \in 1..Len(tasks)
  BY <1>1
<1> QED BY <1>1, <1>2, <1>3, <1>4, <1>5 DEF Posted

-----------------------------------------------------------------------------
(***************************************************************************)
(* The steps.                                                              *)
(***************************************************************************)

LEMMA Steps ==
  ASSUME AcceptNext
  PROVE  \/ Install \/ InstallEnds \/ ArmTask \/ AcceptFails \/ AcceptAgain \/ StopTask \/ SealMain
         \/ SealSub \/ DriverFails \/ RequestCloseEngine
         \/ LatchStop \/ ShutByStop \/ FindMain \/ PostByStopper
         \/ (\E p \in Peer : Accept(p) \/ AdoptAccepted(p) \/ Authorise(p) \/ Commit(p))
         \/ (\E r \in Receiver : Enter(r) \/ Look(r) \/ Park(r) \/ Unpark(r))
         \/ RunBegins \/ Prepare \/ AwaitInstall \/ ClientStops \/ Publish \/ LoopStop \/ LeaveLoop
         \/ SealAll \/ AwaitSeals \/ Unbind \/ FinalizeEngine \/ Confirm \/ Clear
BY DEF AcceptNext, MainOwner, SubOwner, CoAccept, StopThread, Run

\* How the list of handlers moves.
LEMMA TaskMoves ==
  ASSUME AcceptNext
  PROVE  \/ tasks' = tasks /\ resumePending' = resumePending
         \/ /\ tasks # <<>> /\ tasks' = Tail(tasks) /\ bound
            /\ \/ Head(tasks) \in {"arm", "stop", "seal"} /\ resumePending' = resumePending
               \/ Head(tasks) = "install" /\ Install /\ resumePending' = resumePending
               \/ Head(tasks) = "resume" /\ ~resumePending'
         \/ tasks' = Append(tasks, "arm") /\ resumePending' = resumePending /\ bound
         \/ tasks' = Append(tasks, "resume") /\ bound
         \/ tasks' = Append(Append(tasks, "arm"), "resume") /\ bound
         \/ tasks' = Append(tasks, "stop") /\ resumePending' = resumePending /\ bound
            /\ (stopper = "post" \/ stop.requested)
         \/ SealAll /\ tasks' = Append(tasks, "seal") /\ resumePending' = resumePending
         \/ Prepare /\ tasks' = Append(tasks, "install") /\ resumePending' = resumePending
         \/ Unbind /\ tasks' = <<>>
<1>1. CASE \/ InstallEnds \/ SealSub \/ DriverFails \/ RequestCloseEngine
           \/ LatchStop \/ ShutByStop \/ FindMain \/ RunBegins \/ AwaitInstall \/ ClientStops
           \/ Publish \/ LeaveLoop
           \/ AwaitSeals \/ FinalizeEngine \/ Confirm \/ Clear
           \/ (\E r \in Receiver : Enter(r) \/ Park(r) \/ Unpark(r))
  BY <1>1 DEF InstallEnds, SealSub, DriverFails, RequestCloseEngine, LatchStop, ShutByStop,
     FindMain, RunBegins,
     AwaitInstall, ClientStops, Publish, LeaveLoop, AwaitSeals, FinalizeEngine, Confirm, Clear,
     Enter, Park,
     Unpark, postVars
<1>2. CASE Install \/ ArmTask \/ StopTask \/ SealMain
  BY <1>2 DEF Install, ArmTask, StopTask, SealMain, Runs
<1>3. CASE AcceptFails \/ AcceptAgain \/ \E r \in Receiver : Look(r)
  BY <1>3 DEF AcceptFails, AcceptAgain, Look, ReleaseHandoffReservation, ResumeAcceptIfFree,
     Open, postVars
<1>4. CASE \E p \in Peer : Accept(p) \/ AdoptAccepted(p) \/ Authorise(p) \/ Commit(p)
  BY <1>4 DEF Accept, AdoptAccepted, Authorise, Commit, ReleaseHandoffReservation, ReleaseAndArm,
     Rearm, ResumeAcceptIfFree, Open, postVars
<1>5. CASE PostByStopper \/ LoopStop
  BY <1>5 DEF PostByStopper, LoopStop, PostStop
<1>6. CASE Prepare \/ SealAll \/ Unbind
  BY <1>6 DEF Prepare, SealAll, Unbind
<1> QED BY <1>1, <1>2, <1>3, <1>4, <1>5, <1>6, Steps

LEMMA TasksTyped ==
  ASSUME tasks \in Seq(Handler), AcceptNext
  PROVE  tasks' \in Seq(Handler)
<1>1. \A x \in Handler : Append(tasks, x) \in Seq(Handler)
  BY AppendProperties
<1>2. "arm" \in Handler /\ "resume" \in Handler /\ "stop" \in Handler /\ "seal" \in Handler
      /\ "install" \in Handler
  BY DEF Handler
<1>3. Append(Append(tasks, "arm"), "resume") \in Seq(Handler)
  BY <1>1, <1>2, AppendProperties
<1>4. tasks # <<>> => Tail(tasks) \in Seq(Handler)
  BY HeadTailProperties
<1> QED BY <1>1, <1>2, <1>3, <1>4, EmptySeq, TaskMoves
-----------------------------------------------------------------------------
(***************************************************************************)
(* How many connections are on their way and how many are queued.          *)
(***************************************************************************)

OnWay == {"task", "hand", "commit"}
In(W) == {p \in Peer : where[p] \in W}
One(b) == IF b THEN 1 ELSE 0

LEMMA InCounts ==
  ASSUME IsFiniteSet(Peer), NEW W
  PROVE  IsFiniteSet(In(W)) /\ Cardinality(In(W)) \in Nat
<1>1. In(W) \in SUBSET Peer
  BY DEF In
<1>2. IsFiniteSet(In(W))
  BY <1>1, FS_Subset
<1> QED BY <1>2, FS_CardinalityType

LEMMA PlacesCounted ==
  /\ InFlight = In(OnWay) /\ At("handoff") = In({"handoff"})
  /\ InFlight' = In(OnWay)' /\ At("handoff")' = In({"handoff"})'
BY DEF InFlight, At, In, OnWay

LEMMA InMoves ==
  ASSUME IsFiniteSet(Peer), where \in [Peer -> Place], NEW p \in Peer, NEW w \in Place, Move(p, w),
         NEW W
  PROVE  Cardinality(In(W)') = Cardinality(In(W)) - One(where[p] \in W) + One(w \in W)
<1> DEFINE Rest == In(W) \ {p}
<1>1. IsFiniteSet(In(W)) /\ Cardinality(In(W)) \in Nat
  BY InCounts
<1>2. /\ IsFiniteSet(Rest) /\ Cardinality(Rest) \in Nat
      /\ Cardinality(Rest) = IF p \in In(W) THEN Cardinality(In(W)) - 1 ELSE Cardinality(In(W))
  BY <1>1, FS_RemoveElement, FS_CardinalityType
<1>3. p \notin Rest /\ (p \in In(W) <=> where[p] \in W)
  BY DEF In
<1>4. where'[p] = w /\ \A q \in Peer : q # p => where'[q] = where[q]
  BY DEF Move
<1>5. In(W)' = IF w \in W THEN Rest \cup {p} ELSE Rest
  BY <1>4 DEF In
<1> HIDE DEF Rest
<1>6. Cardinality(Rest \cup {p}) = Cardinality(Rest) + 1
  BY <1>2, <1>3, FS_AddElement
<1> QED BY <1>1, <1>2, <1>3, <1>5, <1>6 DEF One

\* Both counts after one connection has moved.
LEMMA Moved ==
  ASSUME IsFiniteSet(Peer), where \in [Peer -> Place], NEW p \in Peer, NEW w \in Place, Move(p, w)
  PROVE  /\ Cardinality(InFlight) \in Nat /\ Cardinality(At("handoff")) \in Nat
         /\ Cardinality(InFlight') = Cardinality(InFlight) - One(where[p] \in OnWay) + One(w \in OnWay)
         /\ Cardinality(At("handoff")')
              = Cardinality(At("handoff")) - One(where[p] = "handoff") + One(w = "handoff")
         /\ Cardinality(InFlight') \in Nat /\ Cardinality(At("handoff")') \in Nat
<1>1. /\ Cardinality(In(OnWay)') = Cardinality(In(OnWay)) - One(where[p] \in OnWay) + One(w \in OnWay)
      /\ Cardinality(In({"handoff"})')
           = Cardinality(In({"handoff"})) - One(where[p] \in {"handoff"}) + One(w \in {"handoff"})
  BY InMoves
<1>2. /\ Cardinality(In(OnWay)) \in Nat /\ Cardinality(In({"handoff"})) \in Nat
      /\ (where[p] \in OnWay => Cardinality(In(OnWay)) # 0)
      /\ (where[p] \in {"handoff"} => Cardinality(In({"handoff"})) # 0)
  <2>1. \A W : IsFiniteSet(In(W)) /\ Cardinality(In(W)) \in Nat
    BY InCounts
  <2>2. \A W : where[p] \in W => In(W) # {}
    BY DEF In
  <2> QED BY <2>1, <2>2, FS_EmptySet
<1>3. (where[p] \in {"handoff"} <=> where[p] = "handoff") /\ (w \in {"handoff"} <=> w = "handoff")
  OBVIOUS
<1> QED BY <1>1, <1>2, <1>3, PlacesCounted DEF One

LEMMA Stayed ==
  ASSUME IsFiniteSet(Peer), where' = where
  PROVE  /\ InFlight' = InFlight /\ At("handoff")' = At("handoff")
         /\ Cardinality(InFlight) \in Nat /\ Cardinality(At("handoff")) \in Nat
<1>1. Cardinality(In(OnWay)) \in Nat /\ Cardinality(In({"handoff"})) \in Nat
  BY InCounts
<1> QED BY <1>1, PlacesCounted DEF In

-----------------------------------------------------------------------------
(***************************************************************************)
(* Types, and the beginning.                                               *)
(***************************************************************************)

LEMMA AcceptStart ==
  ASSUME EngineAcceptConstants, AcceptInit
  PROVE  AcceptInv
<1>1. tasks \in Seq(Handler) /\ Len(tasks) = 0
  BY EmptySeq DEF AcceptInit
<1>2. \A t : ~Posted(t)
  BY <1>1 DEF Posted
<1>3. AcceptTypes
  BY <1>1 DEF AcceptInit, AcceptTypes, Place
<1>4. RunKept /\ BuildKept
  BY DEF AcceptInit, RunKept, BuildKept, Unbuilt, Working
<1>5. TasksKept
  BY <1>1, <1>2 DEF AcceptInit, TasksKept
<1>6. At("handoff") = {}
  BY DEF AcceptInit, At
<1>7. StopKept /\ HandoffExact /\ Rearmed /\ ReceiversTold /\ StopTrue
  BY <1>6 DEF AcceptInit, StopKept, HandoffExact, Rearmed, ReceiversTold, StopTrue
<1> QED BY <1>3, <1>4, <1>5, <1>7 DEF AcceptInv

LEMMA AcceptTyped ==
  ASSUME EngineAcceptConstants, AcceptTypes, HandoffExact, AcceptNext
  PROVE  AcceptTypes'
<1>1. tasks' \in Seq(Handler)
  BY TasksTyped DEF AcceptTypes
<1>2. mode' \in {"raw", "handoff", "client"}
  <2> USE DEF Install, InstallEnds, ArmTask, AcceptFails, AcceptAgain, StopTask, SealMain, SealSub, DriverFails,
      RequestCloseEngine, LatchStop, ShutByStop, FindMain, PostByStopper, Accept, AdoptAccepted,
      Authorise, Commit,
      Enter, Look, Park, Unpark, RunBegins, Prepare, AwaitInstall, ClientStops, Publish, LoopStop,
      LeaveLoop,
      SealAll,
      AwaitSeals, Unbind, FinalizeEngine, Confirm, Clear
  <2> QED BY Steps DEF AcceptTypes
<1>3. where' \in [Peer -> Place]
  <2>1. CASE ShutByStop \/ RequestCloseEngine \/ SealAll \/ SealSub \/ FinalizeEngine
    BY <2>1 DEF AcceptTypes, ShutByStop, RequestCloseEngine, SealAll, SealSub, FinalizeEngine,
       ShutHandoff, Place
  <2>2. CASE \E p \in Peer : Accept(p) \/ AdoptAccepted(p) \/ Authorise(p) \/ Commit(p)
    BY <2>2 DEF AcceptTypes, Accept, AdoptAccepted, Authorise, Commit, Move, Place
  <2>3. CASE \E r \in Receiver : Look(r)
    BY <2>3 DEF AcceptTypes, Look, Move, Place, At
  <2>4. CASE ~\/ ShutByStop \/ RequestCloseEngine \/ SealAll \/ SealSub \/ FinalizeEngine
              \/ \E p \in Peer : Accept(p) \/ AdoptAccepted(p) \/ Authorise(p) \/ Commit(p)
              \/ \E r \in Receiver : Look(r)
    BY <2>4, Steps DEF AcceptTypes, Install, InstallEnds, ArmTask, AcceptFails, AcceptAgain,
       StopTask, SealMain,
       DriverFails, LatchStop, FindMain, PostByStopper, Enter, Park, Unpark, RunBegins, Prepare,
       AwaitInstall,
       ClientStops, Publish, LoopStop, LeaveLoop, AwaitSeals, Unbind, Confirm, Clear
  <2> QED BY <2>1, <2>2, <2>3, <2>4
<1>4. stop' \in [requested : BOOLEAN, posted : BOOLEAN, done : BOOLEAN]
  <2> USE DEF Install, InstallEnds, ArmTask, AcceptFails, AcceptAgain, StopTask, SealMain, SealSub, DriverFails,
      RequestCloseEngine, LatchStop, ShutByStop, FindMain, PostByStopper, PostStop, Accept,
      AdoptAccepted, Authorise, Commit,
      Enter, Look, Park, Unpark, RunBegins, Prepare, AwaitInstall, ClientStops, Publish, LoopStop,
      LeaveLoop,
      SealAll,
      AwaitSeals, Unbind, FinalizeEngine, Confirm, Clear
  <2> QED BY Steps DEF AcceptTypes
<1>5. pc' \in [Receiver -> {"idle", "look", "park", "parked", "got", "error"}]
  <2> USE DEF Install, InstallEnds, ArmTask, AcceptFails, AcceptAgain, StopTask, SealMain, SealSub, DriverFails,
      RequestCloseEngine, LatchStop, ShutByStop, FindMain, PostByStopper, PostStop, Accept,
      AdoptAccepted, Authorise, Commit,
      Enter, Look, Park, Unpark, RunBegins, Prepare, AwaitInstall, ClientStops, Publish, LoopStop,
      LeaveLoop,
      SealAll,
      AwaitSeals, Unbind, FinalizeEngine, Confirm, Clear
  <2> QED BY Steps DEF AcceptTypes
<1>6. reserved' \in Nat
  <2>1. CASE AcceptAgain
    <3>1. mode = "handoff" /\ ~handoffClosed => reserved # 0
      BY <2>1, InCounts, PlacesCounted DEF HandoffExact, AcceptAgain, MainFree,
         EngineAcceptConstants
    <3> QED BY <2>1, <3>1 DEF AcceptAgain, AcceptTypes
  <2>2. CASE InstallEnds \/ ArmTask \/ AcceptFails
    BY <2>2 DEF AcceptTypes, InstallEnds, ArmTask, AcceptFails, ArmAcceptAll,
       ReleaseHandoffReservation
  <2>3. CASE \E p \in Peer : Accept(p) \/ AdoptAccepted(p) \/ Authorise(p) \/ Commit(p)
    BY <2>3 DEF AcceptTypes, Accept, AdoptAccepted, Authorise, Commit, ReleaseHandoffReservation,
       ReleaseAndArm
  <2>4. CASE ShutByStop \/ RequestCloseEngine \/ SealAll
    BY <2>4 DEF AcceptTypes, ShutByStop, RequestCloseEngine, SealAll, ShutHandoff, roomVars
  <2>5. CASE ~\/ InstallEnds \/ ArmTask \/ AcceptFails \/ AcceptAgain
              \/ \E p \in Peer : Accept(p) \/ AdoptAccepted(p) \/ Authorise(p) \/ Commit(p)
              \/ ShutByStop \/ RequestCloseEngine \/ SealAll
    <3>1. UNCHANGED roomVars
      BY <2>5, Steps DEF Install, StopTask, SealMain, SealSub, DriverFails, LatchStop, FindMain,
         PostByStopper,
         Enter, Look, Park, Unpark, RunBegins, Prepare, AwaitInstall, ClientStops, Publish,
         LoopStop, LeaveLoop,
         AwaitSeals, Unbind, FinalizeEngine, Confirm, Clear
    <3> QED BY <3>1 DEF AcceptTypes, roomVars
  <2> QED BY <2>1, <2>2, <2>3, <2>4, <2>5
<1> QED BY <1>1, <1>2, <1>3, <1>4, <1>5, <1>6 DEF AcceptTypes
-----------------------------------------------------------------------------
(***************************************************************************)
(* Run, and what is built when.                                            *)
(***************************************************************************)

LEMMA Latches ==
  ASSUME AcceptNext, stop \in [requested : BOOLEAN, posted : BOOLEAN, done : BOOLEAN]
  PROVE  /\ mode' = mode /\ (acceptSealed => acceptSealed') /\ (handoffClosed => handoffClosed')
         /\ (failed => failed') /\ (stop.requested => stop'.requested)
<1> USE DEF Install, InstallEnds, ArmTask, AcceptFails, AcceptAgain, StopTask, SealMain, SealSub, DriverFails,
    RequestCloseEngine, LatchStop, ShutByStop, FindMain, PostByStopper, PostStop, Accept,
    AdoptAccepted, Authorise, Commit,
    Enter, Look, Park, Unpark, RunBegins, Prepare, AwaitInstall, ClientStops, Publish, LoopStop,
    LeaveLoop,
    SealAll,
    AwaitSeals, Unbind, FinalizeEngine, Confirm, Clear, runVars, roomVars, ShutHandoff
<1>1. mode' = mode
  BY Steps
<1>2. acceptSealed => acceptSealed'
  BY Steps
<1>3. handoffClosed => handoffClosed'
  BY Steps
<1>4. failed => failed'
  BY Steps
<1>5. stop.requested => stop'.requested
  BY Steps
<1> QED BY <1>1, <1>2, <1>3, <1>4, <1>5

LEMMA RunMoves ==
  ASSUME AcceptNext
  PROVE  \/ UNCHANGED <<phase, run, mainSet, bound>>
         \/ RunBegins \/ Prepare \/ AwaitInstall \/ ClientStops \/ Publish \/ LeaveLoop
         \/ SealAll \/ AwaitSeals
         \/ Unbind \/ FinalizeEngine \/ Confirm \/ Clear
BY Steps DEF Install, InstallEnds, ArmTask, AcceptFails, AcceptAgain, StopTask, SealMain,
   SealSub, DriverFails,
   RequestCloseEngine, LatchStop, ShutByStop, FindMain, PostByStopper, Accept, AdoptAccepted,
   Authorise, Commit,
   Enter, Look, Park, Unpark, LoopStop, runVars

LEMMA ListenerMoves ==
  ASSUME AcceptNext
  PROVE  \/ UNCHANGED <<listener, installed>>
         \/ Install \/ InstallEnds
         \/ (StopTask \/ SealMain \/ FinalizeEngine) /\ installed' = installed
            /\ listener' = (IF listener = "open" THEN "closed" ELSE listener)
BY Steps DEF ArmTask, AcceptFails, AcceptAgain, StopTask, SealMain, SealSub, DriverFails,
   RequestCloseEngine,
   LatchStop, ShutByStop, FindMain, PostByStopper, Accept, AdoptAccepted, Authorise, Commit,
   Enter, Look, Park, Unpark,
   RunBegins, Prepare, AwaitInstall, ClientStops, Publish, LoopStop, LeaveLoop, SealAll,
   AwaitSeals, Unbind,
   FinalizeEngine,
   Confirm, Clear, ownerVars

LEMMA RunStays ==
  ASSUME AcceptTypes, RunKept, BuildKept, AcceptNext
  PROVE  RunKept'
<1>1. mode' = mode /\ (acceptSealed => acceptSealed')
  BY Latches DEF AcceptTypes
<1>2. mode = "client" => listener' = "none" /\ installed' # "open"
  BY ListenerMoves DEF RunKept, Install, InstallEnds
<1>3. CASE UNCHANGED <<phase, run, mainSet, bound>>
  BY <1>1, <1>2, <1>3 DEF RunKept
<1>4. CASE Prepare
  <2>1. run = "check" /\ ~bound
    BY <1>4 DEF Prepare, RunKept, Working
  <2>2. CASE run' = "ended"
    BY <1>1, <1>2, <1>4, <2>1, <2>2 DEF RunKept, Prepare, Working
  <2>3. CASE run' # "ended"
    BY <1>1, <1>2, <1>4, <2>1, <2>3 DEF RunKept, Prepare, Working
  <2> QED BY <2>2, <2>3
<1>9. CASE RunBegins \/ AwaitInstall \/ ClientStops \/ Publish
  BY <1>1, <1>2, <1>9 DEF RunKept, RunBegins, AwaitInstall, ClientStops, Publish, Working
<1>5. CASE LeaveLoop
  BY <1>1, <1>2, <1>5 DEF RunKept, LeaveLoop, Working
<1>7. CASE SealAll
  BY <1>1, <1>2, <1>7 DEF RunKept, SealAll, Working
<1>8. CASE AwaitSeals \/ Unbind
  BY <1>1, <1>2, <1>8 DEF RunKept, AwaitSeals, Unbind, Working
<1>6. CASE FinalizeEngine \/ Confirm \/ Clear
  BY <1>1, <1>2, <1>6 DEF RunKept, FinalizeEngine, Confirm, Clear, Working
<1> QED BY <1>3, <1>4, <1>5, <1>6, <1>7, <1>8, <1>9, RunMoves

\* What is built moves only while the drivers are bound, or is already closed.
LEMMA UnbuiltStays ==
  ASSUME AcceptTypes, Unbuilt, ~bound, run # "finalize", AcceptNext
  PROVE  Unbuilt'
<1>1. where \in [Peer -> Place] /\ \A p \in Peer : where[p] = "away"
  BY DEF Unbuilt, AcceptTypes
<1>2. CASE ShutByStop \/ RequestCloseEngine \/ SealAll
  BY <1>1, <1>2 DEF ShutByStop, RequestCloseEngine, SealAll, ShutHandoff, Unbuilt, ownerVars,
     postVars, roomVars
<1>3. CASE \E r \in Receiver : Look(r)
  BY <1>1, <1>3 DEF Look, Unbuilt, ownerVars, postVars, roomVars, At
<1>4. CASE \E p \in Peer : Accept(p) \/ AdoptAccepted(p) \/ Authorise(p) \/ Commit(p)
  BY <1>1, <1>4 DEF Accept, MainFree, AdoptAccepted, Authorise, Commit
<1>5. CASE \/ Install \/ InstallEnds \/ ArmTask \/ AcceptFails \/ AcceptAgain \/ StopTask \/ SealMain
           \/ SealSub \/ FinalizeEngine
  BY <1>5 DEF Install, InstallEnds, ArmTask, AcceptFails, AcceptAgain, MainFree, StopTask,
     SealMain, Runs, SealSub,
     SubFree, FinalizeEngine
<1>6. CASE ~\/ ShutByStop \/ RequestCloseEngine \/ SealAll \/ \E r \in Receiver : Look(r)
            \/ \E p \in Peer : Accept(p) \/ AdoptAccepted(p) \/ Authorise(p) \/ Commit(p)
            \/ Install \/ InstallEnds \/ ArmTask \/ AcceptFails \/ AcceptAgain \/ StopTask \/ SealMain
            \/ SealSub \/ FinalizeEngine
  <2>1. UNCHANGED <<listener, armed, installed, mainShut, reserved, resumePending, where>>
    BY <1>6, Steps DEF DriverFails, LatchStop, FindMain, PostByStopper, Enter, Park, Unpark,
       RunBegins, Prepare,
       AwaitInstall, ClientStops, Publish, LoopStop, LeaveLoop, AwaitSeals, Unbind, Confirm,
       Clear, ownerVars,
       roomVars, postVars
  <2> QED BY <2>1 DEF Unbuilt
<1> QED BY <1>2, <1>3, <1>4, <1>5, <1>6

LEMMA BuildStays ==
  ASSUME AcceptTypes, RunKept, BuildKept, AcceptNext
  PROVE  BuildKept'
<1>1. ASSUME run' \in {"idle", "check"} PROVE Unbuilt'
  <2>1. run \in {"idle", "check"}
    BY <1>1, RunMoves DEF RunBegins, Prepare, AwaitInstall, ClientStops, Publish, LeaveLoop,
       SealAll,
       AwaitSeals, Unbind,
       FinalizeEngine, Confirm, Clear
  <2> QED BY <2>1, UnbuiltStays DEF RunKept, BuildKept, Working
<1>2. ASSUME run' \in {"confirm", "clear", "ended"} PROVE listener' # "open"
  <2>1. run \in {"confirm", "clear", "ended"} \/ FinalizeEngine \/ Prepare
    BY <1>2, RunMoves DEF RunBegins, AwaitInstall, ClientStops, Publish, LeaveLoop, SealAll,
       AwaitSeals, Unbind,
       Confirm, Clear
  <2>2. CASE FinalizeEngine
    BY <2>2 DEF FinalizeEngine
  <2>3. CASE Prepare
    BY <2>3 DEF Prepare, ownerVars, BuildKept, Unbuilt
  <2>4. CASE run \in {"confirm", "clear", "ended"}
    <3>1. listener # "open" /\ ~bound
      BY <2>4 DEF BuildKept, RunKept, Working
    <3> QED BY <3>1, ListenerMoves DEF Install, InstallEnds, Runs
  <2> QED BY <2>1, <2>2, <2>3, <2>4
<1>3. ASSUME ~bound' PROVE installed' # "open" /\ tasks' = <<>>
  <2>1. CASE Unbind
    BY <2>1 DEF Unbind, ownerVars
  <2>2. CASE ~Unbind
    <3>1. (~bound /\ ~Prepare /\ ~SealAll) \/ (run' = "ended" /\ Prepare)
      <4>1. CASE Prepare
        BY <1>3, <4>1 DEF Prepare
      <4>2. CASE ~Prepare
        <5>1. bound' = bound
          BY <2>2, <4>2, RunMoves DEF RunBegins, AwaitInstall, ClientStops, Publish, LeaveLoop,
             SealAll,
             AwaitSeals,
             FinalizeEngine, Confirm, Clear
        <5>2. SealAll => bound
          BY DEF SealAll, RunKept, Working
        <5> QED BY <1>3, <4>2, <5>1, <5>2
      <4> QED BY <4>1, <4>2
    <3>2. CASE ~bound /\ ~Prepare /\ ~SealAll
      <4>1. installed # "open" /\ tasks = <<>>
        BY <3>2 DEF BuildKept
      <4>2. installed' # "open"
        BY <3>2, <4>1, ListenerMoves DEF Install, InstallEnds, Runs
      <4>3. tasks' = <<>>
        BY <3>2, <2>2, <4>1, TaskMoves
      <4> QED BY <4>2, <4>3
    <3>3. CASE run' = "ended" /\ Prepare
      BY <3>3 DEF Prepare, BuildKept, RunKept, Unbuilt, ownerVars, Working
    <3> QED BY <3>1, <3>2, <3>3
  <2> QED BY <2>1, <2>2
<1> QED BY <1>1, <1>2, <1>3 DEF BuildKept
-----------------------------------------------------------------------------
(***************************************************************************)
(* What the posted handlers stand for.                                     *)
(***************************************************************************)

LEMMA PostedTwo ==
  ASSUME tasks \in Seq(Handler), NEW x \in Handler, NEW y \in Handler, tasks' = Append(Append(tasks, x), y)
  PROVE  /\ \A t : Posted(t)' <=> Posted(t) \/ t = x \/ t = y
         /\ \A i \in 1..Len(tasks') :
              \/ i \in 1..Len(tasks) /\ tasks'[i] = tasks[i]
              \/ tasks'[i] \in {x, y}
<1> DEFINE one == Append(tasks, x)
           n == Len(tasks)
<1>1. /\ one \in Seq(Handler) /\ Len(one) = n + 1 /\ n \in Nat
      /\ (\A i \in 1..n : one[i] = tasks[i]) /\ one[n + 1] = x
  BY AppendProperties
<1> HIDE DEF one
<1>2. tasks' = Append(one, y)
  BY DEF one
<1>3. /\ Len(tasks') = n + 2 /\ (\A i \in 1..n : tasks'[i] = tasks[i])
      /\ tasks'[n + 1] = x /\ tasks'[n + 2] = y
  <2>1. /\ Len(tasks') = Len(one) + 1 /\ (\A i \in 1..Len(one) : tasks'[i] = one[i])
        /\ tasks'[Len(one) + 1] = y
    BY <1>1, <1>2, AppendProperties
  <2> QED BY <1>1, <2>1
<1> HIDE DEF n
<1>4. Posted(x)' /\ Posted(y)'
  <2>1. n + 1 \in 1..Len(tasks') /\ n + 2 \in 1..Len(tasks')
    BY <1>1, <1>3
  <2> QED BY <1>3, <2>1 DEF Posted
<1>5. \A i \in 1..Len(tasks') : (i \in 1..n /\ tasks'[i] = tasks[i]) \/ tasks'[i] \in {x, y}
  BY <1>1, <1>3
<1>6. \A t : Posted(t) => Posted(t)'
  <2>1. \A i \in 1..n : i \in 1..Len(tasks')
    BY <1>1, <1>3
  <2> QED BY <1>3, <2>1 DEF Posted, n
<1>7. \A t : Posted(t)' => Posted(t) \/ t = x \/ t = y
  BY <1>5 DEF Posted, n
<1> QED BY <1>4, <1>5, <1>6, <1>7 DEF n

\* What may be posted anew, and which handlers are kept.
LEMMA PostedMoves ==
  ASSUME AcceptTypes, AcceptNext
  PROVE  /\ \A t : Posted(t)' => \/ Posted(t) \/ t = "arm" \/ t = "resume"
                                 \/ t = "stop" /\ (stopper = "post" \/ stop.requested)
                                 \/ t = "seal" /\ SealAll
                                 \/ t = "install" /\ Prepare
         /\ \/ Unbind
            \/ \A t : Posted(t) => Posted(t)'
            \/ /\ tasks # <<>> /\ tasks' = Tail(tasks) /\ bound
               /\ \A t : Posted(t) => Posted(t)' \/ t = Head(tasks)
<1> USE DEF AcceptTypes
<1>0. "arm" \in Handler /\ "resume" \in Handler /\ "stop" \in Handler /\ "seal" \in Handler
      /\ "install" \in Handler
  BY DEF Handler
<1>1. CASE tasks' = tasks
  BY <1>1 DEF Posted
<1>2. CASE tasks # <<>> /\ tasks' = Tail(tasks) /\ bound
  BY <1>2, PostedTail
<1>3. CASE tasks' = Append(tasks, "arm")
  BY <1>0, <1>3, PostedOne
<1>4. CASE tasks' = Append(tasks, "resume")
  BY <1>0, <1>4, PostedOne
<1>5. CASE tasks' = Append(Append(tasks, "arm"), "resume")
  BY <1>0, <1>5, PostedTwo
<1>6. CASE tasks' = Append(tasks, "stop") /\ (stopper = "post" \/ stop.requested)
  BY <1>0, <1>6, PostedOne
<1>7. CASE SealAll /\ tasks' = Append(tasks, "seal")
  BY <1>0, <1>7, PostedOne
<1>8. CASE Prepare /\ tasks' = Append(tasks, "install")
  BY <1>0, <1>8, PostedOne
<1>9. CASE Unbind /\ tasks' = <<>>
  <2>1. \A t : ~Posted(t)'
    BY <1>9, EmptySeq DEF Posted
  <2> QED BY <1>9, <2>1
<1> QED BY <1>1, <1>2, <1>3, <1>4, <1>5, <1>6, <1>7, <1>8, <1>9, TaskMoves

\* An installation that is posted is the next handler, and has not begun.
LEMMA InstallStays ==
  ASSUME AcceptTypes, RunKept, BuildKept, TasksKept, AcceptNext
  PROVE  \A i \in 1..Len(tasks') : tasks'[i] = "install" => i = 1 /\ installed' = "no"
<1> USE DEF AcceptTypes
<1>0. "arm" \in Handler /\ "resume" \in Handler /\ "stop" \in Handler /\ "seal" \in Handler
      /\ "install" \in Handler /\ Len(tasks) \in Nat
  BY DEF Handler
<1>1. \A i \in 1..Len(tasks) : tasks[i] = "install" => i = 1 /\ installed = "no"
  BY DEF TasksKept
<1>2. CASE tasks # <<>> /\ tasks' = Tail(tasks)
  <2>1. \A i \in 1..Len(tasks') : i + 1 \in 1..Len(tasks) /\ tasks'[i] = tasks[i + 1]
    BY <1>2, PostedTail
  <2>2. \A i \in 1..Len(tasks') : i + 1 # 1
    OBVIOUS
  <2> QED BY <1>1, <2>1, <2>2
<1>3. CASE ~Install /\ ~Prepare
  <2>1. installed = "no" => installed' = "no"
    BY <1>3, ListenerMoves DEF InstallEnds
  <2>2. CASE \E x \in {"arm", "resume", "stop", "seal"} : tasks' = Append(tasks, x)
    <3>1. PICK x \in {"arm", "resume", "stop", "seal"} : tasks' = Append(tasks, x)
      BY <2>2
    <3>2. x \in Handler /\ x # "install"
      BY <1>0
    <3>3. /\ \A i \in 1..Len(tasks') : tasks'[i] = (IF i <= Len(tasks) THEN tasks[i] ELSE x)
          /\ Len(tasks') = Len(tasks) + 1
      BY <3>1, <3>2, PostedOne
    <3> QED BY <1>0, <1>1, <2>1, <3>2, <3>3
  <2>3. CASE tasks' = Append(Append(tasks, "arm"), "resume")
    <3>1. \A i \in 1..Len(tasks') : (i \in 1..Len(tasks) /\ tasks'[i] = tasks[i])
            \/ tasks'[i] \in {"arm", "resume"}
      BY <1>0, <2>3, PostedTwo
    <3> QED BY <1>1, <2>1, <3>1
  <2>4. CASE tasks' = tasks
    BY <1>1, <2>1, <2>4
  <2>5. CASE tasks' = <<>>
    BY <2>5, EmptySeq
  <2> QED BY <1>2, <1>3, <2>2, <2>3, <2>4, <2>5, TaskMoves
<1>4. CASE Install
  BY <1>2, <1>4 DEF Install, Runs
<1>5. CASE Prepare
  <2>1. tasks = <<>> /\ installed = "no" /\ installed' = installed
    BY <1>5 DEF Prepare, RunKept, BuildKept, Working, Unbuilt, ownerVars
  <2>2. CASE tasks' = tasks
    BY <1>1, <2>1, <2>2
  <2>3. CASE tasks' = Append(tasks, "install")
    <3>1. Len(tasks') = Len(tasks) + 1 /\ Len(tasks) = 0
      BY <1>0, <2>1, <2>3, PostedOne, EmptySeq
    <3> QED BY <2>1, <3>1
  <2> QED BY <1>5, <2>2, <2>3 DEF Prepare
<1> QED BY <1>3, <1>4, <1>5

LEMMA TasksStay ==
  ASSUME AcceptTypes, RunKept, BuildKept, TasksKept, StopKept, AcceptNext
  PROVE  TasksKept'
<1>1. \A i \in 1..Len(tasks') : tasks'[i] = "install" => i = 1 /\ installed' = "no"
  BY InstallStays
<1>2. (acceptSealed => acceptSealed') /\ (stop.requested => stop'.requested)
  BY Latches DEF AcceptTypes
<1>3. Posted("seal")' => acceptSealed'
  BY <1>2, PostedMoves DEF TasksKept, SealAll, RunKept
<1>4. Posted("stop")' => stop'.requested
  BY <1>2, PostedMoves DEF TasksKept, StopKept
<1>5. sealsLeft' # {} => acceptSealed'
  <2>1. sealsLeft' \subseteq sealsLeft \/ SealAll
    BY Steps DEF Install, InstallEnds, ArmTask, AcceptFails, AcceptAgain, StopTask, SealMain,
       SealSub, DriverFails,
       RequestCloseEngine, LatchStop, ShutByStop, FindMain, PostByStopper, Accept, AdoptAccepted,
       Authorise, Commit,
       Enter, Look, Park, Unpark, RunBegins, Prepare, AwaitInstall, ClientStops, Publish,
       LoopStop, LeaveLoop,
       AwaitSeals, Unbind,
       FinalizeEngine, Confirm, Clear, runVars
  <2> QED BY <1>2, <2>1 DEF TasksKept, SealAll, RunKept
<1>6. mainShut' => acceptSealed' \/ ~bound'
  <2>1. mainShut' = mainShut \/ SealMain \/ FinalizeEngine
    BY Steps DEF Install, InstallEnds, ArmTask, AcceptFails, AcceptAgain, StopTask, SealSub,
       DriverFails,
       RequestCloseEngine, LatchStop, ShutByStop, FindMain, PostByStopper, Accept, AdoptAccepted,
       Authorise, Commit,
       Enter, Look, Park, Unpark, RunBegins, Prepare, AwaitInstall, ClientStops, Publish,
       LoopStop, LeaveLoop,
       SealAll,
       AwaitSeals, Unbind, Confirm, Clear, ownerVars
  <2>2. CASE SealMain
    <3>1. Posted("seal")
      BY <2>2, PostedTail DEF SealMain, Runs, AcceptTypes
    <3> QED BY <1>2, <3>1 DEF TasksKept
  <2>3. CASE FinalizeEngine
    BY <2>3 DEF FinalizeEngine, RunKept, Working
  <2>4. CASE mainShut' = mainShut
    <3>1. CASE Prepare
      BY <2>4, <3>1 DEF Prepare, BuildKept, Unbuilt
    <3>2. CASE ~Prepare
      <4>1. bound' => bound
        BY <3>2, RunMoves DEF RunBegins, AwaitInstall, ClientStops, Publish, LeaveLoop, SealAll,
           AwaitSeals,
           Unbind,
           FinalizeEngine, Confirm, Clear
      <4> QED BY <1>2, <2>4, <4>1 DEF TasksKept
    <3> QED BY <3>1, <3>2
  <2> QED BY <2>1, <2>2, <2>3, <2>4
<1>7. resumePending' /\ bound' => Posted("resume")'
  <2>1. CASE Prepare
    BY <2>1 DEF Prepare, BuildKept, Unbuilt
  <2>2. CASE Unbind
    BY <2>2 DEF Unbind
  <2>3. CASE ~Prepare /\ ~Unbind
    <3>1. bound' => bound
      BY <2>3, RunMoves DEF RunBegins, AwaitInstall, ClientStops, Publish, LeaveLoop, SealAll,
         AwaitSeals,
         FinalizeEngine, Confirm, Clear
    <3>2. Posted("resume") => Posted("resume")' \/ (Head(tasks) = "resume" /\ ~resumePending')
      <4>1. CASE tasks # <<>> /\ tasks' = Tail(tasks)
        <5>1. Posted("resume") => Posted("resume")' \/ Head(tasks) = "resume"
          BY <4>1, PostedTail DEF AcceptTypes
        <5>2. Head(tasks) = "resume" => ~resumePending' \/ tasks' # Tail(tasks)
          <6>1. Len(Tail(tasks)) = Len(tasks) - 1 /\ Len(tasks) \in Nat
            BY <4>1, HeadTailProperties, EmptySeq DEF AcceptTypes
          <6>2. ~\/ tasks' = tasks \/ tasks' = Append(tasks, "arm") \/ tasks' = Append(tasks, "resume")
                 \/ tasks' = Append(Append(tasks, "arm"), "resume") \/ tasks' = Append(tasks, "stop")
                 \/ tasks' = Append(tasks, "seal") \/ tasks' = Append(tasks, "install")
            <7>1. \A x \in Handler : Append(tasks, x) \in Seq(Handler) /\ Len(Append(tasks, x)) = Len(tasks) + 1
              BY AppendProperties DEF AcceptTypes
            <7>2. \A x, y \in Handler : Len(Append(Append(tasks, x), y)) = Len(tasks) + 2
              BY <6>1, <7>1, AppendProperties
            <7>3. "arm" \in Handler /\ "resume" \in Handler /\ "stop" \in Handler /\ "seal" \in Handler
                  /\ "install" \in Handler
              BY DEF Handler
            <7>4. Len(tasks') = Len(tasks) - 1
              BY <4>1, <6>1
            <7>5. /\ tasks' # tasks /\ tasks' # Append(tasks, "arm") /\ tasks' # Append(tasks, "resume")
                  /\ tasks' # Append(tasks, "stop")
              BY <6>1, <7>1, <7>3, <7>4
            <7>6. tasks' # Append(tasks, "seal") /\ tasks' # Append(tasks, "install")
              BY <6>1, <7>1, <7>3, <7>4
            <7>7. tasks' # Append(Append(tasks, "arm"), "resume")
              BY <6>1, <7>2, <7>3, <7>4
            <7> QED BY <7>5, <7>6, <7>7
          <6> QED BY <2>3, <4>1, <6>2, TaskMoves
        <5> QED BY <4>1, <5>1, <5>2
      <4>2. CASE ~(tasks # <<>> /\ tasks' = Tail(tasks))
        BY <2>3, <4>2, PostedMoves
      <4> QED BY <4>1, <4>2
    <3>3. resumePending' => resumePending \/ Posted("resume")'
      <4>1. "resume" \in Handler /\ "arm" \in Handler
        BY DEF Handler
      <4>2. tasks' = Append(tasks, "resume") => Posted("resume")'
        BY <4>1, PostedOne DEF AcceptTypes
      <4>3. tasks' = Append(Append(tasks, "arm"), "resume") => Posted("resume")'
        BY <4>1, PostedTwo DEF AcceptTypes
      <4> QED BY <2>3, <4>2, <4>3, TaskMoves
    <3> QED BY <3>1, <3>2, <3>3 DEF TasksKept
  <2> QED BY <2>1, <2>2, <2>3
<1> QED BY <1>1, <1>3, <1>4, <1>5, <1>6, <1>7 DEF TasksKept
-----------------------------------------------------------------------------
(***************************************************************************)
(* The stop.                                                               *)
(***************************************************************************)

LEMMA HeadPosted ==
  ASSUME AcceptTypes, TasksKept, NEW t, Runs(t)
  PROVE  Posted(t) /\ bound /\ (t = "install" => installed = "no")
<1>1. Posted(t) /\ 1 \in 1..Len(tasks) /\ tasks[1] = t
  <2>1. /\ tasks \in Seq(Handler) /\ tasks # <<>> /\ Head(tasks) = t
    BY DEF AcceptTypes, Runs
  <2>2. Len(tasks) \in Nat \ {0} /\ Head(tasks) = tasks[1]
    BY <2>1, HeadTailProperties, EmptySeq
  <2>3. 1 \in 1..Len(tasks)
    BY <2>2
  <2> QED BY <2>1, <2>2, <2>3 DEF Posted
<1> QED BY <1>1 DEF TasksKept, Runs

\* The queue of the handoff grows only through a commit while it is open.
LEMMA QueueMoves ==
  ASSUME AcceptTypes, AcceptNext
  PROVE  \/ At("handoff")' \subseteq At("handoff")
         \/ ~handoffClosed /\ NotifyAll /\ \E p \in Peer : Commit(p)
<1>1. CASE ShutByStop \/ RequestCloseEngine \/ SealAll
  BY <1>1 DEF ShutByStop, RequestCloseEngine, SealAll, ShutHandoff, At, AcceptTypes
<1>2. CASE SealSub \/ FinalizeEngine
  BY <1>2 DEF SealSub, FinalizeEngine, At, AcceptTypes
<1>3. CASE \E r \in Receiver : Look(r)
  BY <1>3 DEF Look, Move, At, AcceptTypes
<1>4. CASE \E p \in Peer : Accept(p) \/ AdoptAccepted(p) \/ Authorise(p)
  BY <1>4 DEF Accept, AdoptAccepted, Authorise, Move, At, AcceptTypes
<1>5. CASE \E p \in Peer : Commit(p)
  <2>1. PICK p \in Peer : Commit(p)
    BY <1>5
  <2>2. CASE Move(p, "held") \/ Move(p, "closed")
    BY <2>2 DEF Move, At, AcceptTypes
  <2>3. CASE ~handoffClosed /\ NotifyAll
    BY <2>1, <2>3
  <2>4. Move(p, "held") \/ Move(p, "closed") \/ (~handoffClosed /\ NotifyAll)
    BY <2>1 DEF Commit
  <2> QED BY <2>2, <2>3, <2>4
<1>6. CASE ~\/ ShutByStop \/ RequestCloseEngine \/ SealAll \/ SealSub \/ FinalizeEngine \/ \E r \in Receiver : Look(r)
            \/ \E p \in Peer : Accept(p) \/ AdoptAccepted(p) \/ Authorise(p) \/ Commit(p)
  <2>1. where' = where
    BY <1>6, Steps DEF Install, InstallEnds, ArmTask, AcceptFails, AcceptAgain, StopTask, SealMain,
       DriverFails, LatchStop, FindMain, PostByStopper, Enter, Park, Unpark, RunBegins, Prepare,
       AwaitInstall,
       ClientStops, Publish, LoopStop, LeaveLoop, AwaitSeals, Unbind, Confirm, Clear
  <2> QED BY <2>1 DEF At
<1> QED BY <1>1, <1>2, <1>3, <1>4, <1>5, <1>6

LEMMA StopStays ==
  ASSUME AcceptTypes, TasksKept, StopKept, AcceptNext
  PROVE  StopKept'
<1>1. installed' # "ok" => ~armed'
  <2>1. CASE Install
    BY <2>1, HeadPosted DEF Install, StopKept
  <2>2. CASE InstallEnds
    BY <2>2 DEF InstallEnds, StopKept
  <2>3. CASE ArmTask \/ AcceptFails \/ AcceptAgain \/ \E p \in Peer : Accept(p)
    BY <2>3 DEF ArmTask, ArmAcceptAll, MayArm, AcceptFails, AcceptAgain, MainFree, Accept, StopKept
  <2>4. CASE ~(Install \/ InstallEnds \/ ArmTask \/ AcceptFails \/ AcceptAgain \/ \E p \in Peer : Accept(p))
    <3>1. UNCHANGED <<installed, armed>>
      BY <2>4, Steps DEF StopTask, SealMain, SealSub, DriverFails, RequestCloseEngine,
         LatchStop, ShutByStop, FindMain, PostByStopper, AdoptAccepted, Authorise, Commit, Enter,
         Look, Park, Unpark,
         RunBegins, Prepare, AwaitInstall, ClientStops, Publish, LoopStop, LeaveLoop, SealAll,
         AwaitSeals,
         Unbind, FinalizeEngine,
         Confirm, Clear, ownerVars
    <3> QED BY <3>1 DEF StopKept
  <2> QED BY <2>1, <2>2, <2>3, <2>4
<1>2. stop.requested => stop'.requested
  BY Latches DEF AcceptTypes
<1>3. stop'.done => stop'.requested
  <2>1. CASE StopTask
    BY <1>2, <2>1, HeadPosted DEF StopTask, TasksKept
  <2>2. CASE FindMain \/ ClientStops \/ Confirm
    BY <1>2, <2>2 DEF FindMain, ClientStops, Confirm, StopKept, AcceptTypes
  <2>3. CASE PostByStopper \/ LoopStop \/ LatchStop
    BY <1>2, <2>3 DEF PostByStopper, LoopStop, PostStop, LatchStop, StopKept, AcceptTypes
  <2>4. CASE ~(StopTask \/ FindMain \/ ClientStops \/ Confirm \/ PostByStopper \/ LoopStop \/ LatchStop)
    <3>1. stop' = stop
      BY <2>4, Steps DEF Install, InstallEnds, ArmTask, AcceptFails, AcceptAgain, SealMain,
         SealSub, DriverFails,
         RequestCloseEngine, ShutByStop, Accept, AdoptAccepted, Authorise, Commit, Enter, Look,
         Park, Unpark,
         RunBegins, Prepare, AwaitInstall, Publish, LeaveLoop, SealAll, AwaitSeals, Unbind,
         FinalizeEngine, Clear
    <3> QED BY <3>1 DEF StopKept
  <2> QED BY <2>1, <2>2, <2>3, <2>4
<1>4. \/ stopper' = stopper
      \/ LatchStop \/ ShutByStop \/ FindMain \/ PostByStopper
  BY Steps DEF Install, InstallEnds, ArmTask, AcceptFails, AcceptAgain, StopTask, SealMain,
     SealSub, DriverFails,
     RequestCloseEngine, Accept, AdoptAccepted, Authorise, Commit, Enter, Look, Park, Unpark,
     RunBegins, Prepare, AwaitInstall,
     ClientStops, Publish, LoopStop, LeaveLoop, SealAll, AwaitSeals, Unbind, FinalizeEngine,
     Confirm, Clear
<1>5. stopper' # "idle" => stop'.requested
  BY <1>2, <1>4 DEF LatchStop, ShutByStop, FindMain, PostByStopper, StopKept, AcceptTypes
<1>6. stopper' \in {"find", "post", "done"} => handoffClosed'
  <2>1. handoffClosed => handoffClosed'
    BY Latches DEF AcceptTypes
  <2> QED BY <1>4, <2>1 DEF LatchStop, ShutByStop, ShutHandoff, FindMain, PostByStopper, StopKept
<1>7. handoffClosed' => At("handoff")' = {}
  <2>1. CASE handoffClosed
    BY <2>1, QueueMoves DEF StopKept
  <2>2. CASE ~handoffClosed /\ handoffClosed'
    <3>1. ShutHandoff
      BY <2>2, Steps DEF Install, InstallEnds, ArmTask, AcceptFails, AcceptAgain, StopTask,
         SealMain, SealSub,
         DriverFails, LatchStop, FindMain, PostByStopper, Accept, AdoptAccepted, Authorise, Commit,
         Enter, Look, Park, Unpark, RunBegins, Prepare, AwaitInstall, ClientStops, Publish,
         LoopStop,
         LeaveLoop, AwaitSeals,
         Unbind, FinalizeEngine, Confirm, Clear, roomVars, ShutByStop, RequestCloseEngine, SealAll
    <3> QED BY <3>1 DEF ShutHandoff, At, AcceptTypes
  <2> QED BY <2>1, <2>2
<1> QED BY <1>1, <1>3, <1>5, <1>6, <1>7 DEF StopKept

LEMMA StopTrueStays ==
  ASSUME AcceptTypes, RunKept, BuildKept, TasksKept, StopKept, StopTrue, AcceptNext
  PROVE  StopTrue'
<1>1. ASSUME stop'.requested, stop'.done PROVE listener' # "open" /\ installed' # "open"
  <2>1. CASE stop.requested /\ stop.done
    BY <2>1, ListenerMoves DEF Install, InstallEnds, StopTrue, StopKept, RunKept
  <2>2. CASE ~(stop.requested /\ stop.done)
    <3>1. \/ stop' = stop
          \/ StopTask \/ FindMain \/ ClientStops \/ Confirm \/ PostByStopper \/ LoopStop
          \/ LatchStop
      BY Steps DEF Install, InstallEnds, ArmTask, AcceptFails, AcceptAgain, SealMain, SealSub,
         DriverFails,
         RequestCloseEngine, ShutByStop, Accept, AdoptAccepted, Authorise, Commit, Enter, Look,
         Park, Unpark,
         RunBegins, Prepare, AwaitInstall, Publish, LeaveLoop, SealAll, AwaitSeals, Unbind,
         FinalizeEngine, Clear
    <3>2. ~(stop' = stop)
      BY <1>1, <2>2
    <3>3. CASE StopTask
      BY <3>3 DEF StopTask, Runs
    <3>4. CASE ClientStops \/ Confirm
      <4>1. CASE ClientStops
        <5>1. mode = "client"
          BY <1>1, <2>2, <4>1 DEF ClientStops, AcceptTypes, StopKept
        <5> QED BY <4>1, <5>1 DEF ClientStops, RunKept, ownerVars
      <4>2. CASE Confirm
        BY <4>2 DEF Confirm, BuildKept, RunKept, Working, ownerVars
      <4> QED BY <3>4, <4>1, <4>2
    <3>5. CASE FindMain
      <4>1. ~mainSet /\ phase \in {"Idle", "Running", "Stopped"}
        BY <1>1, <2>2, <3>5 DEF FindMain, AcceptTypes, StopKept
      <4>2. UNCHANGED <<listener, installed>>
        BY <3>5 DEF FindMain, ownerVars
      <4>3. CASE phase = "Running"
        BY <4>1, <4>2, <4>3 DEF RunKept, Working
      <4>4. CASE phase = "Idle"
        BY <4>2, <4>4 DEF RunKept, BuildKept, Unbuilt
      <4>5. CASE phase = "Stopped"
        BY <4>2, <4>5 DEF RunKept, BuildKept, Working
      <4> QED BY <4>1, <4>3, <4>4, <4>5
    <3>6. CASE PostByStopper \/ LoopStop \/ LatchStop
      <4>1. stop'.done = stop.done
        BY <3>6 DEF PostByStopper, LoopStop, PostStop, LatchStop, AcceptTypes
      <4> QED BY <1>1, <2>2, <4>1 DEF StopKept
    <3> QED BY <3>1, <3>2, <3>3, <3>4, <3>5, <3>6
  <2> QED BY <2>1, <2>2
<1>2. stopper' \in {"find", "post", "done"} => At("handoff")' = {}
  BY StopStays DEF StopKept
<1> QED BY <1>1, <1>2 DEF StopTrue
-----------------------------------------------------------------------------
(***************************************************************************)
(* The places of the handoff.                                              *)
(***************************************************************************)

\* HandoffExact where a step leaves mode, bound and the gate as they are.
PeersCounted ==
  /\ reserved = Cardinality(InFlight) + One(armed)
  /\ reserved + Cardinality(At("handoff")) <= Capacity

LEMMA CountedIsExact ==
  /\ HandoffExact <=> (mode = "handoff" /\ ~handoffClosed /\ bound => PeersCounted)
  /\ HandoffExact' <=> (mode' = "handoff" /\ ~handoffClosed' /\ bound' => PeersCounted')
BY DEF HandoffExact, PeersCounted, One

LEMMA CountedSame ==
  ASSUME PeersCounted, UNCHANGED <<where, reserved, armed>>
  PROVE  PeersCounted'
<1>1. InFlight' = InFlight /\ At("handoff")' = At("handoff")
  BY DEF InFlight, At
<1> QED BY <1>1 DEF PeersCounted, One

\* The main owner arms, or lets its accept go.
LEMMA CountedArming ==
  ASSUME EngineAcceptConstants, AcceptTypes, StopKept, PeersCounted, mode = "handoff", ~handoffClosed,
         InstallEnds \/ ArmTask \/ AcceptFails \/ AcceptAgain
  PROVE  PeersCounted'
<1>1. /\ where' = where /\ reserved \in Nat
  BY DEF AcceptTypes, InstallEnds, ArmTask, AcceptFails, AcceptAgain
<1>2. /\ InFlight' = InFlight /\ At("handoff")' = At("handoff")
      /\ Cardinality(InFlight) \in Nat /\ Cardinality(At("handoff")) \in Nat
  BY <1>1, Stayed DEF EngineAcceptConstants
<1> DEFINE c == Cardinality(InFlight)
           h == Cardinality(At("handoff"))
<1>3. reserved = c + One(armed) /\ reserved + h <= Capacity /\ Capacity \in Nat
      /\ c \in Nat /\ h \in Nat
  BY <1>2 DEF PeersCounted, EngineAcceptConstants
<1>4. Room => h + reserved < Capacity
  BY DEF Room
<1> HIDE DEF c, h
<1>5. reserved' = c + One(armed') /\ reserved' + h <= Capacity
  <2>1. CASE InstallEnds
    <3>1. ~armed
      BY <2>1 DEF InstallEnds, StopKept
    <3>2. \/ armed' = armed /\ reserved' = reserved
          \/ ~armed' /\ reserved' = reserved
          \/ armed' /\ Room /\ reserved' = reserved + 1
      BY <2>1 DEF InstallEnds
    <3> QED BY <1>3, <1>4, <3>1, <3>2 DEF One
  <2>2. CASE ArmTask
    <3>1. \/ MayArm /\ ~armed /\ armed' /\ Room /\ reserved' = reserved + 1
          \/ ~MayArm /\ (armed' <=> armed) /\ reserved' = reserved
      <4>1. armed' = (armed \/ MayArm) /\ reserved' = (IF MayArm THEN reserved + 1 ELSE reserved)
        BY <2>2 DEF ArmTask, ArmAcceptAll
      <4>2. MayArm => ~armed /\ Room
        BY DEF MayArm
      <4> QED BY <4>1, <4>2
    <3> QED BY <1>3, <1>4, <3>1 DEF One
  <2>3. CASE AcceptFails
    BY <1>3, <1>4, <2>3 DEF AcceptFails, MainFree, ReleaseHandoffReservation, One
  <2>4. CASE AcceptAgain
    BY <1>3, <1>4, <2>4 DEF AcceptAgain, MainFree, One
  <2> QED BY <2>1, <2>2, <2>3, <2>4
<1> QED BY <1>2, <1>5 DEF PeersCounted, c, h

\* One connection moves on.
LEMMA CountedMoving ==
  ASSUME EngineAcceptConstants, AcceptTypes, PeersCounted, mode = "handoff", ~handoffClosed, NEW p \in Peer,
         Accept(p) \/ AdoptAccepted(p) \/ Authorise(p) \/ Commit(p)
  PROVE  PeersCounted'
<1> DEFINE c == Cardinality(InFlight)
           h == Cardinality(At("handoff"))
<1>0. where \in [Peer -> Place] /\ reserved \in Nat /\ Capacity \in Nat /\ IsFiniteSet(Peer)
  BY DEF AcceptTypes, EngineAcceptConstants
<1>1. reserved = c + One(armed) /\ reserved + h <= Capacity
  BY DEF PeersCounted
<1>2. ASSUME NEW w \in Place, Move(p, w)
      PROVE  /\ c \in Nat /\ h \in Nat
             /\ Cardinality(InFlight') = c - One(where[p] \in OnWay) + One(w \in OnWay)
             /\ Cardinality(At("handoff")') = h - One(where[p] = "handoff") + One(w = "handoff")
  BY <1>0, <1>2, Moved
<1> HIDE DEF c, h
<1>3. CASE Accept(p)
  <2>1. where[p] = "away" /\ armed /\ ~armed'
    BY <1>3 DEF Accept, MainFree
  <2>2. CASE Move(p, "task") /\ reserved' = reserved
    <3>1. c \in Nat /\ h \in Nat /\ Cardinality(InFlight') = c + 1 /\ Cardinality(At("handoff")') = h
      BY <1>2, <2>1, <2>2 DEF Place, OnWay, One
    <3> QED BY <1>0, <1>1, <2>1, <2>2, <3>1 DEF PeersCounted, One
  <2>3. CASE Move(p, "closed") /\ reserved' = (IF reserved > 0 THEN reserved - 1 ELSE 0)
    <3>1. c \in Nat /\ h \in Nat /\ Cardinality(InFlight') = c /\ Cardinality(At("handoff")') = h
      BY <1>2, <2>1, <2>3 DEF Place, OnWay, One
    <3> QED BY <1>0, <1>1, <2>1, <2>3, <3>1 DEF PeersCounted, One
  <2> QED BY <1>0, <1>3, <2>2, <2>3 DEF Accept, ReleaseHandoffReservation, ReleaseAndArm
<1>4. CASE AdoptAccepted(p)
  <2>1. where[p] = "task" /\ armed' = armed
    BY <1>4 DEF AdoptAccepted, ownerVars
  <2>2. CASE Move(p, "hand") /\ reserved' = reserved
    <3>1. c \in Nat /\ h \in Nat /\ Cardinality(InFlight') = c /\ Cardinality(At("handoff")') = h
      BY <1>2, <2>1, <2>2 DEF Place, OnWay, One
    <3> QED BY <1>0, <1>1, <2>1, <2>2, <3>1 DEF PeersCounted, One
  <2>3. CASE Move(p, "closed") /\ reserved' = (IF reserved > 0 THEN reserved - 1 ELSE 0)
    <3>1. c \in Nat /\ h \in Nat /\ Cardinality(InFlight') = c - 1 /\ Cardinality(At("handoff")') = h
          /\ Cardinality(InFlight') \in Nat
      BY <1>0, <1>2, <2>1, <2>3, Moved DEF Place, OnWay, One
    <3> QED BY <1>0, <1>1, <2>1, <2>3, <3>1 DEF PeersCounted, One
  <2> QED BY <1>0, <1>4, <2>2, <2>3 DEF AdoptAccepted, ReleaseHandoffReservation, ReleaseAndArm
<1>5. CASE Authorise(p)
  <2>1. where[p] = "hand" /\ armed' = armed
    BY <1>5 DEF Authorise, ownerVars
  <2>2. CASE Move(p, "commit") /\ reserved' = reserved
    <3>1. c \in Nat /\ h \in Nat /\ Cardinality(InFlight') = c /\ Cardinality(At("handoff")') = h
      BY <1>2, <2>1, <2>2 DEF Place, OnWay, One
    <3> QED BY <1>0, <1>1, <2>1, <2>2, <3>1 DEF PeersCounted, One
  <2>3. CASE Move(p, "closed") /\ reserved' = (IF reserved > 0 THEN reserved - 1 ELSE 0)
    <3>1. c \in Nat /\ h \in Nat /\ Cardinality(InFlight') = c - 1 /\ Cardinality(At("handoff")') = h
          /\ Cardinality(InFlight') \in Nat
      BY <1>0, <1>2, <2>1, <2>3, Moved DEF Place, OnWay, One
    <3> QED BY <1>0, <1>1, <2>1, <2>3, <3>1 DEF PeersCounted, One
  <2> QED BY <1>5, <2>2, <2>3 DEF Authorise, ReleaseHandoffReservation
<1>6. CASE Commit(p)
  <2>1. where[p] = "commit" /\ armed' = armed
    BY <1>6 DEF Commit, ownerVars
  <2>2. Move(p, "handoff") /\ reserved' = (IF reserved > 0 THEN reserved - 1 ELSE 0)
    BY <1>6 DEF Commit
  <2>3. c \in Nat /\ h \in Nat /\ Cardinality(InFlight') = c - 1 /\ Cardinality(At("handoff")') = h + 1
        /\ Cardinality(InFlight') \in Nat
    BY <1>0, <1>2, <2>1, <2>2, Moved DEF Place, OnWay, One
  <2> QED BY <1>0, <1>1, <2>1, <2>2, <2>3 DEF PeersCounted, One
<1> QED BY <1>3, <1>4, <1>5, <1>6

\* A receiver takes one, or the sub owner closes what is queued.
LEMMA CountedTaking ==
  ASSUME EngineAcceptConstants, AcceptTypes, PeersCounted,
         SealSub \/ \E r \in Receiver : Look(r)
  PROVE  PeersCounted'
<1>0. where \in [Peer -> Place] /\ reserved \in Nat /\ Capacity \in Nat /\ IsFiniteSet(Peer)
  BY DEF AcceptTypes, EngineAcceptConstants
<1>1. reserved' = reserved /\ armed' = armed
  BY DEF SealSub, Look, roomVars, ownerVars
<1>2. InFlight' = InFlight /\ At("handoff")' \subseteq At("handoff")
  <2>1. CASE SealSub
    BY <1>0, <2>1 DEF SealSub, InFlight, At
  <2>2. CASE \E r \in Receiver : Look(r)
    BY <1>0, <2>2 DEF Look, Move, InFlight, At
  <2> QED BY <2>1, <2>2
<1>3. Cardinality(InFlight) \in Nat /\ IsFiniteSet(At("handoff")) /\ Cardinality(At("handoff")) \in Nat
  BY <1>0, InCounts, PlacesCounted
<1>4. Cardinality(At("handoff")') \in Nat /\ Cardinality(At("handoff")') <= Cardinality(At("handoff"))
  BY <1>2, <1>3, FS_Subset, FS_CardinalityType
<1> QED BY <1>0, <1>1, <1>2, <1>3, <1>4 DEF PeersCounted, One

LEMMA CountedAtFirst ==
  ASSUME EngineAcceptConstants, AcceptTypes, Unbuilt, UNCHANGED <<where, reserved, armed>>
  PROVE  PeersCounted'
<1>1. InFlight' = {} /\ At("handoff")' = {}
  BY DEF InFlight, At, Unbuilt
<1> QED BY <1>1, FS_EmptySet DEF PeersCounted, Unbuilt, One, EngineAcceptConstants

LEMMA HandoffStays ==
  ASSUME EngineAcceptConstants, AcceptTypes, RunKept, BuildKept, StopKept, HandoffExact, AcceptNext
  PROVE  HandoffExact'
<1> SUFFICES ASSUME mode' = "handoff", ~handoffClosed', bound'
             PROVE  PeersCounted'
  BY CountedIsExact
<1>1. mode = "handoff" /\ ~handoffClosed
  BY Latches DEF AcceptTypes
<1>2. CASE Prepare
  BY <1>2, CountedAtFirst DEF Prepare, BuildKept, ownerVars, roomVars
<1>3. CASE ~Prepare
  <2>1. bound
    BY <1>3, RunMoves DEF RunBegins, AwaitInstall, ClientStops, Publish, LeaveLoop, SealAll,
       AwaitSeals, Unbind,
       FinalizeEngine, Confirm, Clear
  <2>2. PeersCounted
    BY <1>1, <2>1, CountedIsExact
  <2>3. CASE InstallEnds \/ ArmTask \/ AcceptFails \/ AcceptAgain
    BY <1>1, <2>2, <2>3, CountedArming
  <2>4. CASE \E p \in Peer : Accept(p) \/ AdoptAccepted(p) \/ Authorise(p) \/ Commit(p)
    BY <1>1, <2>2, <2>4, CountedMoving
  <2>5. CASE SealSub \/ \E r \in Receiver : Look(r)
    BY <2>2, <2>5, CountedTaking
  <2>6. CASE ~\/ InstallEnds \/ ArmTask \/ AcceptFails \/ AcceptAgain
              \/ \E p \in Peer : Accept(p) \/ AdoptAccepted(p) \/ Authorise(p) \/ Commit(p)
              \/ SealSub \/ \E r \in Receiver : Look(r)
    <3>1. UNCHANGED <<where, reserved, armed>> \/ ShutHandoff \/ FinalizeEngine
      BY <1>3, <2>6, Steps DEF Install, StopTask, SealMain, DriverFails, LatchStop, FindMain,
         PostByStopper,
         Enter, Park, Unpark, RunBegins, AwaitInstall, ClientStops, Publish, LoopStop, LeaveLoop,
         AwaitSeals,
         Unbind, Confirm, Clear, roomVars, ownerVars, ShutByStop, RequestCloseEngine, SealAll
    <3>2. ~ShutHandoff /\ ~FinalizeEngine
      BY <2>1 DEF ShutHandoff, FinalizeEngine, RunKept, Working
    <3> QED BY <2>2, <3>1, <3>2, CountedSame
  <2> QED BY <2>3, <2>4, <2>5, <2>6
<1> QED BY <1>2, <1>3
-----------------------------------------------------------------------------
(***************************************************************************)
(* Nobody falls asleep: the receivers, and the listener.                   *)
(***************************************************************************)

LEMMA ReceiversStayTold ==
  ASSUME AcceptTypes, StopKept, ReceiversTold, AcceptNext
  PROVE  ReceiversTold'
<1> SUFFICES ASSUME NEW r \in Receiver, pc'[r] = "parked", r \notin acceptWoken'
             PROVE  At("handoff")' = {} /\ stopper' \notin {"find", "post", "done"}
  BY DEF ReceiversTold
<1>1. pc[r] = "parked" \/ Park(r)
  BY Steps DEF Install, InstallEnds, ArmTask, AcceptFails, AcceptAgain, StopTask, SealMain,
     SealSub, DriverFails,
     RequestCloseEngine, LatchStop, ShutByStop, FindMain, PostByStopper, Accept, AdoptAccepted,
     Authorise, Commit,
     Enter, Look, Park, Unpark, RunBegins, Prepare, AwaitInstall, ClientStops, Publish, LoopStop,
     LeaveLoop,
     SealAll, AwaitSeals,
     Unbind, FinalizeEngine, Confirm, Clear, AcceptTypes
<1>2. \/ stopper' = stopper
      \/ ShutByStop /\ NotifyAll
      \/ stopper \in {"find", "post"}
      \/ stopper' = "shut"
  BY Steps DEF Install, InstallEnds, ArmTask, AcceptFails, AcceptAgain, StopTask, SealMain,
     SealSub, DriverFails,
     RequestCloseEngine, LatchStop, ShutByStop, ShutHandoff, FindMain, PostByStopper, Accept,
     AdoptAccepted, Authorise, Commit,
     Enter, Look, Park, Unpark, RunBegins, Prepare, AwaitInstall, ClientStops, Publish, LoopStop,
     LeaveLoop,
     SealAll, AwaitSeals,
     Unbind, FinalizeEngine, Confirm, Clear
<1>3. CASE pc[r] = "parked"
  <2>1. r \notin acceptWoken
    BY <1>3, Steps DEF Install, InstallEnds, ArmTask, AcceptFails, AcceptAgain, StopTask,
       SealMain, SealSub, DriverFails,
       RequestCloseEngine, LatchStop, ShutByStop, ShutHandoff, NotifyAll, FindMain,
       PostByStopper, Accept, AdoptAccepted, Authorise,
       Commit, Enter, Look, Park, Unpark, RunBegins, Prepare, AwaitInstall, ClientStops, Publish,
       LoopStop,
       LeaveLoop, SealAll,
       AwaitSeals, Unbind, FinalizeEngine, Confirm, Clear
  <2>2. At("handoff") = {} /\ stopper \notin {"find", "post", "done"}
    BY <1>3, <2>1 DEF ReceiversTold
  <2>3. ~NotifyAll
    BY <1>3 DEF NotifyAll
  <2>4. At("handoff")' = {}
    BY <2>2, <2>3, QueueMoves
  <2> QED BY <1>2, <2>2, <2>3, <2>4
<1>4. CASE Park(r) /\ pc[r] # "parked"
  <2>1. At("handoff") = {} /\ ~stop.requested
    BY <1>4 DEF Park, Stopping, AcceptTypes
  <2>2. stopper = "idle"
    BY <2>1 DEF StopKept
  <2>3. where' = where /\ stopper' = stopper
    BY <1>4 DEF Park
  <2> QED BY <2>1, <2>2, <2>3 DEF At
<1> QED BY <1>1, <1>3, <1>4

LEMMA ResumePosts ==
  ASSUME AcceptTypes, TasksKept, mainSet, Open, ResumeAcceptIfFree
  PROVE  Posted("resume")'
<1>1. CASE resumePending
  <2>1. tasks' = tasks /\ bound
    BY <1>1 DEF ResumeAcceptIfFree, Open, postVars
  <2> QED BY <1>1, <2>1 DEF TasksKept, Posted
<1>2. CASE ~resumePending
  <2>1. tasks' = Append(tasks, "resume") /\ "resume" \in Handler
    BY <1>2 DEF ResumeAcceptIfFree, Handler
  <2> QED BY <2>1, PostedOne DEF AcceptTypes
<1> QED BY <1>1, <1>2

LEMMA ArmPosts ==
  ASSUME AcceptTypes, mainSet, Open, Rearm \/ ReleaseAndArm
  PROVE  Posted("arm")'
<1>1. tasks' = Append(tasks, "arm") \/ tasks' = Append(Append(tasks, "arm"), "resume")
  BY DEF Rearm, ReleaseAndArm
<1>2. "arm" \in Handler /\ "resume" \in Handler
  BY DEF Handler
<1>3. CASE tasks' = Append(tasks, "arm")
  BY <1>2, <1>3, PostedOne DEF AcceptTypes
<1>4. CASE tasks' = Append(Append(tasks, "arm"), "resume")
  BY <1>2, <1>4, PostedTwo DEF AcceptTypes
<1> QED BY <1>1, <1>3, <1>4

\* A connection that moves on either stays under way or asks for the next accept.
LEMMA MovingRearms ==
  ASSUME AcceptTypes, TasksKept, mainSet, Open, mode = "handoff", ~handoffClosed, ~stop.requested,
         NEW p \in Peer, Accept(p) \/ AdoptAccepted(p) \/ Authorise(p) \/ Commit(p)
  PROVE  Coming'
<1>0. ~acceptSealed /\ where \in [Peer -> Place]
  BY DEF Open, AcceptTypes
<1>1. ASSUME NEW w \in OnWay, Move(p, w) PROVE InFlight' # {}
  BY <1>0, <1>1 DEF Move, InFlight, At, OnWay
<1>2. ReleaseHandoffReservation => Posted("resume")'
  BY ResumePosts DEF ReleaseHandoffReservation
<1>3. CASE Accept(p)
  BY <1>1, <1>3, ArmPosts DEF Accept, Coming, OnWay
<1>4. CASE AdoptAccepted(p)
  BY <1>1, <1>2, <1>4, ArmPosts DEF AdoptAccepted, Coming, OnWay
<1>5. CASE Authorise(p)
  BY <1>0, <1>1, <1>5 DEF Authorise, Coming, OnWay
<1>6. CASE Commit(p)
  BY <1>6, ArmPosts DEF Commit, Coming
<1> QED BY <1>3, <1>4, <1>5, <1>6

LEMMA RearmedStays ==
  ASSUME AcceptTypes, RunKept, BuildKept, TasksKept, StopKept, Rearmed, AcceptNext
  PROVE  Rearmed'
<1> SUFFICES ASSUME mode' = "handoff", installed' = "ok", bound', ~failed', ~acceptSealed', ~stop'.requested, Room'
             PROVE  Coming'
  BY DEF Rearmed, Stopping
<1>1. mode = "handoff" /\ ~acceptSealed /\ ~failed /\ ~stop.requested /\ ~handoffClosed /\ ~handoffClosed'
  BY Latches DEF AcceptTypes, Room
<1>2. ~Prepare /\ ~Unbind
  BY <1>1 DEF Prepare, Unbind, BuildKept, Unbuilt, ownerVars
<1>3. bound
  BY <1>2, RunMoves DEF RunBegins, AwaitInstall, ClientStops, Publish, LeaveLoop, SealAll,
     AwaitSeals,
     FinalizeEngine, Confirm, Clear
<1>4. mainSet /\ ~mainShut /\ Open
  BY <1>1, <1>3 DEF RunKept, TasksKept, Open
<1>5. ~Install /\ ~StopTask /\ ~SealMain
  <2>1. ~Install
    BY <1>1 DEF Install
  <2>2. ~StopTask
    BY <1>1, HeadPosted DEF StopTask, TasksKept
  <2>3. ~SealMain
    BY <1>1, HeadPosted DEF SealMain, TasksKept
  <2> QED BY <2>1, <2>2, <2>3
<1>6. CASE InstallEnds
  <2>1. armed' \/ (~Room /\ reserved' = reserved)
    BY <1>1, <1>4, <1>6 DEF InstallEnds
  <2>2. where' = where
    BY <1>6 DEF InstallEnds
  <2>3. reserved' = reserved => (Room' => Room)
    BY <1>1, <2>2 DEF Room, At
  <2> QED BY <2>1, <2>3 DEF Coming
<1>7. CASE ArmTask
  <2>1. installed = "ok" /\ where' = where /\ ArmAcceptAll
    BY <1>7 DEF ArmTask
  <2>2. armed' \/ (~armed /\ ~MayArm /\ reserved' = reserved)
    BY <2>1 DEF ArmAcceptAll
  <2>3. reserved' = reserved => (Room' => Room)
    BY <1>1, <2>1 DEF Room, At
  <2>4. ~armed /\ Room => MayArm
    BY <1>1, <1>4, <2>1 DEF MayArm
  <2> QED BY <2>2, <2>3, <2>4 DEF Coming
<1>8. CASE AcceptFails \/ AcceptAgain
  <2>1. ResumeAcceptIfFree
    BY <1>1, <1>8 DEF AcceptFails, AcceptAgain, ReleaseHandoffReservation
  <2> QED BY <1>4, <2>1, ResumePosts DEF Coming
<1>9. CASE \E p \in Peer : Accept(p) \/ AdoptAccepted(p) \/ Authorise(p) \/ Commit(p)
  BY <1>1, <1>4, <1>9, MovingRearms
<1>10. CASE \E r \in Receiver : Look(r)
  <2>1. ResumeAcceptIfFree \/ (UNCHANGED <<where, postVars>> /\ UNCHANGED <<reserved, armed, installed>>)
    BY <1>10 DEF Look, roomVars, ownerVars
  <2>2. CASE ResumeAcceptIfFree
    BY <1>4, <2>2, ResumePosts DEF Coming
  <2>3. CASE UNCHANGED <<where, postVars>> /\ UNCHANGED <<reserved, armed, installed>>
    <3>1. Room /\ installed = "ok"
      BY <1>1, <2>3 DEF Room, At
    <3>2. Coming
      BY <1>1, <1>3, <3>1 DEF Rearmed, Stopping
    <3> QED BY <2>3, <3>2 DEF Coming, InFlight, At, Posted, postVars
  <2> QED BY <2>1, <2>2, <2>3
<1>11. CASE ~\/ InstallEnds \/ ArmTask \/ AcceptFails \/ AcceptAgain
             \/ \E p \in Peer : Accept(p) \/ AdoptAccepted(p) \/ Authorise(p) \/ Commit(p)
             \/ \E r \in Receiver : Look(r)
  <2>1. ~SealSub /\ ~RequestCloseEngine /\ ~ShutByStop /\ ~LatchStop /\ ~LeaveLoop /\ ~SealAll /\ ~DriverFails
        /\ ~PostByStopper /\ ~LoopStop /\ ~FinalizeEngine
    <3>1. ~SealSub
      BY <1>1 DEF SealSub, TasksKept
    <3>2. ~RequestCloseEngine /\ ~ShutByStop /\ ~SealAll
      BY <1>1 DEF RequestCloseEngine, ShutByStop, SealAll, ShutHandoff
    <3>3. ~LatchStop /\ ~LeaveLoop /\ ~DriverFails
      BY DEF LatchStop, LeaveLoop, DriverFails, AcceptTypes
    <3>4. ~PostByStopper /\ ~LoopStop
      BY <1>1 DEF PostByStopper, LoopStop, StopKept
    <3>5. ~FinalizeEngine
      BY <1>3 DEF FinalizeEngine, RunKept, Working
    <3> QED BY <3>1, <3>2, <3>3, <3>4, <3>5
  <2>2. UNCHANGED <<where, tasks, reserved, armed, installed>>
    BY <1>2, <1>5, <1>11, <2>1, Steps DEF FindMain, Enter, Park, Unpark, RunBegins, AwaitInstall,
       ClientStops, Publish,
       AwaitSeals, Confirm, Clear, roomVars, ownerVars, postVars
  <2>3. Room /\ installed = "ok"
    BY <1>1, <2>2 DEF Room, At
  <2>4. Coming
    BY <1>1, <1>3, <2>3 DEF Rearmed, Stopping
  <2> QED BY <2>2, <2>4 DEF Coming, InFlight, At, Posted
<1> QED BY <1>6, <1>7, <1>8, <1>9, <1>10, <1>11

-----------------------------------------------------------------------------
(***************************************************************************)
(* The listening Engine: the theorems.                                     *)
(***************************************************************************)

LEMMA AcceptStep ==
  ASSUME EngineAcceptConstants, AcceptInv, AcceptNext
  PROVE  AcceptInv'
<1> USE DEF AcceptInv
<1>1. AcceptTypes'
  BY AcceptTyped
<1>2. RunKept' /\ BuildKept'
  BY RunStays, BuildStays
<1>3. TasksKept' /\ StopKept'
  BY TasksStay, StopStays
<1>4. HandoffExact'
  BY HandoffStays
<1>5. Rearmed' /\ ReceiversTold' /\ StopTrue'
  BY RearmedStays, ReceiversStayTold, StopTrueStays
<1> QED BY <1>1, <1>2, <1>3, <1>4, <1>5

LEMMA AcceptStutter ==
  ASSUME AcceptInv, UNCHANGED acceptVars
  PROVE  AcceptInv'
BY DEF AcceptInv, acceptVars, runVars, ownerVars, roomVars, postVars, AcceptTypes, RunKept,
   BuildKept, Unbuilt, TasksKept,
   StopKept, HandoffExact, Rearmed, ReceiversTold, StopTrue, Coming, Posted, InFlight, At,
   Stopping, Room

\* Whatever the connections, receivers and threads do, the listening Engine keeps the invariant:
\* its types, where Run is and what it has built, what each posted handler stands for, the
\* counted places, and who still has to be told (Engine.cc from TryReserveHandoff to the
\* close-out of Run).
THEOREM AcceptAlways ==
  ASSUME EngineAcceptConstants
  PROVE  AcceptSpec => []AcceptInv
<1>1. AcceptInit => AcceptInv
  BY AcceptStart
<1>2. AcceptInv /\ [AcceptNext]_acceptVars => AcceptInv'
  BY AcceptStep, AcceptStutter
<1> QED BY <1>1, <1>2, PTL DEF AcceptSpec

\* The places of the open handoff are counted exactly and never exceed its capacity
\* (TryReserveHandoff, ReleaseHandoffReservation, CommitHandoff).
THEOREM HandoffCorrect ==
  ASSUME EngineAcceptConstants
  PROVE  AcceptSpec => []HandoffExact
<1>1. AcceptInv => HandoffExact
  BY DEF AcceptInv
<1> QED BY <1>1, AcceptAlways, PTL

\* Accepting goes on while there is room and no stop, no receiver sleeps over a connection or a
\* stop, and a confirmed stop has no listener left (ArmAcceptAll, ResumeAcceptIfFree, CoAccept,
\* StopAcceptingOnOwner, MarkAcceptStopDone).
THEOREM AcceptanceCorrect ==
  ASSUME EngineAcceptConstants
  PROVE  AcceptSpec => []AcceptanceExact
<1>1. AcceptInv => AcceptanceExact
  <2> SUFFICES ASSUME AcceptInv PROVE AcceptanceExact
    OBVIOUS
  <2>1. Coming => armed \/ InFlight # {} \/ \E i \in 1..Len(tasks) : tasks[i] \in {"arm", "resume"}
    BY DEF Coming, Posted
  <2>2. AcceptanceKept
    BY <2>1 DEF AcceptInv, AcceptanceKept, Rearmed, ReceiversTold
  <2> QED BY <2>2 DEF AcceptInv, AcceptanceExact
<1> QED BY <1>1, AcceptAlways, PTL
=============================================================================
