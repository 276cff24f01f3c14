------------------------------ MODULE ClientProofs ------------------------------
(***************************************************************************)
(* The clients, for every number of callers, connections, dials and slots. *)
(* The HTTP connection pool: every connection has its place and its one    *)
(* user, what physically exists stays within max_connections, and the end  *)
(* of the pool reaches everything in it.  The redis client: one call at a  *)
(* time on a stream that is in step with it.  The redis pool: no client is *)
(* lost, lent twice, kept from a waiter or forgotten by Close.             *)
(***************************************************************************)
EXTENDS HttpPool, RedisClient, RedisPool, ListProofs,
        SequenceTheorems, FiniteSetTheorems, TLAPS

-----------------------------------------------------------------------------
(***************************************************************************)
(* The HTTP pool.  The invariant is stated over a phase, a pool, a queue   *)
(* and the calls, so that it can be carried through the parts of a step: a *)
(* sweep first, then the entry that is taken.                              *)
(***************************************************************************)

Live == {"up", "closing", "failing"}
CallState == [pc : CallPc, origin : Origin \cup {NoOrigin}, slot : Slot \cup {0}, told : BOOLEAN]
PoolState == [list : Seq(Slot), ent : [Slot -> EntryType]]
Phases == {"Open", "Draining", "Closed"}

IdleOf(p) == { s \in Slot : p.ent[s].phase = "Idle" }
DialOf(cl, s) == \E c \in Caller : cl[c].pc = "dial" /\ cl[c].slot = s
Physical(p, cl) == { s \in Slot : p.ent[s].net \in Live \/ DialOf(cl, s) }

\* An entry that is not in the list is free or at its end; without a Close nothing lives
\* below it.  After Close nothing is up.
EntryFits(ph, p, s) ==
  /\ s \notin ToSet(p.list) => /\ p.ent[s].phase \in {"Freed", "Retiring"}
                               /\ ph # "Closed" => p.ent[s].net \notin Live
  /\ ph = "Closed" => p.ent[s].net # "up"

\* Nobody points to an idle entry, somebody to an active one.
UseFits(p, cl, s) ==
  /\ p.ent[s].phase = "Idle" => \A c \in Caller : cl[c].slot # s
  /\ p.ent[s].phase = "Active" => \E c \in Caller : cl[c].slot = s /\ cl[c].pc # "dial"

\* Where a caller may point to an entry; until the Close a dial keeps its entry.
Pointing(r) ==
  /\ r.slot # 0 => r.pc \in {"added", "parked", "sliced", "dial", "lease"}
  /\ r.pc \in {"dial", "lease"} => r.slot # 0
DialFits(ph, p, r) ==
  r.pc = "dial" /\ ph # "Closed" => r.slot \in ToSet(p.list) /\ p.ent[r.slot].phase = "Dialing"

Waits(r) == r.pc \in {"added", "parked", "sliced"} /\ r.slot = 0

Alone(cl, c) == \A d \in Caller : d # c /\ cl[d].slot = cl[c].slot => cl[c].slot = 0

PoolFits(ph, p) ==
  /\ p \in PoolState /\ Len(p.list) <= MaxConnections
  /\ Cardinality(IdleOf(p)) <= MaxKeepalive
  /\ \A s \in Slot : EntryFits(ph, p, s)

CallsFit(ph, p, cl) ==
  /\ cl \in [Caller -> CallState]
  /\ \A c \in Caller : Pointing(cl[c]) /\ DialFits(ph, p, cl[c]) /\ Alone(cl, c)
  /\ \A s \in Slot : UseFits(p, cl, s)
  /\ Cardinality(Physical(p, cl)) <= MaxConnections

QueueFits(p, w, cl) ==
  /\ w \in Seq(Caller) /\ Len(w) <= MaxQueue
  /\ \A c \in ToSet(w) : Waits(cl[c])
  /\ \A c \in ToSet(w), s \in ToSet(p.list) :
       ~(p.ent[s].phase = "Idle" /\ p.ent[s].origin = cl[c].origin)

Fits(ph, p, w, cl) ==
  ph \in Phases /\ PoolFits(ph, p) /\ CallsFit(ph, p, cl) /\ QueueFits(p, w, cl)

\* The requests in progress are counted; whoever waits for them in Shutdown has something to
\* wait for.
Busy(cl) == { c \in Caller : cl[c].pc # "idle" }
EndsFit ==
  /\ shut \in {"none", "check", "asleep"} /\ drained \in BOOLEAN
  /\ inflight = Cardinality(Busy(call))
  /\ shut # "none" \/ drained => phase # "Open"
  /\ drained => inflight = 0
  /\ shut = "asleep" => inflight > 0 /\ phase # "Closed"

\* The inductive invariant.
PoolInv == Fits(phase, pool, waiters, call) /\ EndsFit

-----------------------------------------------------------------------------
(***************************************************************************)
(* Constants, and what the invariant says.                                 *)
(***************************************************************************)

LEMMA SlotFacts ==
  ASSUME PoolConstants
  PROVE  /\ 0 \notin Slot /\ IsFiniteSet(Slot) /\ Slot \subseteq Nat
         /\ MaxConnections \in Nat \ {0} /\ MaxKeepalive \in Nat /\ MaxQueue \in Nat
         /\ Cardinality(Caller) \in Nat /\ IsFiniteSet(Caller)
         /\ Cardinality(Slot) = MaxConnections + Cardinality(Caller)
         /\ NoOrigin \notin Origin
<1>1. /\ MaxConnections \in Nat \ {0} /\ MaxKeepalive \in Nat /\ MaxQueue \in Nat
      /\ IsFiniteSet(Caller) /\ NoOrigin \notin Origin
  BY DEF PoolConstants
<1>2. Cardinality(Caller) \in Nat
  BY <1>1, FS_CardinalityType
<1> DEFINE n == MaxConnections + Cardinality(Caller)
<1>3. n \in Nat /\ n - 1 + 1 = n
  BY <1>1, <1>2
<1>4. Slot = 1 .. n
  BY DEF Slot
<1> HIDE DEF n
<1>5. IsFiniteSet(1 .. n) /\ Cardinality(1 .. n) = n
  BY <1>3, FS_Interval
<1>6. 0 \notin Slot /\ Slot \subseteq Nat
  BY <1>3, <1>4
<1> QED BY <1>1, <1>2, <1>4, <1>5, <1>6 DEF n

\* Sets of callers and of slots can be counted.
LEMMA CallersCount ==
  ASSUME PoolConstants, NEW S \in SUBSET Caller
  PROVE  IsFiniteSet(S) /\ Cardinality(S) \in Nat
BY SlotFacts, FS_Subset, FS_CardinalityType

LEMMA SlotsCount ==
  ASSUME PoolConstants, NEW S \in SUBSET Slot
  PROVE  IsFiniteSet(S) /\ Cardinality(S) \in Nat
BY SlotFacts, FS_Subset, FS_CardinalityType

LEMMA FewerSlots ==
  ASSUME PoolConstants, NEW S \in SUBSET Slot, NEW T \in SUBSET S, NEW n \in Nat,
         Cardinality(S) <= n
  PROVE  Cardinality(T) <= n
<1>1. IsFiniteSet(S) /\ Cardinality(S) \in Nat /\ Cardinality(T) \in Nat
  BY SlotsCount
<1>2. Cardinality(T) <= Cardinality(S)
  BY <1>1, FS_Subset
<1> QED BY <1>1, <1>2

LEMMA PoolProperties ==
  ASSUME PoolConstants, PoolInv
  PROVE  PoolExact /\ PoolEnds
<1>1. /\ phase \in Phases /\ PoolFits(phase, pool) /\ CallsFit(phase, pool, call)
      /\ QueueFits(pool, waiters, call) /\ EndsFit
  BY DEF PoolInv, Fits
<1>2. /\ inflight = Cardinality(Busy(call)) /\ IsFiniteSet(Busy(call)) /\ inflight \in Nat
      /\ shut \in {"none", "check", "asleep"} /\ drained \in BOOLEAN
  BY <1>1, CallersCount DEF EndsFit, Busy
<1>3. /\ pool \in PoolState /\ pool.list \in Seq(Slot) /\ pool.ent \in [Slot -> EntryType]
      /\ call \in [Caller -> CallState]
  BY <1>1 DEF PoolFits, CallsFit, PoolState
<1>4. TypeOK
  <2>1. Cardinality({ s \in Slot : pool.ent[s].phase = "Idle" }) <= MaxKeepalive
    BY <1>1 DEF PoolFits, IdleOf
  <2> QED BY <1>1, <1>2, <1>3, <2>1 DEF TypeOK, Phases, QueueFits, CallState
<1>5. ToSet(pool.list) \subseteq Slot
  BY <1>3 DEF ToSet
<1>6. ExclusiveUse
  <2> SUFFICES ASSUME NEW s \in ToSet(pool.list)
               PROVE  /\ Cardinality(Users(s)) <= 1
                      /\ pool.ent[s].phase = "Idle" => Users(s) = {}
                      /\ pool.ent[s].phase = "Active" => Users(s) # {}
    BY DEF ExclusiveUse
  <2>1. s \in Slot /\ s # 0 /\ UseFits(pool, call, s)
    BY <1>1, <1>5, SlotFacts DEF CallsFit
  <2>2. \A c, d \in Users(s) : c = d
    BY <1>1, <2>1 DEF Users, CallsFit, Alone
  <2>3. Cardinality(Users(s)) <= 1
    <3>1. CASE Users(s) = {}
      BY <3>1, FS_EmptySet
    <3>2. CASE Users(s) # {}
      <4>1. PICK c \in Users(s) : TRUE
        BY <3>2
      <4>2. Users(s) = {c}
        BY <2>2, <4>1
      <4>3. Cardinality({c}) = 1
        BY FS_Singleton
      <4> QED BY <4>2, <4>3
    <3> QED BY <3>1, <3>2
  <2> QED BY <2>1, <2>3 DEF UseFits, Users
<1>7. PhysicalBudget
  <2>1. { s \in Slot : \/ pool.ent[s].net \in {"up", "closing", "failing"}
                       \/ \E c \in Caller : At(c, "dial") /\ call[c].slot = s }
        = Physical(pool, call)
    BY Zenon DEF Physical, DialOf, At, Live
  <2> QED BY <1>1, <2>1 DEF PhysicalBudget, CallsFit
<1>8. WaitersFirst
  BY <1>1 DEF WaitersFirst, QueueFits
<1>9. CloseReachesAll
  BY <1>1 DEF CloseReachesAll, PoolFits, EntryFits
<1>10. DrainIsFinal
  <2>1. SUFFICES ASSUME drained PROVE inflight = 0 /\ \A c \in Caller : At(c, "idle")
    BY DEF DrainIsFinal
  <2>2. inflight = 0
    BY <1>1, <2>1 DEF EndsFit
  <2>3. Busy(call) = {}
    BY <1>2, <2>2, FS_EmptySet
  <2> QED BY <2>2, <2>3 DEF Busy, At
<1>11. ShutdownNotStranded
  BY <1>1 DEF ShutdownNotStranded, EndsFit
<1> QED BY <1>4, <1>6, <1>7, <1>8, <1>9, <1>10, <1>11 DEF PoolExact, PoolEnds

-----------------------------------------------------------------------------
(***************************************************************************)
(* The parts of a step.                                                    *)
(***************************************************************************)

\* The list of a pool.
LEMMA PoolLists ==
  ASSUME NEW p \in PoolState
  PROVE  /\ p.list \in Seq(Slot) /\ Len(p.list) \in Nat /\ ToSet(p.list) \subseteq Slot
         /\ p.ent \in [Slot -> EntryType]
<1>1. p.list \in Seq(Slot) /\ p.ent \in [Slot -> EntryType]
  BY DEF PoolState
<1> QED BY <1>1 DEF ToSet

\* Nothing begins: no entry becomes idle or active, none comes to life.  What leaves the
\* list is at its end.
QuieterEntry(p, q, s) ==
  /\ q.ent[s].phase \in {"Idle", "Active"} =>
       q.ent[s].phase = p.ent[s].phase /\ q.ent[s].origin = p.ent[s].origin
  /\ q.ent[s].net \in Live => p.ent[s].net \in Live
  /\ s \notin ToSet(q.list) => \/ q.ent[s] = p.ent[s] /\ s \notin ToSet(p.list)
                               \/ /\ q.ent[s].phase \in {"Freed", "Retiring"}
                                  /\ q.ent[s].net \notin Live
Quieter(p, q) ==
  /\ q \in PoolState /\ ToSet(q.list) \subseteq ToSet(p.list) /\ Len(q.list) <= Len(p.list)
  /\ \A s \in Slot : QuieterEntry(p, q, s)

\* Until the Close dialling entries stay as long as somebody dials, after it nothing is up.
ClosesRightly(ph, p, q, cl) ==
  /\ ph # "Closed" => \A s \in ToSet(p.list) :
       p.ent[s].phase = "Dialing" /\ DialOf(cl, s) => q.ent[s].phase = "Dialing" /\ s \in ToSet(q.list)
  /\ ph = "Closed" => \A s \in Slot : q.ent[s].net # "up"

LEMMA QuieterKeeps ==
  ASSUME PoolConstants, NEW ph, NEW ph2 \in Phases, ph = "Closed" => ph2 = "Closed",
         NEW p, NEW q, NEW w, NEW cl, Fits(ph, p, w, cl), Quieter(p, q), ClosesRightly(ph2, p, q, cl)
  PROVE  Fits(ph2, q, w, cl)
<1>1. PoolFits(ph, p) /\ CallsFit(ph, p, cl) /\ QueueFits(p, w, cl)
  BY DEF Fits
<1>2. /\ q \in PoolState /\ ToSet(q.list) \subseteq ToSet(p.list) /\ Len(q.list) <= Len(p.list)
      /\ p \in PoolState /\ Len(p.list) \in Nat /\ Len(q.list) \in Nat
      /\ ToSet(p.list) \subseteq Slot
  <2>1. /\ q \in PoolState /\ ToSet(q.list) \subseteq ToSet(p.list) /\ Len(q.list) <= Len(p.list)
        /\ p \in PoolState
    BY <1>1 DEF Quieter, PoolFits
  <2> QED BY <2>1, PoolLists
<1>3. \A s \in Slot : QuieterEntry(p, q, s)
  BY DEF Quieter
<1>4. PoolFits(ph2, q)
  <2>1. Len(q.list) <= MaxConnections
    BY <1>1, <1>2, SlotFacts DEF PoolFits
  <2>2. IdleOf(q) \subseteq IdleOf(p) /\ IdleOf(p) \subseteq Slot
    BY <1>3 DEF QuieterEntry, IdleOf
  <2>3. Cardinality(IdleOf(q)) <= MaxKeepalive
    <3>1. Cardinality(IdleOf(p)) <= MaxKeepalive
      BY <1>1 DEF PoolFits
    <3> QED BY <2>2, <3>1, FewerSlots, SlotFacts
  <2>4. ASSUME NEW s \in Slot PROVE EntryFits(ph2, q, s)
    <3>1. EntryFits(ph, p, s) /\ QuieterEntry(p, q, s)
      BY <1>1, <1>3 DEF PoolFits
    <3>2. ph2 = "Closed" => q.ent[s].net # "up"
      BY DEF ClosesRightly
    <3> QED BY <3>1, <3>2 DEF EntryFits, QuieterEntry
  <2> QED BY <1>2, <2>1, <2>3, <2>4 DEF PoolFits
<1>5. CallsFit(ph2, q, cl)
  <2>1. ASSUME NEW c \in Caller PROVE Pointing(cl[c]) /\ DialFits(ph2, q, cl[c]) /\ Alone(cl, c)
    <3>1. Pointing(cl[c]) /\ DialFits(ph, p, cl[c]) /\ Alone(cl, c)
      BY <1>1 DEF CallsFit
    <3>2. DialFits(ph2, q, cl[c])
      BY <3>1 DEF DialFits, ClosesRightly, DialOf
    <3> QED BY <3>1, <3>2
  <2>2. ASSUME NEW s \in Slot PROVE UseFits(q, cl, s)
    <3>1. UseFits(p, cl, s) /\ QuieterEntry(p, q, s)
      BY <1>1, <1>3 DEF CallsFit
    <3> QED BY <3>1 DEF UseFits, QuieterEntry
  <2>3. Cardinality(Physical(q, cl)) <= MaxConnections
    <3>1. Physical(q, cl) \subseteq Physical(p, cl) /\ Physical(p, cl) \subseteq Slot
      BY <1>3 DEF Physical, QuieterEntry
    <3>2. Cardinality(Physical(p, cl)) <= MaxConnections
      BY <1>1 DEF CallsFit
    <3> QED BY <3>1, <3>2, FewerSlots, SlotFacts
  <2> QED BY <1>1, <2>1, <2>2, <2>3 DEF CallsFit
<1>6. QueueFits(q, w, cl)
  <2>1. ASSUME NEW c \in ToSet(w), NEW s \in ToSet(q.list)
        PROVE  ~(q.ent[s].phase = "Idle" /\ q.ent[s].origin = cl[c].origin)
    <3>1. s \in ToSet(p.list) /\ s \in Slot
      BY <1>2
    <3>2. ~(p.ent[s].phase = "Idle" /\ p.ent[s].origin = cl[c].origin)
      BY <1>1, <3>1 DEF QueueFits
    <3> QED BY <1>3, <3>1, <3>2 DEF QuieterEntry
  <2> QED BY <1>1, <2>1 DEF QueueFits
<1> QED BY <1>4, <1>5, <1>6 DEF Fits

\* Calls go on without a new entry.  One that is given up is not active any more; a caller
\* in the queue was in it before, or finds no idle connection of its origin.
CallGoesOn(p, old, r) ==
  /\ r \in CallState /\ Pointing(r) /\ (r.pc = "dial" => old.pc = "dial")
  /\ \/ r.slot = old.slot /\ (old.pc = "dial" => r.pc = "dial")
     \/ r.slot = 0 /\ (old.slot \in Slot => p.ent[old.slot].phase # "Active")
StaysInQueue(p, w, cl, r, c) ==
  /\ Waits(r)
  /\ \/ c \in ToSet(w) /\ r.origin = cl[c].origin
     \/ \A s \in ToSet(p.list) : ~(p.ent[s].phase = "Idle" /\ p.ent[s].origin = r.origin)

LEMMA CallsGoOn ==
  ASSUME PoolConstants, NEW ph, NEW p, NEW w, NEW cl, Fits(ph, p, w, cl),
         NEW cl2 \in [Caller -> CallState], NEW w2 \in Seq(Caller), Len(w2) <= MaxQueue,
         \A c \in Caller : CallGoesOn(p, cl[c], cl2[c]),
         \A c \in ToSet(w2) : StaysInQueue(p, w, cl, cl2[c], c)
  PROVE  Fits(ph, p, w2, cl2)
<1>1. PoolFits(ph, p) /\ CallsFit(ph, p, cl) /\ QueueFits(p, w, cl) /\ ph \in Phases
  BY DEF Fits
<1>2. CallsFit(ph, p, cl2)
  <2>1. ASSUME NEW c \in Caller PROVE Pointing(cl2[c]) /\ DialFits(ph, p, cl2[c]) /\ Alone(cl2, c)
    <3>1. /\ Pointing(cl[c]) /\ DialFits(ph, p, cl[c]) /\ Alone(cl, c)
          /\ CallGoesOn(p, cl[c], cl2[c])
      BY <1>1 DEF CallsFit
    <3>2. Pointing(cl2[c]) /\ DialFits(ph, p, cl2[c])
      BY <3>1 DEF CallGoesOn, DialFits, Pointing
    <3>3. ASSUME NEW d \in Caller, d # c, cl2[d].slot = cl2[c].slot PROVE cl2[c].slot = 0
      <4>1. CallGoesOn(p, cl[d], cl2[d])
        OBVIOUS
      <4> QED BY <3>1, <3>3, <4>1 DEF CallGoesOn, Alone
    <3> QED BY <3>2, <3>3 DEF Alone
  <2>2. ASSUME NEW s \in Slot PROVE UseFits(p, cl2, s)
    <3>1. UseFits(p, cl, s) /\ s # 0
      BY <1>1, SlotFacts DEF CallsFit
    <3>2. ASSUME p.ent[s].phase = "Idle", NEW c \in Caller PROVE cl2[c].slot # s
      <4>1. cl[c].slot # s /\ CallGoesOn(p, cl[c], cl2[c])
        BY <3>1, <3>2 DEF UseFits
      <4> QED BY <3>1, <4>1 DEF CallGoesOn
    <3>3. ASSUME p.ent[s].phase = "Active"
          PROVE  \E c \in Caller : cl2[c].slot = s /\ cl2[c].pc # "dial"
      <4>1. PICK c \in Caller : cl[c].slot = s /\ cl[c].pc # "dial"
        BY <3>1, <3>3 DEF UseFits
      <4>2. CallGoesOn(p, cl[c], cl2[c])
        OBVIOUS
      <4> QED BY <3>3, <4>1, <4>2 DEF CallGoesOn
    <3> QED BY <3>2, <3>3 DEF UseFits
  <2>3. Cardinality(Physical(p, cl2)) <= MaxConnections
    <3>1. ASSUME NEW s \in Physical(p, cl2) PROVE s \in Physical(p, cl)
      <4>1. CASE p.ent[s].net \in Live
        BY <4>1 DEF Physical
      <4>2. CASE DialOf(cl2, s)
        <5>1. PICK c \in Caller : cl2[c].pc = "dial" /\ cl2[c].slot = s
          BY <4>2 DEF DialOf
        <5>2. CallGoesOn(p, cl[c], cl2[c]) /\ s # 0 /\ s \in Slot
          BY SlotFacts DEF Physical
        <5>3. cl[c].pc = "dial" /\ cl[c].slot = s
          BY <5>1, <5>2 DEF CallGoesOn
        <5> QED BY <5>2, <5>3 DEF Physical, DialOf
      <4> QED BY <4>1, <4>2 DEF Physical
    <3>2. Cardinality(Physical(p, cl)) <= MaxConnections /\ Physical(p, cl) \subseteq Slot
      BY <1>1 DEF CallsFit, Physical
    <3> QED BY <3>1, <3>2, FewerSlots, SlotFacts
  <2> QED BY <2>1, <2>2, <2>3 DEF CallsFit
<1>3. QueueFits(p, w2, cl2)
  <2>1. ASSUME NEW c \in ToSet(w2) PROVE Waits(cl2[c])
    BY DEF StaysInQueue
  <2>2. ASSUME NEW c \in ToSet(w2), NEW s \in ToSet(p.list)
        PROVE  ~(p.ent[s].phase = "Idle" /\ p.ent[s].origin = cl2[c].origin)
    <3>1. StaysInQueue(p, w, cl, cl2[c], c)
      OBVIOUS
    <3> QED BY <1>1, <3>1 DEF StaysInQueue, QueueFits
  <2> QED BY <2>1, <2>2 DEF QueueFits
<1> QED BY <1>1, <1>2, <1>3 DEF Fits

\* An entry of the list is set.
EntrySet(p, s, e) == [p EXCEPT !.ent[s] = e]

LEMMA EntrySets ==
  ASSUME NEW p \in PoolState, NEW s \in Slot, NEW e \in EntryType
  PROVE  /\ EntrySet(p, s, e) \in PoolState /\ EntrySet(p, s, e).list = p.list
         /\ EntrySet(p, s, e).ent[s] = e
         /\ \A t \in Slot : t # s => EntrySet(p, s, e).ent[t] = p.ent[t]
BY DEF EntrySet, PoolState

\* c has a new entry, or none; the others go on, or give up the entry s.
Dropped(cl, cl2, s, d) ==
  /\ cl2[d].slot = 0 /\ Pointing(cl2[d]) /\ cl2[d].pc # "dial"
  /\ cl[d].slot \in {0, s} /\ cl[d].pc # "dial"
OthersGoOn(cl, cl2, s, d) ==
  \/ cl2[d] = cl[d] /\ cl[d].slot # s
  \/ Dropped(cl, cl2, s, d)

\* No caller dials who did not: what exists stays within the budget.
LEMMA BudgetKeeps ==
  ASSUME PoolConstants, NEW p, NEW q, NEW cl, NEW cl2,
         Cardinality(Physical(p, cl)) <= MaxConnections,
         \A s \in Slot : q.ent[s].net \in Live => s \in Physical(p, cl),
         \A c \in Caller : cl2[c].pc = "dial" => cl[c].pc = "dial" /\ cl[c].slot = cl2[c].slot
  PROVE  Cardinality(Physical(q, cl2)) <= MaxConnections
<1>1. Physical(q, cl2) \subseteq Physical(p, cl)
  <2> SUFFICES ASSUME NEW s \in Physical(q, cl2) PROVE s \in Physical(p, cl)
    OBVIOUS
  <2>1. s \in Slot /\ (q.ent[s].net \in Live \/ DialOf(cl2, s))
    BY DEF Physical
  <2>2. DialOf(cl2, s) => DialOf(cl, s)
    BY DEF DialOf
  <2>3. DialOf(cl, s) => s \in Physical(p, cl)
    BY <2>1 DEF Physical
  <2> QED BY <2>1, <2>2, <2>3
<1>2. Physical(p, cl) \subseteq Slot
  BY DEF Physical
<1> QED BY <1>1, <1>2, FewerSlots, SlotFacts

\* Only the entry s of the list changes, and it does not become idle.
LEMMA EntryChanges ==
  ASSUME PoolConstants, NEW ph, NEW p, NEW s \in Slot, NEW e \in EntryType, PoolFits(ph, p),
         e.phase \in {"Active", "Retiring"}, e.phase = "Active" => s \in ToSet(p.list),
         s \in ToSet(p.list) \/ ph = "Closed", ph = "Closed" => e.net # "up"
  PROVE  PoolFits(ph, EntrySet(p, s, e))
<1>1. p \in PoolState /\ Len(p.list) <= MaxConnections /\ Cardinality(IdleOf(p)) <= MaxKeepalive
  BY DEF PoolFits
<1> DEFINE q == EntrySet(p, s, e)
<1>2. /\ q \in PoolState /\ q.list = p.list /\ q.ent[s] = e
      /\ \A t \in Slot : t # s => q.ent[t] = p.ent[t]
  BY <1>1, EntrySets
<1> HIDE DEF q
<1>3. IdleOf(q) \subseteq IdleOf(p) /\ IdleOf(p) \subseteq Slot
  BY <1>2 DEF IdleOf
<1>4. Cardinality(IdleOf(q)) <= MaxKeepalive
  BY <1>1, <1>3, FewerSlots, SlotFacts
<1>5. ASSUME NEW t \in Slot PROVE EntryFits(ph, q, t)
  <2>1. EntryFits(ph, p, t)
    BY DEF PoolFits
  <2>2. CASE t = s
    BY <1>2, <2>2 DEF EntryFits
  <2>3. CASE t # s
    BY <1>2, <2>1, <2>3 DEF EntryFits
  <2> QED BY <2>2, <2>3
<1>6. PoolFits(ph, q)
  BY <1>1, <1>2, <1>4, <1>5 DEF PoolFits
<1> QED BY <1>6 DEF q

\* An entry is taken from the idle ones, or handed over by its user.
LEMMA EntryTaken ==
  ASSUME PoolConstants, NEW ph, NEW p, NEW w, NEW cl, Fits(ph, p, w, cl),
         NEW s \in ToSet(p.list), NEW c \in Caller, cl[c].slot = 0,
         NEW cl2 \in [Caller -> CallState], cl2[c].slot = s, cl2[c].pc \in {"added", "lease", "parked", "sliced"},
         \A d \in Caller : d # c => OthersGoOn(cl, cl2, s, d),
         NEW w2 \in Seq(Caller), Len(w2) <= MaxQueue,
         \A d \in ToSet(w2) : d \in ToSet(w) /\ cl2[d] = cl[d]
  PROVE  Fits(ph, SetPhase(p, s, "Active"), w2, cl2)
<1>1. PoolFits(ph, p) /\ CallsFit(ph, p, cl) /\ QueueFits(p, w, cl) /\ ph \in Phases
  BY DEF Fits
<1>2. p \in PoolState /\ s \in Slot /\ s # 0
  BY <1>1, PoolLists, SlotFacts DEF PoolFits
<1> DEFINE e == [p.ent[s] EXCEPT !.phase = "Active"]
           q == EntrySet(p, s, e)
<1>3. p.ent[s] \in EntryType
  BY <1>2, PoolLists
<1>4. e \in EntryType /\ e.phase = "Active" /\ e.net = p.ent[s].net
  BY <1>3 DEF EntryType
<1>5. SetPhase(p, s, "Active") = q
  <2>1. s \in DOMAIN p.ent /\ p = [list |-> p.list, ent |-> p.ent]
    BY <1>2 DEF PoolState
  <2> QED BY <2>1 DEF SetPhase, EntrySet
<1> HIDE DEF e
<1>6. /\ q \in PoolState /\ q.list = p.list /\ q.ent[s] = e
      /\ \A t \in Slot : t # s => q.ent[t] = p.ent[t]
  BY <1>2, <1>4, EntrySets
<1>7. PoolFits(ph, q)
  <2>1. EntryFits(ph, p, s)
    BY <1>1, <1>2 DEF PoolFits
  <2>2. ph = "Closed" => e.net # "up"
    BY <1>4, <2>1 DEF EntryFits
  <2> QED BY <1>1, <1>2, <1>4, <2>2, EntryChanges
<1> HIDE DEF q
<1>8. CallsFit(ph, q, cl2)
  <2>1. ASSUME NEW d \in Caller PROVE Pointing(cl2[d]) /\ DialFits(ph, q, cl2[d]) /\ Alone(cl2, d)
    <3>1. Pointing(cl[d]) /\ DialFits(ph, p, cl[d]) /\ Alone(cl, d)
      BY <1>1 DEF CallsFit
    <3>2. CASE d = c
      <4>1. Pointing(cl2[d]) /\ DialFits(ph, q, cl2[d])
        BY <1>2, <3>2 DEF Pointing, DialFits
      <4>2. ASSUME NEW x \in Caller, x # c PROVE cl2[x].slot # s
        <5>1. OthersGoOn(cl, cl2, s, x)
          BY <4>2
        <5> QED BY <1>2, <5>1 DEF OthersGoOn, Dropped
      <4> QED BY <3>2, <4>1, <4>2 DEF Alone
    <3>3. CASE d # c
      <4>1. OthersGoOn(cl, cl2, s, d)
        BY <3>3
      <4>2. Pointing(cl2[d])
        BY <3>1, <4>1 DEF OthersGoOn, Dropped
      <4>3. DialFits(ph, q, cl2[d])
        <5>1. SUFFICES ASSUME cl2[d].pc = "dial", ph # "Closed"
                       PROVE cl2[d].slot \in ToSet(q.list) /\ q.ent[cl2[d].slot].phase = "Dialing"
          BY DEF DialFits
        <5>2. cl2[d] = cl[d] /\ cl[d].slot # s
          BY <4>1, <5>1 DEF OthersGoOn, Dropped
        <5>3. cl[d].slot \in ToSet(p.list) /\ p.ent[cl[d].slot].phase = "Dialing"
          BY <3>1, <5>1, <5>2 DEF DialFits
        <5>4. cl[d].slot \in Slot
          BY <1>2, <5>3, PoolLists
        <5> QED BY <1>6, <5>2, <5>3, <5>4
      <4>4. ASSUME NEW x \in Caller, x # d, cl2[x].slot = cl2[d].slot PROVE cl2[d].slot = 0
        <5>1. CASE x = c
          BY <1>2, <4>1, <4>4, <5>1 DEF OthersGoOn, Dropped
        <5>2. CASE x # c
          <6>1. OthersGoOn(cl, cl2, s, x)
            BY <5>2
          <6> QED BY <3>1, <4>1, <4>4, <6>1 DEF OthersGoOn, Dropped, Alone
        <5> QED BY <5>1, <5>2
      <4> QED BY <4>2, <4>3, <4>4 DEF Alone
    <3> QED BY <3>2, <3>3
  <2>2. ASSUME NEW t \in Slot PROVE UseFits(q, cl2, t)
    <3>1. UseFits(p, cl, t) /\ t # 0
      BY <1>1, SlotFacts DEF CallsFit
    <3>2. CASE t = s
      BY <1>4, <1>6, <3>2, Zenon DEF UseFits
    <3>3. CASE t # s
      <4>1. q.ent[t] = p.ent[t]
        BY <1>6, <3>3
      <4>2. ASSUME q.ent[t].phase = "Idle", NEW d \in Caller PROVE cl2[d].slot # t
        <5>1. cl[d].slot # t
          BY <3>1, <4>1, <4>2 DEF UseFits
        <5>2. CASE d = c
          BY <3>3, <5>2
        <5>3. CASE d # c
          <6>1. OthersGoOn(cl, cl2, s, d)
            BY <5>3
          <6> QED BY <3>1, <5>1, <6>1 DEF OthersGoOn, Dropped
        <5> QED BY <5>2, <5>3
      <4>3. ASSUME q.ent[t].phase = "Active"
            PROVE  \E d \in Caller : cl2[d].slot = t /\ cl2[d].pc # "dial"
        <5>1. PICK d \in Caller : cl[d].slot = t /\ cl[d].pc # "dial"
          BY <3>1, <4>1, <4>3 DEF UseFits
        <5>2. OthersGoOn(cl, cl2, s, d)
          BY <3>1, <5>1
        <5>3. cl2[d] = cl[d]
          BY <3>1, <3>3, <5>1, <5>2 DEF OthersGoOn, Dropped
        <5> QED BY <5>1, <5>3
      <4> QED BY <4>2, <4>3 DEF UseFits
    <3> QED BY <3>2, <3>3
  <2>3. Cardinality(Physical(q, cl2)) <= MaxConnections
    <3>1. \A t \in Slot : q.ent[t].net \in Live => t \in Physical(p, cl)
      BY <1>4, <1>6 DEF Physical
    <3>2. \A d \in Caller : cl2[d].pc = "dial" => cl[d].pc = "dial" /\ cl[d].slot = cl2[d].slot
      BY DEF OthersGoOn, Dropped
    <3>3. Cardinality(Physical(p, cl)) <= MaxConnections
      BY <1>1 DEF CallsFit
    <3> QED BY <3>1, <3>2, <3>3, BudgetKeeps
  <2> QED BY <2>1, <2>2, <2>3 DEF CallsFit
<1>9. QueueFits(q, w2, cl2)
  <2>1. ASSUME NEW d \in ToSet(w2), NEW t \in ToSet(q.list)
        PROVE  ~(q.ent[t].phase = "Idle" /\ q.ent[t].origin = cl2[d].origin)
    <3>1. d \in ToSet(w) /\ cl2[d] = cl[d] /\ t \in Slot /\ t \in ToSet(p.list)
      BY <1>2, <1>6, PoolLists
    <3>2. ~(p.ent[t].phase = "Idle" /\ p.ent[t].origin = cl[d].origin)
      BY <1>1, <3>1 DEF QueueFits
    <3> QED BY <1>4, <1>6, <3>1, <3>2
  <2> QED BY <1>1, <2>1 DEF QueueFits
<1> QED BY <1>1, <1>5, <1>7, <1>8, <1>9 DEF Fits

\* The phase of an entry is set.
LEMMA PhaseSet ==
  ASSUME NEW p \in PoolState, NEW s \in Slot,
         NEW ph \in {"Freed", "Dialing", "Active", "Idle", "Retiring"}
  PROVE  /\ SetPhase(p, s, ph) = EntrySet(p, s, [p.ent[s] EXCEPT !.phase = ph])
         /\ [p.ent[s] EXCEPT !.phase = ph] \in EntryType
         /\ [p.ent[s] EXCEPT !.phase = ph].phase = ph
         /\ [p.ent[s] EXCEPT !.phase = ph].net = p.ent[s].net
         /\ [p.ent[s] EXCEPT !.phase = ph].origin = p.ent[s].origin
<1>1. p.ent[s] \in EntryType
  BY PoolLists
<1>2. s \in DOMAIN p.ent /\ p = [list |-> p.list, ent |-> p.ent]
  BY DEF PoolState
<1>3. SetPhase(p, s, ph) = EntrySet(p, s, [p.ent[s] EXCEPT !.phase = ph])
  BY <1>2 DEF SetPhase, EntrySet
<1> QED BY <1>1, <1>3 DEF EntryType

\* A connection that nobody waits for goes to the idle ones, and its user leaves it.
LEMMA EntryIdles ==
  ASSUME PoolConstants, NEW p, NEW w, NEW cl, Fits("Open", p, w, cl),
         NEW s \in ToSet(p.list), Cardinality(IdleOf(p)) < MaxKeepalive,
         NEW cl2 \in [Caller -> CallState],
         \A d \in Caller : OthersGoOn(cl, cl2, s, d),
         NEW w2 \in Seq(Caller), Len(w2) <= MaxQueue,
         \A d \in ToSet(w2) : /\ d \in ToSet(w) /\ cl2[d] = cl[d]
                              /\ cl[d].origin # p.ent[s].origin
  PROVE  Fits("Open", SetPhase(p, s, "Idle"), w2, cl2)
<1>1. PoolFits("Open", p) /\ CallsFit("Open", p, cl) /\ QueueFits(p, w, cl)
  BY DEF Fits
<1>2. p \in PoolState /\ s \in Slot /\ s # 0 /\ Len(p.list) <= MaxConnections
  BY <1>1, PoolLists, SlotFacts DEF PoolFits
<1> DEFINE e == [p.ent[s] EXCEPT !.phase = "Idle"]
           q == EntrySet(p, s, e)
<1>3. /\ SetPhase(p, s, "Idle") = q /\ e \in EntryType /\ e.phase = "Idle"
      /\ e.net = p.ent[s].net /\ e.origin = p.ent[s].origin
  <2>1. p.ent[s] \in EntryType
    BY <1>2, PoolLists
  <2>2. /\ e \in EntryType /\ e.phase = "Idle"
        /\ e.net = p.ent[s].net /\ e.origin = p.ent[s].origin
    BY <2>1 DEF EntryType
  <2>3. SetPhase(p, s, "Idle") = q
    <3>1. s \in DOMAIN p.ent /\ p = [list |-> p.list, ent |-> p.ent]
      BY <1>2 DEF PoolState
    <3> QED BY <3>1 DEF SetPhase, EntrySet
  <2> QED BY <2>2, <2>3
<1> HIDE DEF e
<1>4. /\ q \in PoolState /\ q.list = p.list /\ q.ent[s] = e
      /\ \A t \in Slot : t # s => q.ent[t] = p.ent[t]
  BY <1>2, <1>3, EntrySets
<1> HIDE DEF q
<1>5. PoolFits("Open", q)
  <2>1. IdleOf(q) \subseteq IdleOf(p) \cup {s} /\ IdleOf(p) \cup {s} \subseteq Slot
    BY <1>2, <1>4 DEF IdleOf
  <2>2. Cardinality(IdleOf(p) \cup {s}) <= MaxKeepalive
    <3>1. IsFiniteSet(IdleOf(p)) /\ Cardinality(IdleOf(p)) \in Nat /\ MaxKeepalive \in Nat
      BY SlotsCount, SlotFacts DEF IdleOf
    <3>2. \/ Cardinality(IdleOf(p) \cup {s}) = Cardinality(IdleOf(p)) + 1
          \/ Cardinality(IdleOf(p) \cup {s}) = Cardinality(IdleOf(p))
      BY <3>1, FS_AddElement
    <3> QED BY <3>1, <3>2
  <2>3. Cardinality(IdleOf(q)) <= MaxKeepalive
    BY <2>1, <2>2, FewerSlots, SlotFacts
  <2>4. ASSUME NEW t \in Slot PROVE EntryFits("Open", q, t)
    <3>1. EntryFits("Open", p, t)
      BY <1>1 DEF PoolFits
    <3> QED BY <1>4, <3>1 DEF EntryFits
  <2> QED BY <1>2, <1>4, <2>3, <2>4 DEF PoolFits
<1>6. CallsFit("Open", q, cl2)
  <2>1. ASSUME NEW d \in Caller
        PROVE Pointing(cl2[d]) /\ DialFits("Open", q, cl2[d]) /\ Alone(cl2, d)
    <3>1. /\ Pointing(cl[d]) /\ DialFits("Open", p, cl[d]) /\ Alone(cl, d)
          /\ OthersGoOn(cl, cl2, s, d)
      BY <1>1 DEF CallsFit
    <3>2. Pointing(cl2[d])
      BY <3>1 DEF OthersGoOn, Dropped
    <3>3. DialFits("Open", q, cl2[d])
      <4>1. SUFFICES ASSUME cl2[d].pc = "dial"
                     PROVE cl2[d].slot \in ToSet(q.list) /\ q.ent[cl2[d].slot].phase = "Dialing"
        BY DEF DialFits
      <4>2. cl2[d] = cl[d] /\ cl[d].slot # s
        BY <3>1, <4>1 DEF OthersGoOn, Dropped
      <4>3. cl[d].slot \in ToSet(p.list) /\ p.ent[cl[d].slot].phase = "Dialing"
        BY <3>1, <4>1, <4>2 DEF DialFits
      <4>4. cl[d].slot \in Slot
        BY <1>2, <4>3, PoolLists
      <4> QED BY <1>4, <4>2, <4>3, <4>4
    <3>4. ASSUME NEW x \in Caller, x # d, cl2[x].slot = cl2[d].slot PROVE cl2[d].slot = 0
      <4>1. OthersGoOn(cl, cl2, s, x)
        OBVIOUS
      <4> QED BY <3>1, <3>4, <4>1 DEF OthersGoOn, Dropped, Alone
    <3> QED BY <3>2, <3>3, <3>4 DEF Alone
  <2>2. ASSUME NEW t \in Slot PROVE UseFits(q, cl2, t)
    <3>1. UseFits(p, cl, t) /\ t # 0
      BY <1>1, SlotFacts DEF CallsFit
    <3>2. CASE t = s
      <4>1. ASSUME NEW d \in Caller PROVE cl2[d].slot # s
        <5>1. OthersGoOn(cl, cl2, s, d)
          OBVIOUS
        <5> QED BY <1>2, <5>1 DEF OthersGoOn, Dropped
      <4> QED BY <1>3, <1>4, <3>2, <4>1 DEF UseFits
    <3>3. CASE t # s
      <4>1. q.ent[t] = p.ent[t]
        BY <1>4, <3>3
      <4>2. ASSUME q.ent[t].phase = "Idle", NEW d \in Caller PROVE cl2[d].slot # t
        <5>1. cl[d].slot # t /\ OthersGoOn(cl, cl2, s, d)
          BY <3>1, <4>1, <4>2 DEF UseFits
        <5> QED BY <3>1, <5>1 DEF OthersGoOn, Dropped
      <4>3. ASSUME q.ent[t].phase = "Active"
            PROVE  \E d \in Caller : cl2[d].slot = t /\ cl2[d].pc # "dial"
        <5>1. PICK d \in Caller : cl[d].slot = t /\ cl[d].pc # "dial"
          BY <3>1, <4>1, <4>3 DEF UseFits
        <5>2. OthersGoOn(cl, cl2, s, d)
          OBVIOUS
        <5>3. cl2[d] = cl[d]
          BY <3>1, <3>3, <5>1, <5>2 DEF OthersGoOn, Dropped
        <5> QED BY <5>1, <5>3
      <4> QED BY <4>2, <4>3 DEF UseFits
    <3> QED BY <3>2, <3>3
  <2>3. Cardinality(Physical(q, cl2)) <= MaxConnections
    <3>1. \A t \in Slot : q.ent[t].net \in Live => t \in Physical(p, cl)
      BY <1>3, <1>4 DEF Physical
    <3>2. \A d \in Caller : cl2[d].pc = "dial" => cl[d].pc = "dial" /\ cl[d].slot = cl2[d].slot
      BY DEF OthersGoOn, Dropped
    <3>3. Cardinality(Physical(p, cl)) <= MaxConnections
      BY <1>1 DEF CallsFit
    <3> QED BY <3>1, <3>2, <3>3, BudgetKeeps
  <2> QED BY <2>1, <2>2, <2>3 DEF CallsFit
<1>7. QueueFits(q, w2, cl2)
  <2>1. ASSUME NEW d \in ToSet(w2), NEW t \in ToSet(q.list)
        PROVE  ~(q.ent[t].phase = "Idle" /\ q.ent[t].origin = cl2[d].origin)
    <3>1. d \in ToSet(w) /\ cl2[d] = cl[d] /\ t \in Slot /\ t \in ToSet(p.list)
      BY <1>2, <1>4, PoolLists
    <3>2. ~(p.ent[t].phase = "Idle" /\ p.ent[t].origin = cl[d].origin)
      BY <1>1, <3>1 DEF QueueFits
    <3> QED BY <1>3, <1>4, <3>1, <3>2
  <2> QED BY <1>1, <2>1 DEF QueueFits
<1> QED BY <1>3, <1>5, <1>6, <1>7 DEF Fits, Phases

\* A dial ends: with a connection that is leased, or with an entry at its end.
LEMMA DialEnds ==
  ASSUME PoolConstants, NEW ph, NEW p, NEW w, NEW cl, Fits(ph, p, w, cl),
         NEW c \in Caller, cl[c].pc = "dial",
         NEW e \in EntryType, ph = "Closed" => e.net # "up",
         NEW cl2 \in [Caller -> CallState], \A d \in Caller : d # c => cl2[d] = cl[d],
         \/ /\ e.phase = "Active" /\ ph # "Closed"
            /\ cl2[c].slot = cl[c].slot /\ cl2[c].pc = "lease"
         \/ e.phase = "Retiring" /\ cl2[c].slot = 0 /\ cl2[c].pc = "fail"
  PROVE  Fits(ph, EntrySet(p, cl[c].slot, e), w, cl2)
<1>1. PoolFits(ph, p) /\ CallsFit(ph, p, cl) /\ QueueFits(p, w, cl) /\ ph \in Phases
  BY DEF Fits
<1> DEFINE s == cl[c].slot
           q == EntrySet(p, s, e)
<1>2. /\ p \in PoolState /\ s \in Slot /\ s # 0
      /\ ph # "Closed" => s \in ToSet(p.list) /\ p.ent[s].phase = "Dialing"
  <2>1. Pointing(cl[c]) /\ DialFits(ph, p, cl[c]) /\ cl[c] \in CallState
    BY <1>1 DEF CallsFit
  <2> QED BY <1>1, <2>1 DEF Pointing, DialFits, PoolFits, CallState
<1> HIDE DEF s
<1>3. /\ q \in PoolState /\ q.list = p.list /\ q.ent[s] = e
      /\ \A t \in Slot : t # s => q.ent[t] = p.ent[t]
  BY <1>2, EntrySets
<1>4. PoolFits(ph, q)
  BY <1>1, <1>2, EntryChanges
<1> HIDE DEF q
<1>5. CallsFit(ph, q, cl2)
  <2>1. ASSUME NEW d \in Caller PROVE Pointing(cl2[d]) /\ DialFits(ph, q, cl2[d]) /\ Alone(cl2, d)
    <3>1. /\ Pointing(cl[d]) /\ DialFits(ph, p, cl[d]) /\ Alone(cl, d) /\ Alone(cl, c)
      BY <1>1 DEF CallsFit
    <3>2. Pointing(cl2[d])
      BY <1>2, <3>1 DEF Pointing, s
    <3>3. DialFits(ph, q, cl2[d])
      <4>1. SUFFICES ASSUME cl2[d].pc = "dial", ph # "Closed"
                     PROVE cl2[d].slot \in ToSet(q.list) /\ q.ent[cl2[d].slot].phase = "Dialing"
        BY DEF DialFits
      <4>2. d # c /\ cl2[d] = cl[d]
        BY <4>1
      <4>3. cl[d].slot # s
        BY <1>2, <3>1, <4>2 DEF Alone, s
      <4>4. cl[d].slot \in ToSet(p.list) /\ p.ent[cl[d].slot].phase = "Dialing"
        BY <3>1, <4>1, <4>2 DEF DialFits
      <4>5. cl[d].slot \in Slot
        BY <1>2, <4>4, PoolLists
      <4> QED BY <1>3, <4>2, <4>3, <4>4, <4>5
    <3>4. ASSUME NEW x \in Caller, x # d, cl2[x].slot = cl2[d].slot PROVE cl2[d].slot = 0
      BY <3>1, <3>4 DEF Alone
    <3> QED BY <3>2, <3>3, <3>4 DEF Alone
  <2>2. ASSUME NEW t \in Slot PROVE UseFits(q, cl2, t)
    <3>1. UseFits(p, cl, t) /\ t # 0
      BY <1>1, SlotFacts DEF CallsFit
    <3>2. CASE t = s
      <4>1. e.phase = "Active" => cl2[c].slot = t /\ cl2[c].pc # "dial"
        BY <3>2 DEF s
      <4>2. e.phase # "Idle"
        OBVIOUS
      <4> QED BY <1>3, <3>2, <4>1, <4>2 DEF UseFits
    <3>3. CASE t # s
      <4>1. q.ent[t] = p.ent[t]
        BY <1>3, <3>3
      <4>2. \A d \in Caller : cl[d].slot = t => d # c /\ cl2[d] = cl[d]
        BY <3>3 DEF s
      <4>3. \A d \in Caller : cl2[d].slot = t => cl[d].slot = t
        BY <3>1, <3>3 DEF s
      <4> QED BY <3>1, <4>1, <4>2, <4>3 DEF UseFits
    <3> QED BY <3>2, <3>3
  <2>3. Cardinality(Physical(q, cl2)) <= MaxConnections
    <3>1. ASSUME NEW t \in Slot, q.ent[t].net \in Live PROVE t \in Physical(p, cl)
      <4>1. CASE t = s
        BY <4>1 DEF Physical, DialOf, s
      <4>2. CASE t # s
        BY <1>3, <3>1, <4>2 DEF Physical
      <4> QED BY <4>1, <4>2
    <3>2. \A d \in Caller : cl2[d].pc = "dial" => cl[d].pc = "dial" /\ cl[d].slot = cl2[d].slot
      OBVIOUS
    <3>3. Cardinality(Physical(p, cl)) <= MaxConnections
      BY <1>1 DEF CallsFit
    <3> QED BY <3>1, <3>2, <3>3, BudgetKeeps
  <2> QED BY <2>1, <2>2, <2>3 DEF CallsFit
<1>6. QueueFits(q, w, cl2)
  <2>1. ASSUME NEW d \in ToSet(w) PROVE d \in Caller /\ cl2[d] = cl[d]
    <3>1. d \in Caller /\ Waits(cl[d])
      BY <1>1 DEF QueueFits, ToSet
    <3>2. d # c
      BY <3>1 DEF Waits
    <3> QED BY <3>1, <3>2
  <2>2. ASSUME NEW d \in ToSet(w), NEW t \in ToSet(q.list)
        PROVE  ~(q.ent[t].phase = "Idle" /\ q.ent[t].origin = cl2[d].origin)
    <3>1. cl2[d] = cl[d] /\ t \in Slot /\ t \in ToSet(p.list)
      BY <1>2, <1>3, <2>1, PoolLists
    <3>2. ~(p.ent[t].phase = "Idle" /\ p.ent[t].origin = cl[d].origin)
      BY <1>1, <3>1 DEF QueueFits
    <3> QED BY <1>3, <3>1, <3>2
  <2> QED BY <1>1, <2>1, <2>2 DEF QueueFits
<1> QED BY <1>1, <1>4, <1>5, <1>6 DEF Fits, q, s

-----------------------------------------------------------------------------
(***************************************************************************)
(* The operations on entries.                                              *)
(***************************************************************************)

LEMMA RetiredEntryIs ==
  ASSUME NEW e \in EntryType
  PROVE  /\ RetiredEntry(e) \in EntryType /\ RetiredEntry(e).phase = "Retiring"
         /\ RetiredEntry(e).net # "up" /\ (RetiredEntry(e).net \in Live <=> e.net \in Live)
         /\ RetiredEntry(e).origin = e.origin
BY DEF RetiredEntry, EntryType, Live

\* A sweep begins nothing.
LEMMA SweepIsQuiet ==
  ASSUME PoolConstants, NEW ph \in Phases, NEW p, NEW cl, PoolFits(ph, p)
  PROVE  Quieter(p, SweepLocked(p)) /\ ClosesRightly(ph, p, SweepLocked(p), cl)
<1> DEFINE gone == { s \in ToSet(p.list) : p.ent[s].phase = "Retiring" /\ Released(p.ent[s]) }
           q == SweepLocked(p)
<1>1. /\ p \in PoolState /\ p.list \in Seq(Slot) /\ ToSet(p.list) \subseteq Slot
      /\ p.ent \in [Slot -> EntryType] /\ \A s \in Slot : EntryFits(ph, p, s)
  BY PoolLists DEF PoolFits
<1>2. /\ q.list = Without(p.list, gone)
      /\ q.ent = [s \in Slot |-> IF s \in gone THEN Freed
                                 ELSE IF p.ent[s].phase = "Idle" /\ p.ent[s].spoiled
                                 THEN RetiredEntry(p.ent[s]) ELSE p.ent[s]]
      /\ q = [list |-> q.list, ent |-> q.ent]
  BY Zenon DEF SweepLocked
<1> HIDE DEF q
<1>3. /\ q.list \in Seq(Slot) /\ ToSet(q.list) = ToSet(p.list) \ gone /\ Len(q.list) <= Len(p.list)
  <2> HIDE DEF gone
  <2> QED BY <1>1, <1>2, WithoutProperties
<1>4. Freed \in EntryType /\ Freed.phase = "Freed" /\ Freed.net = "none"
  BY DEF Freed, EntryType
<1>5. ASSUME NEW s \in Slot
      PROVE  /\ q.ent[s] \in EntryType /\ QuieterEntry(p, q, s)
             /\ p.ent[s].net # "up" => q.ent[s].net # "up"
             /\ p.ent[s].phase = "Dialing" /\ s \in ToSet(p.list) =>
                  q.ent[s].phase = "Dialing" /\ s \in ToSet(q.list)
  <2>1. p.ent[s] \in EntryType /\ EntryFits(ph, p, s)
    BY <1>1
  <2>2. CASE s \in gone
    <3>1. q.ent[s] = Freed /\ s \in ToSet(p.list) /\ p.ent[s].phase = "Retiring"
      BY <1>2, <2>2
    <3> QED BY <1>4, <3>1 DEF QuieterEntry, Live
  <2>3. CASE s \notin gone /\ p.ent[s].phase = "Idle" /\ p.ent[s].spoiled
    <3>1. q.ent[s] = RetiredEntry(p.ent[s]) /\ s \in ToSet(p.list) /\ s \in ToSet(q.list)
      BY <1>2, <1>3, <2>1, <2>3 DEF EntryFits
    <3> QED BY <2>1, <2>3, <3>1, RetiredEntryIs DEF QuieterEntry
  <2>4. CASE s \notin gone /\ ~(p.ent[s].phase = "Idle" /\ p.ent[s].spoiled)
    <3>1. q.ent[s] = p.ent[s] /\ (s \in ToSet(p.list) <=> s \in ToSet(q.list))
      BY <1>2, <1>3, <2>4
    <3> QED BY <2>1, <3>1 DEF QuieterEntry
  <2> QED BY <2>2, <2>3, <2>4
<1>6. q \in PoolState
  <2>1. q.ent \in [Slot -> EntryType]
    <3>1. q.ent = [s \in Slot |-> q.ent[s]]
      BY <1>2, Zenon
    <3> QED BY <1>5, <3>1
  <2> QED BY <1>2, <1>3, <2>1 DEF PoolState
<1>7. Quieter(p, q)
  <2>1. ToSet(q.list) \subseteq ToSet(p.list)
    BY <1>3
  <2> HIDE DEF gone
  <2> QED BY <1>3, <1>5, <1>6, <2>1 DEF Quieter
<1>8. ClosesRightly(ph, p, q, cl)
  BY <1>1, <1>5 DEF ClosesRightly, EntryFits
<1> QED BY <1>7, <1>8 DEF q

LEMMA SweepKeeps ==
  ASSUME PoolConstants, NEW ph, NEW p, NEW w, NEW cl, Fits(ph, p, w, cl)
  PROVE  Fits(ph, SweepLocked(p), w, cl)
<1>1. ph \in Phases /\ PoolFits(ph, p)
  BY DEF Fits
<1>2. Quieter(p, SweepLocked(p)) /\ ClosesRightly(ph, p, SweepLocked(p), cl)
  BY <1>1, SweepIsQuiet
<1> QED BY <1>1, <1>2, QuieterKeeps

\* An entry that nobody dials is retired.
LEMMA RetireKeeps ==
  ASSUME PoolConstants, NEW ph, NEW p, NEW w, NEW cl, Fits(ph, p, w, cl),
         NEW s \in ToSet(p.list), p.ent[s].phase # "Dialing" \/ ~DialOf(cl, s) \/ ph = "Closed"
  PROVE  /\ Fits(ph, RetireLocked(p, s), w, cl)
         /\ RetireLocked(p, s).list = p.list
         /\ RetireLocked(p, s).ent[s].phase = "Retiring"
<1>1. ph \in Phases /\ PoolFits(ph, p) /\ p \in PoolState
  BY DEF Fits, PoolFits
<1> DEFINE e == RetiredEntry(p.ent[s])
           q == EntrySet(p, s, e)
<1>2. p.ent[s] \in EntryType /\ s \in Slot
  BY <1>1, PoolLists
<1>3. /\ e \in EntryType /\ e.phase = "Retiring" /\ e.net # "up"
      /\ (e.net \in Live <=> p.ent[s].net \in Live)
  BY <1>2, RetiredEntryIs
<1>4. RetireLocked(p, s) = q
  BY DEF RetireLocked, EntrySet
<1> HIDE DEF e
<1>5. /\ q \in PoolState /\ q.list = p.list /\ q.ent[s] = e
      /\ \A t \in Slot : t # s => q.ent[t] = p.ent[t]
  BY <1>1, <1>2, <1>3, EntrySets
<1> HIDE DEF q
<1>6. ASSUME NEW t \in Slot PROVE QuieterEntry(p, q, t)
  BY <1>3, <1>5 DEF QuieterEntry
<1>7. Len(p.list) \in Nat
  BY <1>1, PoolLists
<1>8. Quieter(p, q)
  BY <1>5, <1>6, <1>7 DEF Quieter
<1>9. ClosesRightly(ph, p, q, cl)
  <2>1. ASSUME NEW t \in ToSet(p.list), ph # "Closed", p.ent[t].phase = "Dialing", DialOf(cl, t)
        PROVE  q.ent[t].phase = "Dialing" /\ t \in ToSet(q.list)
    <3>1. t \in Slot /\ t # s
      BY <1>1, <2>1, PoolLists
    <3> QED BY <1>5, <2>1, <3>1
  <2>2. ASSUME ph = "Closed", NEW t \in Slot PROVE q.ent[t].net # "up"
    <3>1. p.ent[t].net # "up"
      BY <1>1, <2>2 DEF PoolFits, EntryFits
    <3> QED BY <1>3, <1>5, <3>1
  <2> QED BY <2>1, <2>2 DEF ClosesRightly
<1>10. Fits(ph, q, w, cl)
  BY <1>1, <1>8, <1>9, QuieterKeeps
<1> QED BY <1>3, <1>4, <1>5, <1>10

\* The first idle connection of an origin is one; none found, none is there.
LEMMA IdleForIs ==
  ASSUME PoolConstants, NEW p \in PoolState, NEW o
  PROVE  /\ IdleFor(p, o) # 0 => /\ IdleFor(p, o) \in ToSet(p.list)
                                 /\ p.ent[IdleFor(p, o)].phase = "Idle"
                                 /\ p.ent[IdleFor(p, o)].origin = o
         /\ IdleFor(p, o) = 0 => \A s \in ToSet(p.list) :
                                   ~(p.ent[s].phase = "Idle" /\ p.ent[s].origin = o)
<1> DEFINE S == { i \in DOMAIN p.list : p.ent[p.list[i]].phase = "Idle"
                                        /\ p.ent[p.list[i]].origin = o }
           m == CHOOSE i \in S : \A j \in S : i <= j
<1>1. IdleFor(p, o) = IF S = {} THEN 0 ELSE p.list[m]
  BY Zenon DEF IdleFor, First
<1>2. p.list \in Seq(Slot)
  BY PoolLists
<1>3. S \in SUBSET Nat
  BY <1>2
<1>4. S # {} => m \in S
  <2> HIDE DEF S
  <2>1. S # {} => \E i \in S : \A j \in S : i <= j
    BY <1>3, LeastNat
  <2> QED BY <2>1
<1> HIDE DEF m
<1>5. CASE S = {}
  <2>1. IdleFor(p, o) = 0
    BY <1>1, <1>5
  <2>2. ASSUME NEW s \in ToSet(p.list) PROVE ~(p.ent[s].phase = "Idle" /\ p.ent[s].origin = o)
    BY <1>5 DEF ToSet
  <2> QED BY <2>1, <2>2
<1>6. CASE S # {}
  <2>1. IdleFor(p, o) = p.list[m] /\ m \in DOMAIN p.list
    BY <1>1, <1>4, <1>6
  <2>2. p.list[m] \in ToSet(p.list) /\ p.list[m] \in Slot
    BY <1>2, <2>1 DEF ToSet
  <2> QED BY <1>4, <1>6, <2>1, <2>2, SlotFacts
<1> QED BY <1>5, <1>6

\* An idle connection of another origin is retired, if there is one.
LEMMA RetireOtherKeeps ==
  ASSUME PoolConstants, NEW ph, NEW p, NEW w, NEW cl, Fits(ph, p, w, cl), NEW o
  PROVE  /\ Fits(ph, RetireOtherIdleLocked(p, o), w, cl)
         /\ \A s \in ToSet(RetireOtherIdleLocked(p, o).list) :
              RetireOtherIdleLocked(p, o).ent[s].phase = "Idle" =>
                 /\ s \in ToSet(p.list) /\ p.ent[s].phase = "Idle"
                 /\ p.ent[s].origin = RetireOtherIdleLocked(p, o).ent[s].origin
<1> DEFINE S == { i \in DOMAIN p.list : p.ent[p.list[i]].phase = "Idle"
                                        /\ p.ent[p.list[i]].origin # o }
           m == CHOOSE i \in S : \A j \in S : i <= j
<1>1. RetireOtherIdleLocked(p, o) = IF (IF S = {} THEN 0 ELSE p.list[m]) = 0 THEN p
                                    ELSE RetireLocked(p, IF S = {} THEN 0 ELSE p.list[m])
  BY Zenon DEF RetireOtherIdleLocked, First
<1>2. p \in PoolState /\ p.list \in Seq(Slot) /\ ToSet(p.list) \subseteq Slot
  BY PoolLists DEF Fits, PoolFits
<1>3. S \in SUBSET Nat
  BY <1>2
<1>4. S # {} => m \in S
  <2> HIDE DEF S
  <2>1. S # {} => \E i \in S : \A j \in S : i <= j
    BY <1>3, LeastNat
  <2> QED BY <2>1
<1> HIDE DEF m
<1>5. CASE S = {}
  BY <1>1, <1>5
<1>6. CASE S # {}
  <2>1. p.list[m] \in ToSet(p.list) /\ p.list[m] \in Slot /\ p.ent[p.list[m]].phase = "Idle"
    BY <1>2, <1>4, <1>6 DEF ToSet
  <2>2. RetireOtherIdleLocked(p, o) = RetireLocked(p, p.list[m])
    BY <1>1, <1>6, <2>1, SlotFacts
  <2> DEFINE s == p.list[m]
             q == RetireLocked(p, s)
  <2>3. Fits(ph, q, w, cl) /\ q.list = p.list /\ q.ent[s].phase = "Retiring"
    <3> HIDE DEF s
    <3> QED BY <2>1, RetireKeeps DEF s
  <2>4. \A t \in Slot : t # s => q.ent[t] = p.ent[t]
    BY <1>2, <2>1 DEF RetireLocked, PoolState
  <2> HIDE DEF q, s
  <2> QED BY <1>2, <2>2, <2>3, <2>4 DEF q, s
<1> QED BY <1>5, <1>6

\* While the pool is open every address in use is in the list or with a caller: there is a
\* fresh one for a caller that has none.
LEMMA FreshSlotIs ==
  ASSUME PoolConstants, PoolFits("Open", pool), CallsFit("Open", pool, call),
         NEW c \in Caller, call[c].slot = 0
  PROVE  FreshSlot \in Slot /\ Unused(FreshSlot)
<1> DEFINE held == { call[d].slot : d \in Caller \ {c} }
           used == ToSet(pool.list) \cup held
           f == [d \in Caller \ {c} |-> call[d].slot]
<1>1. /\ pool.list \in Seq(Slot) /\ Len(pool.list) \in Nat /\ Len(pool.list) <= MaxConnections
      /\ MaxConnections \in Nat /\ Cardinality(Caller) \in Nat /\ IsFiniteSet(Caller)
      /\ IsFiniteSet(Slot) /\ Cardinality(Slot) = MaxConnections + Cardinality(Caller)
      /\ Slot \subseteq Nat /\ 0 \notin Slot
  BY PoolLists, SlotFacts DEF PoolFits
<1>2. IsFiniteSet(Caller \ {c}) /\ Cardinality(Caller \ {c}) = Cardinality(Caller) - 1
  BY <1>1, FS_RemoveElement
<1>3. /\ IsFiniteSet(held) /\ Cardinality(held) <= Cardinality(Caller) - 1
      /\ Cardinality(held) \in Nat
  <2>1. f \in Surjection(Caller \ {c}, held)
    BY DEF Surjection
  <2> HIDE DEF f, held
  <2> QED BY <1>2, <2>1, FS_Surjection, FS_CardinalityType
<1>4. /\ IsFiniteSet(ToSet(pool.list)) /\ Cardinality(ToSet(pool.list)) <= MaxConnections
      /\ Cardinality(ToSet(pool.list)) \in Nat
  <2>1. IsFiniteSet(ToSet(pool.list)) /\ Cardinality(ToSet(pool.list)) <= Len(pool.list)
    BY <1>1, ListCardinality
  <2> QED BY <1>1, <2>1, FS_CardinalityType
<1>5. IsFiniteSet(used) /\ Cardinality(used) < Cardinality(Slot)
  <2> HIDE DEF held
  <2>1. /\ IsFiniteSet(used)
        /\ Cardinality(used) = Cardinality(ToSet(pool.list)) + Cardinality(held)
                               - Cardinality(ToSet(pool.list) \cap held)
    BY <1>3, <1>4, FS_Union
  <2>2. Cardinality(ToSet(pool.list) \cap held) \in Nat
    BY <1>3, FS_Intersection, FS_CardinalityType
  <2> QED BY <1>1, <1>3, <1>4, <2>1, <2>2
<1>6. \E s \in Slot : s \notin used
  <2>1. SUFFICES ASSUME Slot \subseteq used PROVE FALSE
    OBVIOUS
  <2> HIDE DEF used
  <2>2. Cardinality(Slot) <= Cardinality(used) /\ Cardinality(used) \in Nat
    BY <1>5, <2>1, FS_Subset, FS_CardinalityType
  <2> QED BY <1>1, <1>5, <2>2
<1>7. ASSUME NEW s \in Slot, s \notin used PROVE Unused(s)
  <2>1. EntryFits("Open", pool, s)
    BY DEF PoolFits
  <2>2. s \notin ToSet(pool.list) /\ pool.ent[s].net \notin Live
    BY <1>7, <2>1 DEF EntryFits
  <2>3. \A d \in Caller : call[d].slot # s
    BY <1>1, <1>7
  <2> QED BY <2>2, <2>3 DEF Unused, Live
<1> DEFINE T == { s \in Slot : Unused(s) }
<1>8. T # {} /\ T \in SUBSET Nat
  BY <1>1, <1>6, <1>7
<1>9. \E s \in T : \A t \in T : s <= t
  <2> HIDE DEF T
  <2> QED BY <1>8, LeastNat
<1>10. \E s \in Slot : Unused(s) /\ \A t \in Slot : Unused(t) => s <= t
  BY <1>9
<1> QED BY <1>10 DEF FreshSlot

\* c goes to x with the entry e, told or not; the others stay.
Becomes(cl2, cl, c, x, e, b) ==
  /\ cl2 \in [Caller -> CallState]
  /\ cl2[c].pc = x /\ cl2[c].slot = e /\ cl2[c].told = b /\ cl2[c].origin = cl[c].origin
  /\ \A d \in Caller : d # c => cl2[d] = cl[d]

\* The entry s of p becomes one that is being dialled.
Reserves(p, q, s, e) ==
  /\ s \in Slot /\ s \notin ToSet(p.list) /\ e \in EntryType /\ e.phase = "Dialing"
  /\ q = [list |-> Append(p.list, s), ent |-> [p.ent EXCEPT ![s] = e]]

LEMMA ReserveKeeps ==
  ASSUME PoolConstants, NEW p, NEW w, NEW cl, Fits("Open", p, w, cl), HasRoom(p),
         NEW s, NEW e, NEW q, Reserves(p, q, s, e), \A d \in Caller : cl[d].slot # s,
         NEW c \in Caller, c \notin ToSet(w), cl[c].slot = 0,
         NEW b, NEW cl2, Becomes(cl2, cl, c, "dial", s, b)
  PROVE  Fits("Open", q, w, cl2)
<1> /\ s \in Slot /\ s \notin ToSet(p.list) /\ e \in EntryType /\ e.phase = "Dialing"
    /\ q.list = Append(p.list, s) /\ q.ent = [p.ent EXCEPT ![s] = e]
    /\ q = [list |-> q.list, ent |-> q.ent]
  BY DEF Reserves
<1> /\ cl2 \in [Caller -> CallState] /\ cl2[c].slot = s /\ cl2[c].pc = "dial"
    /\ \A d \in Caller : d # c => cl2[d] = cl[d]
  BY DEF Becomes
<1>1. PoolFits("Open", p) /\ CallsFit("Open", p, cl) /\ QueueFits(p, w, cl)
  BY DEF Fits
<1>2. /\ p \in PoolState /\ p.list \in Seq(Slot) /\ Len(p.list) \in Nat
      /\ ToSet(p.list) \subseteq Slot /\ p.ent \in [Slot -> EntryType] /\ s # 0
      /\ MaxConnections \in Nat
  BY <1>1, PoolLists, SlotFacts DEF PoolFits
<1>3. /\ q.list \in Seq(Slot) /\ Len(q.list) = Len(p.list) + 1
      /\ ToSet(q.list) = ToSet(p.list) \cup {s}
  BY <1>2, AppendToSet
<1>4. /\ q.ent \in [Slot -> EntryType] /\ q.ent[s] = e
      /\ \A t \in Slot : t # s => q.ent[t] = p.ent[t]
  BY <1>2
<1>5. q \in PoolState /\ Len(q.list) <= MaxConnections
  <2>1. Len(p.list) < MaxConnections
    BY DEF HasRoom
  <2>2. q \in PoolState
    BY <1>3, <1>4, Zenon DEF PoolState
  <2> QED BY <1>2, <1>3, <2>1, <2>2
<1>6. \A t \in Slot : EntryFits("Open", q, t)
  <2> SUFFICES ASSUME NEW t \in Slot PROVE EntryFits("Open", q, t)
    OBVIOUS
  <2>1. EntryFits("Open", p, t)
    BY <1>1 DEF PoolFits
  <2> QED BY <1>3, <1>4, <2>1 DEF EntryFits
<1>7. PoolFits("Open", q)
  <2>1. IdleOf(q) \subseteq IdleOf(p) /\ IdleOf(p) \subseteq Slot
    BY <1>4 DEF IdleOf
  <2>2. Cardinality(IdleOf(p)) <= MaxKeepalive
    BY <1>1 DEF PoolFits
  <2>3. Cardinality(IdleOf(q)) <= MaxKeepalive
    BY <2>1, <2>2, FewerSlots, SlotFacts
  <2> QED BY <1>5, <1>6, <2>3 DEF PoolFits
<1>8. \A d \in Caller : Pointing(cl2[d]) /\ DialFits("Open", q, cl2[d]) /\ Alone(cl2, d)
  <2> SUFFICES ASSUME NEW d \in Caller
               PROVE  Pointing(cl2[d]) /\ DialFits("Open", q, cl2[d]) /\ Alone(cl2, d)
    OBVIOUS
  <2>1. Pointing(cl[d]) /\ DialFits("Open", p, cl[d]) /\ Alone(cl, d)
    BY <1>1 DEF CallsFit
  <2>2. CASE d = c
    <3>1. Pointing(cl2[d])
      BY <1>2, <2>2 DEF Pointing
    <3>2. DialFits("Open", q, cl2[d])
      BY <1>3, <1>4, <2>2 DEF DialFits
    <3> QED BY <2>2, <3>1, <3>2 DEF Alone
  <2>3. CASE d # c
    <3>1. DialFits("Open", q, cl2[d])
      BY <1>2, <1>3, <1>4, <2>1, <2>3 DEF DialFits
    <3> QED BY <1>2, <2>1, <2>3, <3>1 DEF Alone
  <2> QED BY <2>2, <2>3
<1>9. \A t \in Slot : UseFits(q, cl2, t)
  <2> SUFFICES ASSUME NEW t \in Slot PROVE UseFits(q, cl2, t)
    OBVIOUS
  <2>1. UseFits(p, cl, t) /\ t # 0
    BY <1>1, SlotFacts DEF CallsFit
  <2>2. CASE t = s
    BY <1>4, <2>2 DEF UseFits
  <2>3. CASE t # s
    BY <1>4, <2>1, <2>3 DEF UseFits
  <2> QED BY <2>2, <2>3
<1>10. Cardinality(Physical(q, cl2)) <= MaxConnections
  <2>1. Physical(q, cl2) \subseteq ToSet(q.list)
    <3> SUFFICES ASSUME NEW t \in Physical(q, cl2) PROVE t \in ToSet(q.list)
      OBVIOUS
    <3>1. CASE q.ent[t].net \in Live
      BY <1>6, <3>1 DEF Physical, EntryFits
    <3>2. CASE DialOf(cl2, t)
      BY <1>8, <3>2 DEF DialOf, DialFits
    <3> QED BY <3>1, <3>2 DEF Physical
  <2>2. /\ IsFiniteSet(ToSet(q.list)) /\ Cardinality(ToSet(q.list)) <= Len(q.list)
        /\ ToSet(q.list) \subseteq Slot /\ Len(q.list) \in Nat
    <3>1. IsFiniteSet(ToSet(q.list)) /\ Cardinality(ToSet(q.list)) <= Len(q.list)
      BY <1>3, ListCardinality
    <3> QED BY <1>2, <1>3, <3>1
  <2>3. Cardinality(ToSet(q.list)) <= MaxConnections /\ Cardinality(ToSet(q.list)) \in Nat
    BY <1>2, <1>5, <2>2, FS_CardinalityType
  <2> QED BY <1>2, <2>1, <2>2, <2>3, FewerSlots
<1>11. CallsFit("Open", q, cl2)
  BY <1>8, <1>9, <1>10 DEF CallsFit
<1>12. QueueFits(q, w, cl2)
  <2>1. ASSUME NEW d \in ToSet(w) PROVE cl2[d] = cl[d]
    <3>1. d \in Caller
      BY <1>1 DEF QueueFits, ToSet
    <3> QED BY <3>1
  <2>2. ASSUME NEW d \in ToSet(w), NEW t \in ToSet(q.list)
        PROVE  ~(q.ent[t].phase = "Idle" /\ q.ent[t].origin = cl2[d].origin)
    <3>1. CASE t = s
      BY <1>4, <3>1
    <3>2. CASE t # s
      <4>1. t \in ToSet(p.list) /\ t \in Slot
        BY <1>2, <1>3, <3>2
      <4>2. ~(p.ent[t].phase = "Idle" /\ p.ent[t].origin = cl[d].origin)
        BY <1>1, <4>1 DEF QueueFits
      <4> QED BY <1>4, <2>1, <3>2, <4>1, <4>2
    <3> QED BY <3>1, <3>2
  <2> QED BY <1>1, <2>1, <2>2 DEF QueueFits
<1> QED BY <1>7, <1>11, <1>12 DEF Fits, Phases

-----------------------------------------------------------------------------
(***************************************************************************)
(* The steps of a caller.                                                  *)
(***************************************************************************)

LEMMA CallIs ==
  ASSUME NEW cl \in [Caller -> CallState], NEW c \in Caller
  PROVE  /\ cl[c].pc \in CallPc /\ cl[c].slot \in Slot \cup {0} /\ cl[c].told \in BOOLEAN
         /\ cl[c].origin \in Origin \cup {NoOrigin}
BY DEF CallState

LEMMA CallSets ==
  ASSUME NEW cl \in [Caller -> CallState], NEW c \in Caller, NEW x \in CallPc,
         NEW e \in Slot \cup {0}, NEW b \in BOOLEAN, NEW cl2
  PROVE  /\ cl2 = [cl EXCEPT ![c].pc = x] => Becomes(cl2, cl, c, x, cl[c].slot, cl[c].told)
         /\ cl2 = [cl EXCEPT ![c].pc = x, ![c].slot = e] => Becomes(cl2, cl, c, x, e, cl[c].told)
         /\ cl2 = [cl EXCEPT ![c].pc = x, ![c].told = b] => Becomes(cl2, cl, c, x, cl[c].slot, b)
         /\ cl2 = [cl EXCEPT ![c].pc = x, ![c].slot = e, ![c].told = b]
              => Becomes(cl2, cl, c, x, e, b)
         /\ cl2 = [cl EXCEPT ![c].slot = e, ![c].told = b]
              => Becomes(cl2, cl, c, cl[c].pc, e, b)
<1>1. /\ cl[c].pc \in CallPc /\ cl[c].slot \in Slot \cup {0} /\ cl[c].told \in BOOLEAN
      /\ cl[c].origin \in Origin \cup {NoOrigin}
  BY CallIs
<1>2. ASSUME cl2 = [cl EXCEPT ![c].pc = x] PROVE Becomes(cl2, cl, c, x, cl[c].slot, cl[c].told)
  BY <1>1, <1>2 DEF Becomes, CallState
<1>3. ASSUME cl2 = [cl EXCEPT ![c].pc = x, ![c].slot = e]
      PROVE Becomes(cl2, cl, c, x, e, cl[c].told)
  BY <1>1, <1>3 DEF Becomes, CallState
<1>4. ASSUME cl2 = [cl EXCEPT ![c].pc = x, ![c].told = b]
      PROVE Becomes(cl2, cl, c, x, cl[c].slot, b)
  BY <1>1, <1>4 DEF Becomes, CallState
<1>5. ASSUME cl2 = [cl EXCEPT ![c].pc = x, ![c].slot = e, ![c].told = b]
      PROVE Becomes(cl2, cl, c, x, e, b)
  BY <1>1, <1>5 DEF Becomes, CallState
<1>6. ASSUME cl2 = [cl EXCEPT ![c].slot = e, ![c].told = b]
      PROVE Becomes(cl2, cl, c, cl[c].pc, e, b)
  BY <1>1, <1>6 DEF Becomes, CallState
<1> QED BY <1>2, <1>3, <1>4, <1>5, <1>6

\* Nothing that the end of the pool depends on changes.
LEMMA EndsStay ==
  ASSUME EndsFit, UNCHANGED <<phase, inflight, shut, drained>>,
         \A d \in Caller : call'[d].pc = "idle" <=> call[d].pc = "idle"
  PROVE  EndsFit'
<1>1. Busy(call') = Busy(call)
  BY DEF Busy
<1> QED BY <1>1 DEF EndsFit

\* A request is over.
LEMMA EndsLeave ==
  ASSUME PoolConstants, EndsFit, UNCHANGED <<phase, drained>>, inflight' = inflight - 1,
         NotifyShutdown, NEW c \in Caller, call[c].pc # "idle", call'[c].pc = "idle",
         \A d \in Caller : d # c => (call'[d].pc = "idle" <=> call[d].pc = "idle")
  PROVE  EndsFit'
<1>1. /\ IsFiniteSet(Busy(call)) /\ c \in Busy(call) /\ Busy(call') = Busy(call) \ {c}
      /\ Cardinality(Busy(call)) \in Nat
  BY CallersCount DEF Busy
<1>2. Cardinality(Busy(call')) = Cardinality(Busy(call)) - 1
  BY <1>1, FS_RemoveElement
<1>3. inflight' = Cardinality(Busy(call')) /\ inflight # 0
  <2>1. Cardinality(Busy(call)) # 0
    BY <1>1, FS_EmptySet
  <2> QED BY <1>2, <2>1 DEF EndsFit
<1>4. shut' \in {"none", "check"} /\ (shut' # "none" => shut # "none")
  BY DEF NotifyShutdown, EndsFit
<1> QED BY <1>3, <1>4 DEF EndsFit

\* The request is counted.
LEMMA AcquireKeeps ==
  ASSUME PoolConstants, PoolInv, NEW c \in Caller, NEW o \in Origin, Acquire(c, o)
  PROVE  PoolInv'
<1>1. /\ phase = "Open" /\ Fits("Open", pool, waiters, call) /\ EndsFit
      /\ call \in [Caller -> CallState] /\ call[c].pc = "idle" /\ Pointing(call[c])
      /\ waiters \in Seq(Caller) /\ Len(waiters) <= MaxQueue
      /\ \A d \in ToSet(waiters) : d \in Caller /\ Waits(call[d])
  BY DEF PoolInv, Acquire, At, Fits, CallsFit, QueueFits, ToSet
<1> DEFINE r == [NoCall EXCEPT !.pc = "fast", !.origin = o]
<1>2. /\ inflight' = inflight + 1 /\ call' = [call EXCEPT ![c] = r]
      /\ UNCHANGED <<phase, pool, waiters, shut, drained>>
  BY DEF Acquire
<1>3. r \in CallState /\ r.pc = "fast" /\ r.slot = 0
  BY DEF NoCall, CallState, CallPc
<1> HIDE DEF r
<1>4. /\ call' \in [Caller -> CallState] /\ call'[c] = r
      /\ \A d \in Caller : d # c => call'[d] = call[d]
  BY <1>1, <1>2, <1>3
<1>5. call[c].slot = 0
  BY <1>1 DEF Pointing
<1>6. \A d \in Caller : CallGoesOn(pool, call[d], call'[d])
  <2> SUFFICES ASSUME NEW d \in Caller PROVE CallGoesOn(pool, call[d], call'[d])
    OBVIOUS
  <2>1. Pointing(call[d])
    BY <1>1 DEF Fits, CallsFit
  <2> QED BY <1>1, <1>3, <1>4, <1>5, <2>1 DEF CallGoesOn, Pointing
<1>7. \A d \in ToSet(waiters) : StaysInQueue(pool, waiters, call, call'[d], d)
  BY <1>1, <1>4 DEF StaysInQueue, Waits
<1>8. Fits("Open", pool, waiters, call')
  BY <1>1, <1>4, <1>6, <1>7, CallsGoOn
<1>9. EndsFit'
  <2>1. /\ IsFiniteSet(Busy(call)) /\ c \notin Busy(call) /\ Busy(call') = Busy(call) \cup {c}
        /\ Cardinality(Busy(call)) \in Nat
    BY <1>1, <1>3, <1>4, CallersCount DEF Busy
  <2>2. Cardinality(Busy(call')) = Cardinality(Busy(call)) + 1
    BY <2>1, FS_AddElement
  <2> QED BY <1>1, <1>2, <2>1, <2>2 DEF EndsFit
<1> QED BY <1>1, <1>2, <1>8, <1>9 DEF PoolInv

\* c goes on with what it has, which is not a dial; whoever was in the queue may leave it.
LEMMA CallMoves ==
  ASSUME PoolConstants, NEW ph, NEW p, NEW w, NEW cl, Fits(ph, p, w, cl),
         NEW c \in Caller, NEW x \in CallPc, NEW b \in BOOLEAN, NEW cl2,
         Becomes(cl2, cl, c, x, cl[c].slot, b), cl[c].pc # "dial",
         cl[c].slot = 0 => x \notin {"dial", "lease"},
         cl[c].slot # 0 => x \in {"added", "parked", "sliced", "lease"},
         NEW w2 \in Seq(Caller), Len(w2) <= MaxQueue, ToSet(w2) \subseteq ToSet(w),
         c \in ToSet(w2) => x \in {"added", "parked", "sliced"}
  PROVE  Fits(ph, p, w2, cl2)
<1>1. /\ cl2 \in [Caller -> CallState] /\ cl2[c].pc = x /\ cl2[c].slot = cl[c].slot
      /\ cl2[c].origin = cl[c].origin /\ \A d \in Caller : d # c => cl2[d] = cl[d]
  BY DEF Becomes
<1>2. \A d \in Caller : Pointing(cl[d]) /\ cl[d] \in CallState
  BY DEF Fits, CallsFit
<1>3. ASSUME NEW d \in Caller PROVE CallGoesOn(p, cl[d], cl2[d])
  BY <1>1, <1>2 DEF CallGoesOn, Pointing
<1>4. ASSUME NEW d \in ToSet(w2) PROVE StaysInQueue(p, w, cl, cl2[d], d)
  <2>1. d \in ToSet(w) /\ Waits(cl[d]) /\ d \in Caller
    BY DEF Fits, QueueFits, ToSet
  <2> QED BY <1>1, <2>1 DEF StaysInQueue, Waits
<1> QED BY <1>1, <1>3, <1>4, CallsGoOn

\* What is known of a caller before its step.
LEMMA Before ==
  ASSUME PoolConstants, PoolInv, NEW c \in Caller
  PROVE  /\ Fits(phase, pool, waiters, call) /\ EndsFit /\ phase \in Phases
         /\ pool \in PoolState /\ call \in [Caller -> CallState]
         /\ Pointing(call[c]) /\ call[c].pc \in CallPc /\ call[c].slot \in Slot \cup {0}
         /\ call[c].told \in BOOLEAN /\ call[c].origin \in Origin \cup {NoOrigin}
         /\ waiters \in Seq(Caller) /\ Len(waiters) <= MaxQueue
         /\ \A d \in ToSet(waiters) : d \in Caller /\ Waits(call[d])
         /\ Without(waiters, {c}) \in Seq(Caller) /\ Len(Without(waiters, {c})) <= MaxQueue
         /\ ToSet(Without(waiters, {c})) = ToSet(waiters) \ {c}
<1>1. /\ PoolFits(phase, pool) /\ CallsFit(phase, pool, call) /\ EndsFit /\ phase \in Phases
      /\ QueueFits(pool, waiters, call) /\ Fits(phase, pool, waiters, call)
  BY DEF PoolInv, Fits
<1>2. /\ pool \in PoolState /\ call \in [Caller -> CallState] /\ Pointing(call[c])
  BY <1>1 DEF PoolFits, CallsFit
<1>3. /\ waiters \in Seq(Caller) /\ Len(waiters) <= MaxQueue
      /\ \A d \in ToSet(waiters) : d \in Caller /\ Waits(call[d])
  BY <1>1 DEF QueueFits, ToSet
<1>4. /\ Without(waiters, {c}) \in Seq(Caller) /\ Len(Without(waiters, {c})) <= Len(waiters)
      /\ ToSet(Without(waiters, {c})) = ToSet(waiters) \ {c}
  BY <1>3, WithoutProperties
<1>5. Len(Without(waiters, {c})) <= MaxQueue
  BY <1>3, <1>4, SlotFacts
<1> QED BY <1>1, <1>2, <1>3, <1>4, <1>5, CallIs

\* The end of a step that leaves the counters alone.
LEMMA QuietStep ==
  ASSUME PoolConstants, PoolInv, UNCHANGED quiet, Fits(phase, pool', waiters', call'),
         \A d \in Caller : call'[d].pc = "idle" <=> call[d].pc = "idle"
  PROVE  PoolInv'
<1>1. UNCHANGED <<phase, inflight, shut, drained>>
  BY DEF quiet
<1>2. EndsFit'
  BY <1>1, EndsStay DEF PoolInv
<1> QED BY <1>1, <1>2 DEF PoolInv

\* A caller goes on with what it has.
LEMMA MoveStep ==
  ASSUME PoolConstants, PoolInv, UNCHANGED quiet, Fits(phase, pool', waiters, call),
         NEW c \in Caller, call[c].pc \notin {"idle", "dial"},
         NEW x \in CallPc \ {"idle"}, NEW b \in BOOLEAN,
         Becomes(call', call, c, x, call[c].slot, b),
         call[c].slot = 0 => x \notin {"dial", "lease"},
         call[c].slot # 0 => x \in {"added", "parked", "sliced", "lease"},
         \/ waiters' = Without(waiters, {c})
         \/ waiters' = waiters /\ (c \in ToSet(waiters) => x \in {"added", "parked", "sliced"})
  PROVE  PoolInv'
<1>1. /\ waiters' \in Seq(Caller) /\ Len(waiters') <= MaxQueue
      /\ ToSet(waiters') \subseteq ToSet(waiters)
      /\ c \in ToSet(waiters') => x \in {"added", "parked", "sliced"}
  <2>1. /\ waiters \in Seq(Caller) /\ Len(waiters) <= MaxQueue
        /\ Without(waiters, {c}) \in Seq(Caller) /\ Len(Without(waiters, {c})) <= MaxQueue
        /\ ToSet(Without(waiters, {c})) = ToSet(waiters) \ {c}
    BY Before
  <2>2. CASE waiters' = Without(waiters, {c})
    BY <2>1, <2>2
  <2>3. CASE waiters' = waiters /\ (c \in ToSet(waiters) => x \in {"added", "parked", "sliced"})
    BY <2>1, <2>3
  <2> QED BY <2>2, <2>3
<1>2. x \in CallPc /\ call[c].pc # "dial"
  OBVIOUS
<1>3. Fits(phase, pool', waiters', call')
  BY <1>1, <1>2, CallMoves
<1>4. \A d \in Caller : call'[d].pc = "idle" <=> call[d].pc = "idle"
  BY DEF Becomes
<1> QED BY <1>3, <1>4, QuietStep

LEMMA RefuseKeeps ==
  ASSUME PoolConstants, PoolInv, NEW c \in Caller, Refuse(c) PROVE PoolInv'
<1>1. /\ call[c].pc \in {"fast", "reserve", "queue"} /\ call' = [call EXCEPT ![c].pc = "fail"]
      /\ UNCHANGED quiet /\ pool' = pool /\ waiters' = waiters
  BY DEF Refuse, Goes
<1>2. "fail" \in CallPc \ {"idle"} /\ call[c].told \in BOOLEAN /\ call[c].slot \in Slot \cup {0}
  BY Before DEF CallPc
<1>3. Becomes(call', call, c, "fail", call[c].slot, call[c].told)
  BY <1>1, <1>2, Before, CallSets
<1>4. call[c].slot = 0 /\ c \notin ToSet(waiters) /\ Fits(phase, pool', waiters, call)
  BY <1>1, Before DEF Pointing, Waits
<1>5. call[c].pc \notin {"idle", "dial"}
  BY <1>1
<1> QED BY <1>1, <1>2, <1>3, <1>4, <1>5, MoveStep

\* c takes the idle entry e of p.
LEMMA TakesIdle ==
  ASSUME PoolConstants, NEW ph, NEW p, NEW w, NEW cl, Fits(ph, p, w, cl), NEW c \in Caller,
         NEW e \in ToSet(p.list), p.ent[e].phase = "Idle", cl[c].slot = 0,
         NEW x \in {"lease", "parked"}, NEW b \in BOOLEAN, NEW cl2, Becomes(cl2, cl, c, x, e, b),
         NEW w2 \in Seq(Caller), Len(w2) <= MaxQueue, ToSet(w2) \subseteq ToSet(w) \ {c}
  PROVE  Fits(ph, SetPhase(p, e, "Active"), w2, cl2)
<1>1. /\ cl2 \in [Caller -> CallState] /\ cl2[c].pc = x /\ cl2[c].slot = e
      /\ \A d \in Caller : d # c => cl2[d] = cl[d]
  BY DEF Becomes
<1>2. e \in Slot
  BY PoolLists DEF Fits, PoolFits
<1>3. ASSUME NEW d \in Caller, d # c PROVE OthersGoOn(cl, cl2, e, d)
  <2>1. cl[d].slot # e
    BY <1>2 DEF Fits, CallsFit, UseFits
  <2> QED BY <1>1, <1>3, <2>1 DEF OthersGoOn
<1>4. ASSUME NEW d \in ToSet(w2) PROVE d \in ToSet(w) /\ cl2[d] = cl[d]
  <2>1. d \in ToSet(w) /\ d # c /\ d \in Caller
    BY DEF ToSet
  <2> QED BY <1>1, <2>1
<1> QED BY <1>1, <1>3, <1>4, EntryTaken

\* A caller takes an idle entry.
LEMMA TakeStep ==
  ASSUME PoolConstants, PoolInv, UNCHANGED quiet, NEW c \in Caller, call[c].slot = 0,
         call[c].pc # "idle", NEW p, Fits(phase, p, waiters, call),
         IdleFor(p, call[c].origin) # 0,
         pool' = SetPhase(p, IdleFor(p, call[c].origin), "Active"),
         NEW x \in {"lease", "parked"}, NEW b \in BOOLEAN,
         Becomes(call', call, c, x, IdleFor(p, call[c].origin), b),
         \/ waiters' = Without(waiters, {c})
         \/ waiters' = waiters /\ c \notin ToSet(waiters)
  PROVE  PoolInv'
<1> DEFINE e == IdleFor(p, call[c].origin)
<1>1. p \in PoolState
  BY DEF Fits, PoolFits
<1>2. e \in ToSet(p.list) /\ p.ent[e].phase = "Idle"
  BY <1>1, IdleForIs
<1>3. /\ waiters' \in Seq(Caller) /\ Len(waiters') <= MaxQueue
      /\ ToSet(waiters') \subseteq ToSet(waiters) \ {c}
  <2>1. /\ waiters \in Seq(Caller) /\ Len(waiters) <= MaxQueue
        /\ Without(waiters, {c}) \in Seq(Caller) /\ Len(Without(waiters, {c})) <= MaxQueue
        /\ ToSet(Without(waiters, {c})) = ToSet(waiters) \ {c}
    BY Before
  <2>2. CASE waiters' = Without(waiters, {c})
    BY <2>1, <2>2
  <2>3. CASE waiters' = waiters /\ c \notin ToSet(waiters)
    BY <2>1, <2>3
  <2> QED BY <2>2, <2>3
<1>4. Becomes(call', call, c, x, e, b) /\ pool' = SetPhase(p, e, "Active")
  OBVIOUS
<1>5. \A d \in Caller : call'[d].pc = "idle" <=> call[d].pc = "idle"
  BY DEF Becomes
<1> HIDE DEF e
<1>6. Fits(phase, pool', waiters', call')
  BY <1>2, <1>3, <1>4, TakesIdle
<1> QED BY <1>5, <1>6, QuietStep

LEMMA TakeFastKeeps ==
  ASSUME PoolConstants, PoolInv, NEW c \in Caller, TakeFast(c) PROVE PoolInv'
<1> DEFINE p == SweepLocked(pool)
           e == IdleFor(p, call[c].origin)
<1>1. call[c].pc = "fast" /\ UNCHANGED quiet /\ waiters' = waiters
  BY DEF TakeFast, At
<1>2. Fits(phase, p, waiters, call) /\ p \in PoolState
  <2>1. Fits(phase, p, waiters, call)
    BY Before, SweepKeeps
  <2> QED BY <2>1 DEF Fits, PoolFits
<1>3. /\ call[c].slot = 0 /\ c \notin ToSet(waiters) /\ call[c].told \in BOOLEAN
      /\ call \in [Caller -> CallState] /\ call[c].pc \notin {"idle", "dial"}
  BY <1>1, Before DEF Pointing, Waits
<1>4. "lease" \in CallPc /\ "reserve" \in CallPc \ {"idle"}
  BY DEF CallPc
<1>5. CASE e # 0
  <2>1. /\ call' = [call EXCEPT ![c].pc = "lease", ![c].slot = e]
        /\ pool' = SetPhase(p, e, "Active")
    BY <1>5 DEF TakeFast, Holds
  <2>2. e \in Slot
    <3> HIDE DEF p
    <3> QED BY <1>2, <1>5, IdleForIs, PoolLists
  <2>3. Becomes(call', call, c, "lease", e, call[c].told)
    <3> HIDE DEF e
    <3> QED BY <1>3, <1>4, <2>1, <2>2, CallSets
  <2> HIDE DEF p
  <2> QED BY <1>1, <1>2, <1>3, <1>5, <2>1, <2>3, TakeStep
<1>6. CASE e = 0
  <2>1. call' = [call EXCEPT ![c].pc = "reserve"] /\ pool' = p
    BY <1>6 DEF TakeFast, Goes
  <2> HIDE DEF e, p
  <2>2. Becomes(call', call, c, "reserve", call[c].slot, call[c].told)
    BY <1>3, <1>4, <2>1, Before, CallSets
  <2> QED BY <1>1, <1>2, <1>3, <1>4, <2>1, <2>2, MoveStep
<1> QED BY <1>5, <1>6

\* A caller takes a place to dial.
LEMMA ReserveStep ==
  ASSUME PoolConstants, PoolInv, UNCHANGED quiet, phase = "Open", waiters' = waiters,
         NEW c \in Caller, call[c].slot = 0, call[c].pc # "idle", c \notin ToSet(waiters),
         NEW p, Fits(phase, p, waiters, call), HasRoom(p), ToSet(p.list) \subseteq ToSet(pool.list),
         pool' = Reserve(p, call[c].origin),
         call' = [call EXCEPT ![c].pc = "dial", ![c].slot = FreshSlot]
  PROVE  PoolInv'
<1> DEFINE e == [phase |-> "Dialing", origin |-> call[c].origin, net |-> "none", spoiled |-> FALSE]
<1>1. PoolFits("Open", pool) /\ CallsFit("Open", pool, call)
  BY DEF PoolInv, Fits
<1>2. FreshSlot \in Slot /\ Unused(FreshSlot)
  BY <1>1, FreshSlotIs
<1>3. FreshSlot \notin ToSet(p.list) /\ \A d \in Caller : call[d].slot # FreshSlot
  BY <1>2 DEF Unused
<1>4. e \in EntryType /\ e.phase = "Dialing"
  BY Before DEF EntryType
<1>5. pool' = [list |-> Append(p.list, FreshSlot), ent |-> [p.ent EXCEPT ![FreshSlot] = e]]
  BY DEF Reserve
<1>6. Becomes(call', call, c, "dial", FreshSlot, call[c].told)
  <2>1. /\ call \in [Caller -> CallState] /\ call[c].told \in BOOLEAN
        /\ FreshSlot \in Slot \cup {0} /\ "dial" \in CallPc
    BY <1>2, Before DEF CallPc
  <2> QED BY <2>1, CallSets
<1> HIDE DEF e
<1>7. Reserves(p, pool', FreshSlot, e)
  BY <1>2, <1>3, <1>4, <1>5 DEF Reserves
<1>8. Fits("Open", pool', waiters, call')
  BY <1>3, <1>6, <1>7, ReserveKeeps
<1>9. \A d \in Caller : call'[d].pc = "idle" <=> call[d].pc = "idle"
  BY <1>6 DEF Becomes
<1> QED BY <1>8, <1>9, QuietStep

LEMMA ReserveDialKeeps ==
  ASSUME PoolConstants, PoolInv, NEW c \in Caller, ReserveDial(c) PROVE PoolInv'
<1>1. call[c].pc = "reserve" /\ phase = "Open" /\ UNCHANGED quiet /\ waiters' = waiters
  BY DEF ReserveDial, At
<1>2. /\ call[c].slot = 0 /\ c \notin ToSet(waiters) /\ call[c].told \in BOOLEAN
      /\ call \in [Caller -> CallState] /\ call[c].pc \notin {"idle", "dial"}
      /\ Fits(phase, pool, waiters, call)
  BY <1>1, Before DEF Pointing, Waits
<1>3. CASE HasRoom(pool)
  <2>1. /\ pool' = Reserve(pool, call[c].origin)
        /\ call' = [call EXCEPT ![c].pc = "dial", ![c].slot = FreshSlot]
    BY <1>3 DEF ReserveDial, Holds
  <2> QED BY <1>1, <1>2, <1>3, <2>1, ReserveStep
<1>4. CASE ~HasRoom(pool)
  <2>1. pool' = pool /\ call' = [call EXCEPT ![c].pc = "queue"]
    BY <1>4 DEF ReserveDial, Goes
  <2>2. "queue" \in CallPc \ {"idle"}
    BY DEF CallPc
  <2>3. Becomes(call', call, c, "queue", call[c].slot, call[c].told)
    BY <1>2, <2>1, <2>2, CallSets
  <2>4. Fits(phase, pool', waiters, call)
    BY <1>2, <2>1
  <2> QED BY <1>1, <1>2, <2>2, <2>3, <2>4, MoveStep
<1> QED BY <1>3, <1>4

\* The queue is joined when no connection of the origin idles.
LEMMA QueueStep ==
  ASSUME PoolConstants, PoolInv, UNCHANGED quiet, Fits(phase, pool', waiters, call),
         NEW c \in Caller, call[c].pc = "queue", Len(waiters) < MaxQueue,
         \A s \in ToSet(pool'.list) : ~(pool'.ent[s].phase = "Idle"
                                         /\ pool'.ent[s].origin = call[c].origin),
         call' = [call EXCEPT ![c].pc = "added"], waiters' = Append(waiters, c)
  PROVE  PoolInv'
<1>1. /\ call \in [Caller -> CallState] /\ waiters \in Seq(Caller) /\ call[c].slot = 0
      /\ \A d \in Caller : Pointing(call[d]) /\ call[d] \in CallState
      /\ \A d \in ToSet(waiters) : d \in Caller /\ Waits(call[d])
  BY Before DEF Pointing
<1>2. "added" \in CallPc /\ call[c].told \in BOOLEAN /\ call[c].slot \in Slot \cup {0}
  BY Before DEF CallPc
<1>3. Becomes(call', call, c, "added", call[c].slot, call[c].told)
  BY <1>1, <1>2, CallSets
<1>4. /\ call' \in [Caller -> CallState] /\ call'[c].pc = "added" /\ call'[c].slot = 0
      /\ call'[c].origin = call[c].origin /\ \A d \in Caller : d # c => call'[d] = call[d]
  BY <1>1, <1>3 DEF Becomes
<1>5. /\ waiters' \in Seq(Caller) /\ Len(waiters') <= MaxQueue
      /\ ToSet(waiters') = ToSet(waiters) \cup {c}
  <2>1. /\ Append(waiters, c) \in Seq(Caller) /\ Len(Append(waiters, c)) = Len(waiters) + 1
        /\ ToSet(Append(waiters, c)) = ToSet(waiters) \cup {c}
    BY <1>1, AppendToSet
  <2>2. Len(waiters) \in Nat /\ MaxQueue \in Nat
    BY <1>1, SlotFacts
  <2> QED BY <2>1, <2>2
<1>6. ASSUME NEW d \in Caller PROVE CallGoesOn(pool', call[d], call'[d])
  BY <1>1, <1>4 DEF CallGoesOn, Pointing
<1>7. ASSUME NEW d \in ToSet(waiters') PROVE StaysInQueue(pool', waiters, call, call'[d], d)
  BY <1>1, <1>4, <1>5 DEF StaysInQueue, Waits
<1>8. Fits(phase, pool', waiters', call')
  BY <1>4, <1>5, <1>6, <1>7, CallsGoOn
<1>9. \A d \in Caller : call'[d].pc = "idle" <=> call[d].pc = "idle"
  BY <1>4
<1> QED BY <1>8, <1>9, QuietStep

\* One turn of the queueing loop.
LEMMA EnqueueKeeps ==
  ASSUME PoolConstants, PoolInv, NEW c \in Caller, Enqueue(c) PROVE PoolInv'
<1> DEFINE p == SweepLocked(pool)
           o == call[c].origin
           e == IdleFor(p, o)
           q == RetireOtherIdleLocked(p, o)
<1>1. call[c].pc = "queue" /\ phase = "Open" /\ UNCHANGED quiet
  BY DEF Enqueue, At
<1>2. /\ Fits(phase, p, waiters, call) /\ p \in PoolState
      /\ ToSet(p.list) \subseteq ToSet(pool.list)
  <2>1. Fits(phase, p, waiters, call)
    BY Before, SweepKeeps
  <2>2. Quieter(pool, p)
    BY SweepIsQuiet DEF PoolInv, Fits
  <2> QED BY <2>1, <2>2 DEF Fits, PoolFits, Quieter
<1>3. /\ call[c].slot = 0 /\ c \notin ToSet(waiters) /\ call[c].told \in BOOLEAN
      /\ call \in [Caller -> CallState] /\ call[c].pc \notin {"idle", "dial"}
  BY <1>1, Before DEF Pointing, Waits
<1>4. "lease" \in CallPc /\ "fail" \in CallPc \ {"idle"}
  BY DEF CallPc
<1>5. \/ /\ e # 0 /\ waiters' = waiters /\ pool' = SetPhase(p, e, "Active")
         /\ call' = [call EXCEPT ![c].pc = "lease", ![c].slot = e]
      \/ /\ e = 0 /\ HasRoom(p) /\ waiters' = waiters /\ pool' = Reserve(p, o)
         /\ call' = [call EXCEPT ![c].pc = "dial", ![c].slot = FreshSlot]
      \/ /\ e = 0 /\ pool' = q /\ Len(waiters) >= MaxQueue
         /\ call' = [call EXCEPT ![c].pc = "fail"] /\ waiters' = waiters
      \/ /\ e = 0 /\ pool' = q /\ ~(Len(waiters) >= MaxQueue)
         /\ call' = [call EXCEPT ![c].pc = "added"] /\ waiters' = Append(waiters, c)
  BY Zenon DEF Enqueue, Holds, Goes
<1>6. CASE /\ e # 0 /\ waiters' = waiters /\ pool' = SetPhase(p, e, "Active")
           /\ call' = [call EXCEPT ![c].pc = "lease", ![c].slot = e]
  <2>1. e \in Slot
    <3> HIDE DEF p
    <3> QED BY <1>2, <1>6, IdleForIs, PoolLists
  <2>2. Becomes(call', call, c, "lease", e, call[c].told)
    <3> HIDE DEF e
    <3> QED BY <1>3, <1>4, <1>6, <2>1, CallSets
  <2> HIDE DEF p
  <2> QED BY <1>1, <1>2, <1>3, <1>6, <2>2, TakeStep
<1>7. CASE /\ e = 0 /\ HasRoom(p) /\ waiters' = waiters /\ pool' = Reserve(p, o)
           /\ call' = [call EXCEPT ![c].pc = "dial", ![c].slot = FreshSlot]
  <2> HIDE DEF p, e
  <2> QED BY <1>1, <1>2, <1>3, <1>7, ReserveStep
<1>8. ASSUME e = 0 PROVE /\ Fits(phase, q, waiters, call)
                         /\ \A s \in ToSet(q.list) : ~(q.ent[s].phase = "Idle" /\ q.ent[s].origin = o)
  <2>1. \A s \in ToSet(p.list) : ~(p.ent[s].phase = "Idle" /\ p.ent[s].origin = o)
    <3> HIDE DEF p, o
    <3> QED BY <1>2, <1>8, IdleForIs
  <2>2. /\ Fits(phase, q, waiters, call)
        /\ \A s \in ToSet(q.list) : q.ent[s].phase = "Idle" =>
             s \in ToSet(p.list) /\ p.ent[s].phase = "Idle" /\ p.ent[s].origin = q.ent[s].origin
    <3> HIDE DEF p, o
    <3> QED BY <1>2, RetireOtherKeeps
  <2> HIDE DEF p, q, o
  <2> QED BY <2>1, <2>2
<1>9. CASE /\ e = 0 /\ pool' = q /\ Len(waiters) >= MaxQueue
           /\ call' = [call EXCEPT ![c].pc = "fail"] /\ waiters' = waiters
  <2>1. Becomes(call', call, c, "fail", call[c].slot, call[c].told)
    BY <1>3, <1>4, <1>9, Before, CallSets
  <2>2. Fits(phase, pool', waiters, call)
    BY <1>8, <1>9
  <2> HIDE DEF e, p, q
  <2> QED BY <1>1, <1>3, <1>4, <1>9, <2>1, <2>2, MoveStep
<1>10. CASE /\ e = 0 /\ pool' = q /\ ~(Len(waiters) >= MaxQueue)
            /\ call' = [call EXCEPT ![c].pc = "added"] /\ waiters' = Append(waiters, c)
  <2>1. Len(waiters) < MaxQueue
    <3>1. Len(waiters) \in Nat /\ MaxQueue \in Nat
      <4>1. waiters \in Seq(Caller)
        BY Before
      <4> QED BY <4>1, SlotFacts
    <3> HIDE DEF e, p, q
    <3> QED BY <1>10, <3>1
  <2>2. Fits(phase, pool', waiters, call)
    BY <1>8, <1>10
  <2>3. \A s \in ToSet(pool'.list) : ~(pool'.ent[s].phase = "Idle"
                                        /\ pool'.ent[s].origin = call[c].origin)
    BY <1>8, <1>10
  <2> HIDE DEF e, p, q, o
  <2> QED BY <1>1, <1>10, <2>1, <2>2, <2>3, QueueStep
<1> HIDE DEF e, p, q, o
<1> QED BY <1>5, <1>6, <1>7, <1>9, <1>10

\* The callback of the wait looks again.
LEMMA RecheckKeeps ==
  ASSUME PoolConstants, PoolInv, NEW c \in Caller, Recheck(c) PROVE PoolInv'
<1> DEFINE p == SweepLocked(pool)
           e == IdleFor(p, call[c].origin)
           open == phase = "Open" /\ call[c].slot = 0
           b == call[c].told \/ ~open \/ HasRoom(p)
<1>1. call[c].pc = "added" /\ UNCHANGED quiet
  BY DEF Recheck, At
<1>2. Fits(phase, p, waiters, call) /\ p \in PoolState
  <2>1. Fits(phase, p, waiters, call)
    BY Before, SweepKeeps
  <2> QED BY <2>1 DEF Fits, PoolFits
<1>3. /\ call[c].told \in BOOLEAN /\ call \in [Caller -> CallState]
      /\ call[c].pc \notin {"idle", "dial"} /\ Fits(phase, pool, waiters, call)
  BY <1>1, Before
<1>4. "parked" \in CallPc \ {"idle"} /\ "parked" \in {"lease", "parked"} /\ b \in BOOLEAN
  BY DEF CallPc
<1>5. CASE open /\ e # 0
  <2>1. /\ call' = [call EXCEPT ![c].pc = "parked", ![c].slot = e, ![c].told = TRUE]
        /\ waiters' = Without(waiters, {c}) /\ pool' = SetPhase(p, e, "Active")
    BY <1>5, Zenon DEF Recheck
  <2>2. e \in Slot
    <3> HIDE DEF p
    <3> QED BY <1>2, <1>5, IdleForIs, PoolLists
  <2>3. Becomes(call', call, c, "parked", e, TRUE)
    <3> HIDE DEF e
    <3> QED BY <1>3, <1>4, <2>1, <2>2, CallSets
  <2>4. call[c].slot = 0 /\ TRUE \in BOOLEAN
    BY <1>5
  <2> HIDE DEF p
  <2> QED BY <1>1, <1>2, <1>3, <1>4, <1>5, <2>1, <2>3, <2>4, TakeStep
<1>6. CASE ~(open /\ e # 0)
  <2>1. /\ call' = [call EXCEPT ![c].pc = "parked", ![c].told = @ \/ ~open \/ HasRoom(p)]
        /\ pool' = IF open THEN p ELSE pool
        /\ waiters' = waiters
    BY <1>6, Zenon DEF Recheck
  <2>2. call' = [call EXCEPT ![c].pc = "parked", ![c].told = b]
    <3> DEFINE r == ~open \/ HasRoom(p)
    <3>1. call' = [call EXCEPT ![c].pc = "parked", ![c].told = @ \/ r]
      BY <2>1
    <3>2. b = (call[c].told \/ r)
      OBVIOUS
    <3> HIDE DEF r, b
    <3> QED BY <1>3, <3>1, <3>2 DEF CallState
  <2>3. Becomes(call', call, c, "parked", call[c].slot, b)
    <3>1. "parked" \in CallPc /\ call[c].slot \in Slot \cup {0}
      BY <1>3, <1>4, CallIs
    <3> HIDE DEF b
    <3> QED BY <1>3, <1>4, <2>2, <3>1, CallSets
  <2>4. Fits(phase, pool', waiters, call)
    BY <1>2, <1>3, <2>1
  <2> HIDE DEF b, p, e, open
  <2> QED BY <1>1, <1>3, <1>4, <2>1, <2>3, <2>4, MoveStep
<1> QED BY <1>5, <1>6

\* The wait is over, told or not.
LEMMA ResumeKeeps ==
  ASSUME PoolConstants, PoolInv, NEW c \in Caller, Resume(c) PROVE PoolInv'
<1> DEFINE x == IF call[c].slot # 0 THEN "lease" ELSE "queue"
<1>1. /\ call[c].pc = "parked" /\ UNCHANGED quiet /\ pool' = pool
      /\ waiters' = Without(waiters, {c})
      /\ call' = [call EXCEPT ![c].pc = x, ![c].told = FALSE]
  BY DEF Resume, At
<1>2. /\ call[c].told \in BOOLEAN /\ call \in [Caller -> CallState]
      /\ call[c].pc \notin {"idle", "dial"} /\ Fits(phase, pool', waiters, call)
      /\ call[c].slot \in Slot \cup {0}
  BY <1>1, Before
<1>3. /\ x \in CallPc \ {"idle"} /\ FALSE \in BOOLEAN
      /\ call[c].slot = 0 => x \notin {"dial", "lease"}
      /\ call[c].slot # 0 => x \in {"added", "parked", "sliced", "lease"}
  BY DEF CallPc
<1> HIDE DEF x
<1>4. Becomes(call', call, c, x, call[c].slot, FALSE)
  <2>1. x \in CallPc
    BY <1>3
  <2> QED BY <1>1, <1>2, <1>3, <2>1, CallSets
<1> QED BY <1>1, <1>2, <1>3, <1>4, MoveStep

LEMMA SliceEndsKeeps ==
  ASSUME PoolConstants, PoolInv, NEW c \in Caller, SliceEnds(c) PROVE PoolInv'
<1>1. /\ call[c].pc = "parked" /\ UNCHANGED quiet /\ pool' = pool /\ waiters' = waiters
      /\ call' = [call EXCEPT ![c].pc = "sliced"]
  BY DEF SliceEnds, At, Goes
<1>2. /\ call[c].told \in BOOLEAN /\ call \in [Caller -> CallState]
      /\ call[c].pc \notin {"idle", "dial"} /\ Fits(phase, pool', waiters, call)
      /\ call[c].slot \in Slot \cup {0}
  BY <1>1, Before
<1>3. "sliced" \in CallPc \ {"idle"}
  BY DEF CallPc
<1>4. Becomes(call', call, c, "sliced", call[c].slot, call[c].told)
  BY <1>1, <1>2, <1>3, CallSets
<1> QED BY <1>1, <1>2, <1>3, <1>4, MoveStep

-----------------------------------------------------------------------------
(***************************************************************************)
(* A caller gives its entry up.                                            *)
(***************************************************************************)

\* c has nothing any more and goes on as r; it is not in the queue afterwards.
Gone(r) == r \in CallState /\ r.slot = 0 /\ r.pc \in {"idle", "queue", "fail"}
Leaves(cl2, cl, c, r) ==
  /\ cl2 \in [Caller -> CallState] /\ cl2[c] = r
  /\ \A d \in Caller : d # c => cl2[d] = cl[d]
LeavesQueue(w2, w, c) ==
  w2 \in Seq(Caller) /\ Len(w2) <= MaxQueue /\ ToSet(w2) \subseteq ToSet(w) \ {c}

LEMMA GoneSets ==
  ASSUME NEW cl \in [Caller -> CallState], NEW c \in Caller, NEW r, Gone(r)
  PROVE  Leaves([cl EXCEPT ![c] = r], cl, c, r)
BY DEF Gone, Leaves

LEMMA QueueLeft ==
  ASSUME PoolConstants, PoolInv, NEW c \in Caller
  PROVE  /\ LeavesQueue(Without(waiters, {c}), waiters, c)
         /\ c \notin ToSet(waiters) => LeavesQueue(waiters, waiters, c)
<1>1. /\ waiters \in Seq(Caller) /\ Len(waiters) <= MaxQueue
      /\ Without(waiters, {c}) \in Seq(Caller) /\ Len(Without(waiters, {c})) <= MaxQueue
      /\ ToSet(Without(waiters, {c})) = ToSet(waiters) \ {c}
  BY Before
<1> QED BY <1>1 DEF LeavesQueue

\* c leaves an entry that is not active, or none.
LEMMA GoneKeeps ==
  ASSUME PoolConstants, NEW ph, NEW p, NEW w, NEW cl, Fits(ph, p, w, cl), NEW c \in Caller,
         cl[c].slot \in Slot => p.ent[cl[c].slot].phase # "Active",
         NEW r, Gone(r), NEW cl2, Leaves(cl2, cl, c, r), NEW w2, LeavesQueue(w2, w, c)
  PROVE  Fits(ph, p, w2, cl2)
<1>1. /\ cl2 \in [Caller -> CallState] /\ cl2[c] = r /\ r.slot = 0 /\ r \in CallState
      /\ r.pc \in {"idle", "queue", "fail"}
      /\ \A d \in Caller : d # c => cl2[d] = cl[d]
  BY DEF Leaves, Gone
<1>2. w2 \in Seq(Caller) /\ Len(w2) <= MaxQueue /\ ToSet(w2) \subseteq ToSet(w) \ {c}
  BY DEF LeavesQueue
<1>3. ASSUME NEW d \in Caller PROVE CallGoesOn(p, cl[d], cl2[d])
  <2>1. Pointing(cl[d]) /\ cl[d] \in CallState
    BY DEF Fits, CallsFit
  <2>2. CASE d = c
    BY <1>1, <2>2 DEF CallGoesOn, Pointing
  <2>3. CASE d # c
    BY <1>1, <2>1, <2>3 DEF CallGoesOn
  <2> QED BY <2>2, <2>3
<1>4. ASSUME NEW d \in ToSet(w2) PROVE StaysInQueue(p, w, cl, cl2[d], d)
  <2>1. d \in ToSet(w) /\ d # c
    BY <1>2
  <2>2. Waits(cl[d]) /\ d \in Caller
    BY <2>1 DEF Fits, QueueFits, ToSet
  <2> QED BY <1>1, <2>1, <2>2 DEF StaysInQueue
<1> QED BY <1>1, <1>2, <1>3, <1>4, CallsGoOn

\* Nobody dials what somebody else uses.
LEMMA UsedAlone ==
  ASSUME NEW ph, NEW p, NEW w, NEW cl, Fits(ph, p, w, cl), NEW c \in Caller,
         cl[c].pc # "dial", cl[c].slot # 0
  PROVE  /\ ~DialOf(cl, cl[c].slot)
         /\ \A d \in Caller : d # c => cl[d].slot # cl[c].slot
<1>1. Alone(cl, c)
  BY DEF Fits, CallsFit
<1> QED BY <1>1 DEF Alone, DialOf

\* The entry of c is retired first.
LEMMA RetiredGoneKeeps ==
  ASSUME PoolConstants, NEW ph, NEW p, NEW w, NEW cl, Fits(ph, p, w, cl), NEW c \in Caller,
         cl[c].pc # "dial", cl[c].slot \in ToSet(p.list),
         NEW r, Gone(r), NEW cl2, Leaves(cl2, cl, c, r), NEW w2, LeavesQueue(w2, w, c)
  PROVE  Fits(ph, RetireLocked(p, cl[c].slot), w2, cl2)
<1>1. cl[c].slot \in Slot /\ cl[c].slot # 0
  BY PoolLists, SlotFacts DEF Fits, PoolFits
<1>2. ~DialOf(cl, cl[c].slot)
  BY <1>1, UsedAlone
<1>3. /\ Fits(ph, RetireLocked(p, cl[c].slot), w, cl)
      /\ RetireLocked(p, cl[c].slot).ent[cl[c].slot].phase = "Retiring"
  BY <1>2, RetireKeeps
<1> QED BY <1>3, GoneKeeps

\* The entry of c becomes idle, or is retired: nobody waits for it.
LEMMA AdmittedKeeps ==
  ASSUME PoolConstants, PoolInv, phase = "Open", NEW c \in Caller,
         call[c].pc # "dial", call[c].slot \in ToSet(pool.list),
         NEW r, Gone(r), NEW cl2, Leaves(cl2, call, c, r), NEW w2, LeavesQueue(w2, waiters, c),
         \A d \in ToSet(w2) : call[d].origin # pool.ent[call[c].slot].origin
  PROVE  Fits("Open", AdmitToIdleLocked(pool, call[c].slot), w2, cl2)
<1> DEFINE s == call[c].slot
           idle == { t \in ToSet(pool.list) : pool.ent[t].phase = "Idle" }
<1>1. Fits("Open", pool, waiters, call) /\ PoolFits("Open", pool)
  BY DEF PoolInv, Fits
<1>2. s \in Slot /\ s # 0 /\ s \in ToSet(pool.list) /\ ToSet(pool.list) \subseteq Slot
  BY <1>1, PoolLists, SlotFacts DEF PoolFits
<1>3. CASE Cardinality(idle) < MaxKeepalive
  <2>1. IdleOf(pool) = idle
    BY <1>1, <1>2 DEF PoolFits, EntryFits, IdleOf
  <2>2. AdmitToIdleLocked(pool, s) = SetPhase(pool, s, "Idle")
    BY <1>3 DEF AdmitToIdleLocked
  <2>3. Cardinality(IdleOf(pool)) < MaxKeepalive
    BY <1>3, <2>1
  <2>4. /\ cl2 \in [Caller -> CallState] /\ cl2[c] = r /\ r.slot = 0
        /\ r.pc \in {"idle", "queue", "fail"} /\ \A d \in Caller : d # c => cl2[d] = call[d]
    BY DEF Leaves, Gone
  <2>5. ASSUME NEW d \in Caller PROVE OthersGoOn(call, cl2, s, d)
    <3>1. CASE d = c
      BY <2>4, <3>1 DEF OthersGoOn, Dropped, Pointing
    <3>2. CASE d # c
      <4>1. call[d].slot # s
        BY <1>1, <1>2, <3>2, UsedAlone
      <4> QED BY <2>4, <3>2, <4>1 DEF OthersGoOn
    <3> QED BY <3>1, <3>2
  <2>6. w2 \in Seq(Caller) /\ Len(w2) <= MaxQueue /\ ToSet(w2) \subseteq ToSet(waiters) \ {c}
    BY DEF LeavesQueue
  <2>7. ASSUME NEW d \in ToSet(w2)
        PROVE  d \in ToSet(waiters) /\ cl2[d] = call[d] /\ call[d].origin # pool.ent[s].origin
    <3>1. d # c /\ d \in ToSet(waiters)
      BY <2>6
    <3>2. d \in Caller
      BY <3>1, Before
    <3> QED BY <2>4, <3>1, <3>2
  <2> HIDE DEF s
  <2> QED BY <1>1, <1>2, <2>2, <2>3, <2>4, <2>5, <2>6, <2>7, EntryIdles DEF s
<1>4. CASE ~(Cardinality(idle) < MaxKeepalive)
  <2>1. AdmitToIdleLocked(pool, s) = RetireLocked(pool, s)
    BY <1>4 DEF AdmitToIdleLocked
  <2> QED BY <1>1, <2>1, RetiredGoneKeeps
<1> QED BY <1>3, <1>4

\* The first waiter for the origin gets the connection; if there is none it becomes idle.
LEMMA GiveBackFits ==
  ASSUME PoolConstants, PoolInv, phase = "Open", NEW c \in Caller,
         call[c].pc # "dial", call[c].slot \in ToSet(pool.list),
         NEW r, Gone(r), GiveBack(c, r, call[c].slot)
  PROVE  /\ Fits("Open", pool', waiters', call') /\ call'[c].pc = r.pc
         /\ \A d \in Caller : d # c => call'[d].pc = call[d].pc
<1> DEFINE s == call[c].slot
           ws == Without(waiters, {c})
           want == { i \in DOMAIN ws : call[ws[i]].origin = pool.ent[s].origin }
           m == CHOOSE i \in want : \A j \in want : i <= j
           w == ws[m]
           mine == [call EXCEPT ![c] = r]
<1>1. Fits("Open", pool, waiters, call) /\ PoolFits("Open", pool) /\ call \in [Caller -> CallState]
  BY DEF PoolInv, Fits, CallsFit
<1>2. s \in Slot /\ s # 0 /\ s \in ToSet(pool.list) /\ ToSet(pool.list) \subseteq Slot
  BY <1>1, PoolLists, SlotFacts DEF PoolFits
<1>3. LeavesQueue(ws, waiters, c)
  BY QueueLeft
<1>4. Leaves(mine, call, c, r)
  BY <1>1, GoneSets
<1>5. /\ mine \in [Caller -> CallState] /\ mine[c] = r /\ r.slot = 0 /\ Pointing(r) /\ r.pc # "dial"
      /\ \A d \in Caller : d # c => mine[d] = call[d]
  BY <1>4 DEF Leaves, Gone, Pointing
<1>6. /\ ws \in Seq(Caller) /\ Len(ws) <= MaxQueue /\ ToSet(ws) \subseteq ToSet(waiters) \ {c}
  BY <1>3 DEF LeavesQueue
<1>7. \/ /\ want # {} /\ call' = [mine EXCEPT ![w].slot = s, ![w].told = TRUE]
         /\ waiters' = Without(ws, {w}) /\ pool' = SetPhase(pool, s, "Active")
      \/ /\ want = {} /\ call' = mine /\ waiters' = ws
         /\ pool' = AdmitToIdleLocked(pool, s)
  BY Zenon DEF GiveBack
<1> HIDE DEF mine, ws
<1>8. CASE /\ want # {} /\ call' = [mine EXCEPT ![w].slot = s, ![w].told = TRUE]
           /\ waiters' = Without(ws, {w}) /\ pool' = SetPhase(pool, s, "Active")
  <2>1. m \in want
    <3>1. want \in SUBSET Nat
      BY <1>6
    <3> HIDE DEF want
    <3>2. \E i \in want : \A j \in want : i <= j
      BY <1>8, <3>1, LeastNat
    <3> QED BY <3>2
  <2> HIDE DEF m
  <2>2. w \in ToSet(ws)
    BY <2>1 DEF ToSet
  <2> HIDE DEF want, w, s
  <2>3. w \in Caller /\ w # c /\ w \in ToSet(waiters)
    <3>1. w # c /\ w \in ToSet(waiters)
      BY <1>6, <2>2
    <3> QED BY <3>1, Before
  <2>4. Waits(call[w]) /\ mine[w] = call[w]
    BY <1>5, <2>3, Before
  <2>5. Becomes(call', mine, w, mine[w].pc, s, TRUE)
    <3>1. mine[w].pc \in CallPc /\ s \in Slot \cup {0} /\ TRUE \in BOOLEAN
      BY <1>2, <1>5, <2>3, CallIs
    <3> QED BY <1>5, <1>8, <2>3, <3>1, CallSets
  <2>6. /\ call' \in [Caller -> CallState] /\ call'[w].slot = s /\ call'[w].pc = call[w].pc
        /\ \A d \in Caller : d # w => call'[d] = mine[d]
    BY <2>4, <2>5 DEF Becomes
  <2>7. ASSUME NEW d \in Caller, d # w PROVE OthersGoOn(call, call', s, d)
    <3>1. CASE d = c
      <4>1. call'[d] = r /\ call[d].slot = s /\ call[d].pc # "dial"
        BY <1>5, <2>6, <2>7, <3>1 DEF s
      <4> QED BY <1>5, <4>1 DEF OthersGoOn, Dropped
    <3>2. CASE d # c
      <4>1. call[d].slot # s
        BY <1>1, <1>2, <3>2, UsedAlone DEF s
      <4> QED BY <1>5, <2>6, <2>7, <3>2, <4>1 DEF OthersGoOn
    <3> QED BY <3>1, <3>2
  <2>8. /\ waiters' \in Seq(Caller) /\ Len(waiters') <= MaxQueue
        /\ ToSet(waiters') = ToSet(ws) \ {w}
    <3>1. /\ Without(ws, {w}) \in Seq(Caller) /\ Len(Without(ws, {w})) <= Len(ws)
          /\ ToSet(Without(ws, {w})) = ToSet(ws) \ {w}
      BY <1>6, WithoutProperties
    <3>2. Len(Without(ws, {w})) \in Nat /\ Len(ws) \in Nat /\ MaxQueue \in Nat
      BY <1>6, <3>1, SlotFacts
    <3>3. Len(Without(ws, {w})) <= MaxQueue
      BY <1>6, <3>1, <3>2
    <3>4. waiters' = Without(ws, {w})
      BY <1>8
    <3> QED BY <3>1, <3>3, <3>4, Zenon
  <2>9. ASSUME NEW d \in ToSet(waiters') PROVE d \in ToSet(waiters) /\ call'[d] = call[d]
    <3>1. d \in ToSet(waiters) /\ d # c /\ d # w
      BY <1>6, <2>8
    <3>2. d \in Caller
      BY <3>1, Before
    <3> QED BY <1>5, <2>6, <3>1, <3>2
  <2>10. call[w].slot = 0 /\ call'[w].pc \in {"added", "lease", "parked", "sliced"}
    BY <2>4, <2>6 DEF Waits
  <2>11. Fits("Open", SetPhase(pool, s, "Active"), waiters', call')
    BY <1>1, <1>2, <2>3, <2>6, <2>7, <2>8, <2>9, <2>10, EntryTaken
  <2>12. call'[c].pc = r.pc /\ \A d \in Caller : d # c => call'[d].pc = call[d].pc
    BY <1>5, <2>3, <2>4, <2>6
  <2> QED BY <1>8, <2>11, <2>12
<1>9. CASE /\ want = {} /\ call' = mine /\ waiters' = ws
           /\ pool' = AdmitToIdleLocked(pool, s)
  <2>1. ASSUME NEW d \in ToSet(waiters') PROVE call[d].origin # pool.ent[s].origin
    <3>1. PICK i \in DOMAIN ws : d = ws[i]
      BY <1>9 DEF ToSet
    <3> QED BY <1>9, <3>1
  <2>2. Leaves(call', call, c, r) /\ LeavesQueue(waiters', waiters, c)
    BY <1>3, <1>4, <1>9
  <2> HIDE DEF want, w, m
  <2>3. Fits("Open", AdmitToIdleLocked(pool, s), waiters', call')
    BY <1>2, <2>1, <2>2, AdmittedKeeps
  <2>4. call'[c].pc = r.pc /\ \A d \in Caller : d # c => call'[d].pc = call[d].pc
    BY <1>5, <1>9
  <2> QED BY <1>9, <2>3, <2>4
<1> HIDE DEF want, w, m, s
<1> QED BY <1>7, <1>8, <1>9

\* After the slice the caller has nothing.
LEMMA SlicedKeeps ==
  ASSUME PoolConstants, PoolInv, NEW c \in Caller, Sliced(c) PROVE PoolInv'
<1> DEFINE s == call[c].slot
           r(pc) == [NoCall EXCEPT !.pc = pc, !.origin = call[c].origin]
<1>1. /\ call[c].pc = "sliced" /\ UNCHANGED quiet /\ Fits(phase, pool, waiters, call)
      /\ call \in [Caller -> CallState] /\ call[c].slot \in Slot \cup {0} /\ pool \in PoolState
      /\ call[c].origin \in Origin \cup {NoOrigin}
  BY Before DEF Sliced, At
<1>2. PICK pc \in {"queue", "fail"} :
         IF s \in ToSet(pool.list) /\ phase = "Open" THEN GiveBack(c, r(pc), s)
         ELSE /\ call' = [call EXCEPT ![c] = r(pc)] /\ waiters' = Without(waiters, {c})
              /\ pool' = IF s \in ToSet(pool.list) THEN RetireLocked(pool, s) ELSE pool
  BY Zenon DEF Sliced
<1> DEFINE then == r(pc)
<1>3. Gone(then) /\ then.pc # "idle"
  BY <1>1 DEF Gone, NoCall, CallState, CallPc
<1> HIDE DEF r
<1>4. CASE s \in ToSet(pool.list) /\ phase = "Open"
  <2>1. GiveBack(c, then, s)
    BY <1>2, <1>4
  <2> HIDE DEF then
  <2>2. /\ Fits("Open", pool', waiters', call') /\ call'[c].pc = then.pc
        /\ \A d \in Caller : d # c => call'[d].pc = call[d].pc
    <3>1. call[c].pc # "dial"
      BY <1>1
    <3> QED BY <1>3, <1>4, <2>1, <3>1, GiveBackFits
  <2>3. \A d \in Caller : call'[d].pc = "idle" <=> call[d].pc = "idle"
    BY <1>1, <1>3, <2>2
  <2>4. Fits(phase, pool', waiters', call')
    BY <1>4, <2>2
  <2> QED BY <1>1, <2>3, <2>4, QuietStep
<1>5. CASE ~(s \in ToSet(pool.list) /\ phase = "Open")
  <2>1. /\ call' = [call EXCEPT ![c] = then] /\ waiters' = Without(waiters, {c})
        /\ pool' = IF s \in ToSet(pool.list) THEN RetireLocked(pool, s) ELSE pool
    BY <1>2, <1>5
  <2> HIDE DEF then
  <2>2. Leaves(call', call, c, then) /\ LeavesQueue(waiters', waiters, c)
    BY <1>1, <1>3, <2>1, GoneSets, QueueLeft
  <2>3. Fits(phase, pool', waiters', call')
    <3>1. CASE s \in ToSet(pool.list)
      <4>1. pool' = RetireLocked(pool, s) /\ call[c].pc # "dial"
        BY <1>1, <2>1, <3>1
      <4> QED BY <1>1, <1>3, <2>2, <3>1, <4>1, RetiredGoneKeeps
    <3>2. CASE s \notin ToSet(pool.list)
      <4>1. pool' = pool
        BY <2>1, <3>2
      <4>2. call[c].slot \in Slot => pool.ent[call[c].slot].phase # "Active"
        BY <1>1, <3>2 DEF Fits, PoolFits, EntryFits
      <4> QED BY <1>1, <1>3, <2>2, <4>1, <4>2, GoneKeeps
    <3> QED BY <3>1, <3>2
  <2>4. \A d \in Caller : call'[d].pc = "idle" <=> call[d].pc = "idle"
    BY <1>1, <1>3, <2>2 DEF Leaves
  <2> QED BY <1>1, <2>3, <2>4, QuietStep
<1> QED BY <1>4, <1>5

\* Fail, and Release without a successor: the request is not counted any more.
LEMMA LeaveStep ==
  ASSUME PoolConstants, PoolInv, UNCHANGED <<phase, drained>>, inflight' = inflight - 1,
         NotifyShutdown, NEW c \in Caller, call[c].pc # "idle", call'[c].pc = "idle",
         \A d \in Caller : d # c => call'[d].pc = call[d].pc,
         Fits(phase, pool', waiters', call')
  PROVE  PoolInv'
<1>1. EndsFit'
  BY EndsLeave DEF PoolInv
<1> QED BY <1>1 DEF PoolInv

LEMMA FailKeeps ==
  ASSUME PoolConstants, PoolInv, NEW c \in Caller, Fail(c) PROVE PoolInv'
<1>1. /\ call[c].pc = "fail" /\ inflight' = inflight - 1 /\ NotifyShutdown
      /\ call' = [call EXCEPT ![c] = NoCall] /\ pool' = pool /\ waiters' = waiters
      /\ UNCHANGED <<phase, drained>>
  BY DEF Fail, At
<1>2. /\ call \in [Caller -> CallState] /\ Fits(phase, pool, waiters, call)
      /\ call[c].slot = 0 /\ c \notin ToSet(waiters)
  BY <1>1, Before DEF Pointing, Waits
<1>3. Gone(NoCall) /\ NoCall.pc = "idle"
  BY DEF Gone, NoCall, CallState, CallPc
<1>4. Leaves(call', call, c, NoCall) /\ LeavesQueue(waiters', waiters, c)
  BY <1>1, <1>2, <1>3, GoneSets, QueueLeft
<1>5. Fits(phase, pool', waiters', call')
  <2>1. call[c].slot \in Slot => pool.ent[call[c].slot].phase # "Active"
    BY <1>2, SlotFacts
  <2> QED BY <1>1, <1>2, <1>3, <1>4, <2>1, GoneKeeps
<1>6. call'[c].pc = "idle" /\ \A d \in Caller : d # c => call'[d].pc = call[d].pc
  BY <1>3, <1>4 DEF Leaves
<1>7. call[c].pc # "idle"
  BY <1>1
<1> QED BY <1>1, <1>5, <1>6, <1>7, LeaveStep

LEMMA ReleaseKeeps ==
  ASSUME PoolConstants, PoolInv, NEW c \in Caller, NEW healthy \in BOOLEAN, Release(c, healthy)
  PROVE  PoolInv'
<1> DEFINE s == call[c].slot
<1>1. /\ call[c].pc = "lease" /\ inflight' = inflight - 1 /\ NotifyShutdown
      /\ UNCHANGED <<phase, drained>>
  BY DEF Release, At
<1>2. /\ call \in [Caller -> CallState] /\ Fits(phase, pool, waiters, call)
      /\ call[c].slot \in Slot \cup {0} /\ c \notin ToSet(waiters)
      /\ call[c].pc \notin {"idle", "dial"}
  BY <1>1, Before DEF Waits
<1>3. Gone(NoCall) /\ NoCall.pc = "idle"
  BY DEF Gone, NoCall, CallState, CallPc
<1>4. \/ /\ s \notin ToSet(pool.list) /\ call' = [call EXCEPT ![c] = NoCall]
         /\ pool' = pool /\ waiters' = waiters
      \/ /\ s \in ToSet(pool.list) /\ call' = [call EXCEPT ![c] = NoCall]
         /\ pool' = RetireLocked(pool, s) /\ waiters' = waiters
      \/ s \in ToSet(pool.list) /\ phase = "Open" /\ GiveBack(c, NoCall, s)
  BY DEF Release
<1>5. ASSUME call' = [call EXCEPT ![c] = NoCall], waiters' = waiters
      PROVE  /\ Leaves(call', call, c, NoCall) /\ LeavesQueue(waiters', waiters, c)
             /\ call'[c].pc = "idle" /\ \A d \in Caller : d # c => call'[d].pc = call[d].pc
  <2>1. Leaves(call', call, c, NoCall) /\ LeavesQueue(waiters', waiters, c)
    BY <1>2, <1>3, <1>5, GoneSets, QueueLeft
  <2> QED BY <1>3, <2>1 DEF Leaves
<1>6. CASE /\ s \notin ToSet(pool.list) /\ call' = [call EXCEPT ![c] = NoCall]
           /\ pool' = pool /\ waiters' = waiters
  <2>1. call[c].slot \in Slot => pool.ent[call[c].slot].phase # "Active"
    BY <1>2, <1>6 DEF Fits, PoolFits, EntryFits
  <2>2. Fits(phase, pool', waiters', call')
    BY <1>2, <1>3, <1>5, <1>6, <2>1, GoneKeeps
  <2> QED BY <1>1, <1>2, <1>5, <1>6, <2>2, LeaveStep
<1>7. CASE /\ s \in ToSet(pool.list) /\ call' = [call EXCEPT ![c] = NoCall]
           /\ pool' = RetireLocked(pool, s) /\ waiters' = waiters
  <2>1. Fits(phase, pool', waiters', call')
    <3>1. call[c].pc # "dial"
      BY <1>2
    <3> QED BY <1>2, <1>3, <1>5, <1>7, <3>1, RetiredGoneKeeps
  <2> QED BY <1>1, <1>2, <1>5, <1>7, <2>1, LeaveStep
<1>8. CASE s \in ToSet(pool.list) /\ phase = "Open" /\ GiveBack(c, NoCall, s)
  <2>1. /\ Fits("Open", pool', waiters', call') /\ call'[c].pc = NoCall.pc
        /\ \A d \in Caller : d # c => call'[d].pc = call[d].pc
    <3>1. call[c].pc # "dial"
      BY <1>2
    <3> QED BY <1>3, <1>8, <3>1, GiveBackFits
  <2>2. Fits(phase, pool', waiters', call') /\ call'[c].pc = "idle"
    BY <1>3, <1>8, <2>1
  <2> QED BY <1>1, <1>2, <2>1, <2>2, LeaveStep
<1> QED BY <1>4, <1>6, <1>7, <1>8

\* The dial returned.
LEMMA DialStep ==
  ASSUME PoolConstants, PoolInv, UNCHANGED quiet, waiters' = waiters, NEW c \in Caller,
         call[c].pc = "dial", NEW e \in EntryType, phase = "Closed" => e.net # "up",
         pool' = EntrySet(pool, call[c].slot, e), NEW x, NEW y, Becomes(call', call, c, x, y, call[c].told),
         \/ e.phase = "Active" /\ phase # "Closed" /\ x = "lease" /\ y = call[c].slot
         \/ e.phase = "Retiring" /\ x = "fail" /\ y = 0
  PROVE  PoolInv'
<1>1. /\ call' \in [Caller -> CallState] /\ call'[c].pc = x /\ call'[c].slot = y
      /\ \A d \in Caller : d # c => call'[d] = call[d]
  BY DEF Becomes
<1>2. Fits(phase, pool, waiters, call)
  BY DEF PoolInv
<1>3. Fits(phase, pool', waiters, call')
  <2>1. \/ /\ e.phase = "Active" /\ phase # "Closed"
           /\ call'[c].slot = call[c].slot /\ call'[c].pc = "lease"
        \/ e.phase = "Retiring" /\ call'[c].slot = 0 /\ call'[c].pc = "fail"
    BY <1>1
  <2> QED BY <1>1, <1>2, <2>1, DialEnds
<1>4. \A d \in Caller : call'[d].pc = "idle" <=> call[d].pc = "idle"
  BY <1>1
<1> QED BY <1>3, <1>4, QuietStep

\* The connection below an entry is set, with the phase of the entry or without.
WithNet(e, n) == [e EXCEPT !.net = n]
NetSet(p, s, n) == [p EXCEPT !.ent[s].net = n]
Nets == {"none", "failing", "up", "closing", "gone"}

LEMMA NetSets ==
  ASSUME NEW p \in PoolState, NEW s \in Slot, NEW n \in Nets
  PROVE  /\ WithNet(p.ent[s], n) \in EntryType /\ WithNet(p.ent[s], n).net = n
         /\ WithNet(p.ent[s], n).phase = p.ent[s].phase
         /\ WithNet(p.ent[s], n).origin = p.ent[s].origin
         /\ NetSet(p, s, n) = EntrySet(p, s, WithNet(p.ent[s], n))
         /\ RetireLocked(NetSet(p, s, n), s) = EntrySet(p, s, RetiredEntry(WithNet(p.ent[s], n)))
         /\ SetPhase(NetSet(p, s, n), s, "Active")
              = EntrySet(p, s, [WithNet(p.ent[s], n) EXCEPT !.phase = "Active"])
<1> DEFINE f == WithNet(p.ent[s], n)
           q == NetSet(p, s, n)
<1>1. p.ent[s] \in EntryType /\ p.ent \in [Slot -> EntryType]
  BY PoolLists
<1>2. f \in EntryType /\ f.net = n /\ f.phase = p.ent[s].phase /\ f.origin = p.ent[s].origin
  BY <1>1 DEF EntryType, WithNet, Nets
<1>3. q = EntrySet(p, s, f)
  BY DEF EntrySet, NetSet, WithNet
<1> HIDE DEF f, q
<1>4. q \in PoolState /\ q.list = p.list /\ q.ent[s] = f
  BY <1>2, <1>3, EntrySets
<1>5. ASSUME NEW g PROVE EntrySet(q, s, g) = EntrySet(p, s, g)
  BY <1>1, <1>3 DEF EntrySet, PoolState
<1>6. RetireLocked(q, s) = EntrySet(q, s, RetiredEntry(q.ent[s]))
  BY DEF RetireLocked, EntrySet
<1>7. SetPhase(q, s, "Active") = EntrySet(q, s, [q.ent[s] EXCEPT !.phase = "Active"])
  BY <1>4, PhaseSet
<1>8. RetireLocked(q, s) = EntrySet(p, s, RetiredEntry(f))
  BY <1>4, <1>5, <1>6
<1>9. SetPhase(q, s, "Active") = EntrySet(p, s, [f EXCEPT !.phase = "Active"])
  BY <1>4, <1>5, <1>7
<1> QED BY <1>2, <1>3, <1>8, <1>9 DEF f, q

LEMMA DialFailsKeeps ==
  ASSUME PoolConstants, PoolInv, NEW c \in Caller, DialFails(c) PROVE PoolInv'
<1> DEFINE s == call[c].slot
<1>1. /\ call[c].pc = "dial" /\ UNCHANGED quiet /\ waiters' = waiters
      /\ call' = [call EXCEPT ![c].pc = "fail", ![c].slot = 0]
  BY DEF DialFails, At, Holds
<1>2. PICK net \in {"none", "failing"} :
         pool' = RetireLocked(NetSet(pool, s, net), s)
  BY DEF DialFails, NetSet
<1>3. /\ pool \in PoolState /\ s \in Slot /\ call \in [Caller -> CallState]
      /\ call[c].told \in BOOLEAN
  BY <1>1, Before DEF Pointing
<1> DEFINE f == WithNet(pool.ent[s], net)
           e == RetiredEntry(f)
<1>4. f \in EntryType /\ pool' = EntrySet(pool, s, e)
  <2>1. net \in Nets
    BY DEF Nets
  <2> QED BY <1>2, <1>3, <2>1, NetSets
<1> HIDE DEF f
<1>5. e \in EntryType /\ e.phase = "Retiring" /\ e.net # "up"
  BY <1>4, RetiredEntryIs
<1> HIDE DEF e
<1>6. Becomes(call', call, c, "fail", 0, call[c].told)
  <2>1. "fail" \in CallPc /\ 0 \in Slot \cup {0}
    BY DEF CallPc
  <2> QED BY <1>1, <1>3, <2>1, CallSets
<1> QED BY <1>1, <1>4, <1>5, <1>6, DialStep

LEMMA DialSucceedsKeeps ==
  ASSUME PoolConstants, PoolInv, NEW c \in Caller, DialSucceeds(c) PROVE PoolInv'
<1> DEFINE s == call[c].slot
           p == NetSet(pool, s, "up")
           f == WithNet(pool.ent[s], "up")
<1>1. /\ call[c].pc = "dial" /\ UNCHANGED quiet /\ waiters' = waiters
      /\ IF phase = "Open"
         THEN call' = [call EXCEPT ![c].pc = "lease"] /\ pool' = SetPhase(p, s, "Active")
         ELSE call' = [call EXCEPT ![c].pc = "fail", ![c].slot = 0] /\ pool' = RetireLocked(p, s)
  BY Zenon DEF DialSucceeds, At, Holds, Goes, NetSet
<1>2. /\ pool \in PoolState /\ s \in Slot /\ call \in [Caller -> CallState]
      /\ call[c].told \in BOOLEAN
  BY <1>1, Before DEF Pointing
<1>3. /\ f \in EntryType
      /\ RetireLocked(p, s) = EntrySet(pool, s, RetiredEntry(f))
      /\ SetPhase(p, s, "Active") = EntrySet(pool, s, [f EXCEPT !.phase = "Active"])
  <2>1. "up" \in Nets
    BY DEF Nets
  <2> QED BY <1>2, <2>1, NetSets
<1> HIDE DEF p, f
<1>4. "fail" \in CallPc /\ "lease" \in CallPc /\ 0 \in Slot \cup {0} /\ s \in Slot \cup {0}
  BY <1>2 DEF CallPc
<1>5. CASE phase = "Open"
  <2> DEFINE e == [f EXCEPT !.phase = "Active"]
  <2>1. e \in EntryType /\ e.phase = "Active" /\ pool' = EntrySet(pool, s, e)
    BY <1>1, <1>3, <1>5 DEF EntryType
  <2> HIDE DEF e
  <2>2. call' = [call EXCEPT ![c].pc = "lease"]
    BY <1>1, <1>5
  <2>3. Becomes(call', call, c, "lease", s, call[c].told)
    BY <1>2, <1>4, <2>2, CallSets
  <2>4. phase # "Closed"
    BY <1>5
  <2> QED BY <1>1, <2>1, <2>3, <2>4, DialStep
<1>6. CASE phase # "Open"
  <2> DEFINE e == RetiredEntry(f)
  <2>1. e \in EntryType /\ e.phase = "Retiring" /\ e.net # "up" /\ pool' = EntrySet(pool, s, e)
    BY <1>1, <1>3, <1>6, RetiredEntryIs
  <2> HIDE DEF e
  <2>2. call' = [call EXCEPT ![c].pc = "fail", ![c].slot = 0]
    BY <1>1, <1>6
  <2>3. Becomes(call', call, c, "fail", 0, call[c].told)
    BY <1>2, <1>4, <2>2, CallSets
  <2> QED BY <1>1, <2>1, <2>3, DialStep
<1> QED BY <1>5, <1>6

-----------------------------------------------------------------------------
(***************************************************************************)
(* The steps of the others.                                                *)
(***************************************************************************)

\* The waiters are told and leave the queue.
LEMMA Dismissed ==
  ASSUME PoolConstants, NEW ph, NEW p, Fits(ph, p, waiters, call), DismissWaiters
  PROVE  Fits(ph, p, waiters', call') /\ \A d \in Caller : call'[d].pc = call[d].pc
<1>1. /\ waiters' = <<>>
      /\ call' = [c \in Caller |-> IF c \in ToSet(waiters) THEN [call[c] EXCEPT !.told = TRUE]
                                   ELSE call[c]]
  BY DEF DismissWaiters
<1>2. ASSUME NEW d \in Caller PROVE Pointing(call[d]) /\ call[d] \in CallState
  BY DEF Fits, CallsFit
<1>3. ASSUME NEW d \in Caller
      PROVE  /\ call'[d] \in CallState /\ call'[d].pc = call[d].pc /\ call'[d].slot = call[d].slot
  BY <1>1, <1>2 DEF CallState
<1>4. call' \in [Caller -> CallState]
  <2>1. call' = [c \in Caller |-> call'[c]]
    BY <1>1, Zenon
  <2> QED BY <1>3, <2>1
<1>5. ASSUME NEW d \in Caller PROVE CallGoesOn(p, call[d], call'[d])
  BY <1>2, <1>3 DEF CallGoesOn, Pointing
<1>6. waiters' \in Seq(Caller) /\ Len(waiters') <= MaxQueue /\ ToSet(waiters') = {}
  BY <1>1, SlotFacts DEF ToSet
<1>7. Fits(ph, p, waiters', call')
  BY <1>4, <1>5, <1>6, CallsGoOn
<1> QED BY <1>3, <1>7

\* The end of a step that begins or ends no request.
LEMMA CountStays ==
  ASSUME PoolInv, \A d \in Caller : call'[d].pc = "idle" <=> call[d].pc = "idle", inflight' = inflight
  PROVE  inflight' = Cardinality(Busy(call'))
<1>1. Busy(call') = Busy(call)
  BY DEF Busy
<1> QED BY <1>1 DEF PoolInv, EndsFit

LEMMA CloseKeeps ==
  ASSUME PoolConstants, PoolInv, Close PROVE PoolInv'
<1> DEFINE q == [pool EXCEPT !.ent = [s \in Slot |->
                   IF s \in ToSet(pool.list) THEN RetiredEntry(pool.ent[s]) ELSE pool.ent[s]]]
<1>1. /\ phase' = "Closed" /\ pool' = q /\ DismissWaiters /\ NotifyShutdown /\ phase # "Closed"
      /\ inflight' = inflight /\ drained' = drained
  BY DEF Close
<1>2. /\ Fits(phase, pool, waiters, call) /\ phase \in Phases /\ PoolFits(phase, pool)
      /\ pool \in PoolState /\ EndsFit
  BY DEF PoolInv, Fits, PoolFits
<1>3. /\ q.list = pool.list /\ q = [list |-> q.list, ent |-> q.ent] /\ DOMAIN q.ent = Slot
      /\ \A s \in Slot : q.ent[s] = IF s \in ToSet(pool.list) THEN RetiredEntry(pool.ent[s])
                                     ELSE pool.ent[s]
      /\ q.ent = [s \in Slot |-> q.ent[s]]
  BY <1>2 DEF PoolState
<1> HIDE DEF q
<1>4. ASSUME NEW s \in Slot
      PROVE  /\ q.ent[s] \in EntryType /\ q.ent[s].net # "up" /\ QuieterEntry(pool, q, s)
  <2>1. pool.ent[s] \in EntryType /\ EntryFits(phase, pool, s)
    BY <1>2, PoolLists DEF PoolFits
  <2>2. CASE s \in ToSet(pool.list)
    <3>1. /\ q.ent[s] \in EntryType /\ q.ent[s].phase = "Retiring" /\ q.ent[s].net # "up"
          /\ (q.ent[s].net \in Live <=> pool.ent[s].net \in Live)
      BY <1>3, <2>1, <2>2, RetiredEntryIs
    <3> QED BY <1>3, <2>2, <3>1 DEF QuieterEntry
  <2>3. CASE s \notin ToSet(pool.list)
    BY <1>1, <1>3, <2>1, <2>3 DEF QuieterEntry, EntryFits, Live
  <2> QED BY <2>2, <2>3
<1>5. q \in PoolState
  <2>1. q.ent \in [Slot -> EntryType] /\ q.list \in Seq(Slot)
    BY <1>2, <1>3, <1>4 DEF PoolState
  <2> QED BY <1>3, <2>1, Zenon DEF PoolState
<1>6. Quieter(pool, q)
  <2>1. Len(pool.list) \in Nat
    BY <1>2, PoolLists
  <2> QED BY <1>3, <1>4, <1>5, <2>1 DEF Quieter
<1>7. ClosesRightly("Closed", pool, q, call)
  BY <1>4 DEF ClosesRightly
<1>8. Fits("Closed", q, waiters, call)
  <2>1. "Closed" \in Phases
    BY DEF Phases
  <2> QED BY <1>2, <1>6, <1>7, <2>1, QuieterKeeps
<1>9. Fits("Closed", pool', waiters', call') /\ \A d \in Caller : call'[d].pc = call[d].pc
  BY <1>1, <1>8, Dismissed
<1>10. EndsFit'
  <2>1. inflight' = Cardinality(Busy(call'))
    BY <1>1, <1>9, CountStays
  <2>2. shut' \in {"none", "check"}
    BY <1>1, <1>2 DEF NotifyShutdown, EndsFit
  <2> QED BY <1>1, <1>2, <2>1, <2>2 DEF EndsFit
<1> QED BY <1>1, <1>9, <1>10 DEF PoolInv

LEMMA ShutdownKeeps ==
  ASSUME PoolConstants, PoolInv, Shutdown PROVE PoolInv'
<1>1. /\ phase = "Open" /\ phase' = "Draining" /\ DismissWaiters /\ shut' = "check"
      /\ inflight' = inflight /\ pool' = pool /\ drained' = drained
  BY DEF Shutdown
<1>2. Fits(phase, pool, waiters, call) /\ PoolFits(phase, pool) /\ pool \in PoolState /\ EndsFit
  BY DEF PoolInv, Fits, PoolFits
<1>3. Quieter(pool, pool)
  <2>1. Len(pool.list) \in Nat
    BY <1>2, PoolLists
  <2>2. ASSUME NEW s \in Slot PROVE QuieterEntry(pool, pool, s)
    <3>1. EntryFits(phase, pool, s)
      BY <1>2 DEF PoolFits
    <3> QED BY <3>1 DEF QuieterEntry, EntryFits
  <2> QED BY <1>2, <2>1, <2>2 DEF Quieter
<1>4. Fits("Draining", pool, waiters, call)
  <2>1. "Draining" \in Phases /\ (phase = "Closed" => "Draining" = "Closed")
    BY <1>1 DEF Phases
  <2>2. ClosesRightly("Draining", pool, pool, call)
    BY DEF ClosesRightly
  <2> QED BY <1>2, <1>3, <2>1, <2>2, QuieterKeeps
<1>5. Fits("Draining", pool, waiters', call') /\ \A d \in Caller : call'[d].pc = call[d].pc
  BY <1>1, <1>4, Dismissed
<1>6. EndsFit'
  <2>1. inflight' = Cardinality(Busy(call'))
    BY <1>1, <1>5, CountStays
  <2> QED BY <1>1, <1>2, <2>1 DEF EndsFit
<1> QED BY <1>1, <1>5, <1>6 DEF PoolInv

LEMMA ShutdownOnKeeps ==
  ASSUME PoolConstants, PoolInv, ShutdownAgain \/ ShutdownCheck \/ ShutdownWakes
  PROVE  PoolInv'
<1>1. UNCHANGED <<phase, inflight, pool, waiters, call>>
  BY DEF ShutdownAgain, ShutdownCheck, ShutdownWakes
<1>2. EndsFit /\ Busy(call') = Busy(call) /\ inflight \in Nat
  <2>1. Cardinality(Busy(call)) \in Nat
    BY CallersCount DEF Busy
  <2> QED BY <1>1, <2>1 DEF PoolInv, EndsFit
<1>3. EndsFit'
  <2>1. CASE ShutdownAgain
    BY <1>1, <1>2, <2>1 DEF ShutdownAgain, EndsFit
  <2>2. CASE ShutdownCheck
    <3>1. CASE inflight = 0
      BY <1>1, <1>2, <2>2, <3>1 DEF ShutdownCheck, EndsFit
    <3>2. CASE inflight # 0
      <4>1. /\ shut = "check" /\ drained' = drained /\ shut' \in {"none", "asleep"}
            /\ phase = "Closed" => shut' = "none"
        BY <2>2, <3>2 DEF ShutdownCheck
      <4> QED BY <1>1, <1>2, <3>2, <4>1 DEF EndsFit
    <3> QED BY <3>1, <3>2
  <2>3. CASE ShutdownWakes
    BY <1>1, <1>2, <2>3 DEF ShutdownWakes, EndsFit
  <2> QED BY <2>1, <2>2, <2>3
<1> QED BY <1>1, <1>3 DEF PoolInv

\* The end of a step that only changes the pool.
LEMMA PoolStep ==
  ASSUME PoolInv, UNCHANGED <<phase, inflight, waiters, call, shut, drained>>,
         Fits(phase, pool', waiters, call)
  PROVE  PoolInv'
<1>1. EndsFit'
  BY EndsStay DEF PoolInv
<1> QED BY <1>1 DEF PoolInv

LEMMA StatsKeeps ==
  ASSUME PoolConstants, PoolInv, Stats PROVE PoolInv'
<1>1. pool' = SweepLocked(pool) /\ UNCHANGED <<phase, inflight, waiters, call, shut, drained>>
  BY DEF Stats
<1>2. Fits(phase, SweepLocked(pool), waiters, call)
  BY SweepKeeps DEF PoolInv
<1> QED BY <1>1, <1>2, PoolStep

\* Below an entry something ends, or its connection goes bad.
LEMMA BelowKeeps ==
  ASSUME PoolConstants, PoolInv, NEW s \in Slot, NEW e \in EntryType,
         UNCHANGED <<phase, inflight, waiters, call, shut, drained>>,
         pool' = EntrySet(pool, s, e), pool.ent[s].net \in Live,
         e.phase = pool.ent[s].phase, e.origin = pool.ent[s].origin,
         e.net = "gone" \/ (e.net = "up" /\ pool.ent[s].net = "up")
  PROVE  PoolInv'
<1>1. /\ Fits(phase, pool, waiters, call) /\ PoolFits(phase, pool) /\ pool \in PoolState
      /\ phase \in Phases
  BY DEF PoolInv, Fits, PoolFits
<1>2. /\ pool' \in PoolState /\ pool'.list = pool.list /\ pool'.ent[s] = e
      /\ \A t \in Slot : t # s => pool'.ent[t] = pool.ent[t]
  BY <1>1, EntrySets
<1>3. ASSUME NEW t \in Slot PROVE QuieterEntry(pool, pool', t)
  <2>1. EntryFits(phase, pool, t)
    BY <1>1 DEF PoolFits
  <2>2. CASE t = s
    <3>1. CASE s \in ToSet(pool.list)
      BY <1>2, <2>2, <3>1 DEF QuieterEntry, Live
    <3>2. CASE s \notin ToSet(pool.list)
      BY <1>2, <2>1, <2>2, <3>2 DEF QuieterEntry, EntryFits, Live
    <3> QED BY <3>1, <3>2
  <2>3. CASE t # s
    BY <1>2, <2>1, <2>3 DEF QuieterEntry, EntryFits
  <2> QED BY <2>2, <2>3
<1>4. Quieter(pool, pool')
  <2>1. Len(pool.list) \in Nat
    BY <1>1, PoolLists
  <2> QED BY <1>2, <1>3, <2>1 DEF Quieter
<1>5. ClosesRightly(phase, pool, pool', call)
  <2>1. ASSUME phase = "Closed", NEW t \in Slot PROVE pool'.ent[t].net # "up"
    <3>1. pool.ent[t].net # "up"
      BY <1>1, <2>1 DEF PoolFits, EntryFits
    <3> QED BY <1>2, <3>1
  <2>2. ASSUME NEW t \in ToSet(pool.list), pool.ent[t].phase = "Dialing"
        PROVE  pool'.ent[t].phase = "Dialing" /\ t \in ToSet(pool'.list)
    <3>1. t \in Slot
      BY <1>1, PoolLists
    <3> QED BY <1>2, <2>2, <3>1
  <2> QED BY <2>1, <2>2 DEF ClosesRightly
<1>6. Fits(phase, pool', waiters, call)
  BY <1>1, <1>4, <1>5, QuieterKeeps
<1> QED BY <1>6, PoolStep

LEMMA NetReleasesKeeps ==
  ASSUME PoolConstants, PoolInv, NEW s \in Slot, NetReleases(s) PROVE PoolInv'
<1>1. pool \in PoolState
  BY DEF PoolInv, Fits, PoolFits
<1> DEFINE e == WithNet(pool.ent[s], "gone")
<1>2. /\ pool' = NetSet(pool, s, "gone") /\ pool.ent[s].net \in Live
      /\ UNCHANGED <<phase, inflight, waiters, call, shut, drained>>
  BY DEF NetReleases, NetSet, Live
<1>3. /\ e \in EntryType /\ e.net = "gone" /\ e.phase = pool.ent[s].phase
      /\ e.origin = pool.ent[s].origin /\ NetSet(pool, s, "gone") = EntrySet(pool, s, e)
  <2>1. "gone" \in Nets
    BY DEF Nets
  <2> QED BY <1>1, <2>1, NetSets
<1>4. pool' = EntrySet(pool, s, e)
  BY <1>2, <1>3, Zenon
<1> HIDE DEF e
<1>5. /\ e \in EntryType /\ e.net = "gone" /\ e.phase = pool.ent[s].phase
      /\ e.origin = pool.ent[s].origin
  BY <1>3
<1>6. pool.ent[s].net \in Live /\ UNCHANGED <<phase, inflight, waiters, call, shut, drained>>
  BY <1>2
<1> QED BY <1>4, <1>5, <1>6, BelowKeeps

LEMMA SpoilsKeeps ==
  ASSUME PoolConstants, PoolInv, NEW s \in Slot, Spoils(s) PROVE PoolInv'
<1>1. pool \in PoolState /\ pool.ent[s] \in EntryType
  BY PoolLists DEF PoolInv, Fits, PoolFits
<1> DEFINE e == [pool.ent[s] EXCEPT !.spoiled = TRUE]
<1>2. /\ pool' = [pool EXCEPT !.ent[s].spoiled = TRUE] /\ pool.ent[s].net = "up"
      /\ UNCHANGED <<phase, inflight, waiters, call, shut, drained>>
  BY DEF Spoils
<1>3. /\ e \in EntryType /\ e.net = pool.ent[s].net /\ e.phase = pool.ent[s].phase
      /\ e.origin = pool.ent[s].origin
  BY <1>1 DEF EntryType
<1>4. pool' = EntrySet(pool, s, e)
  BY <1>2 DEF EntrySet
<1>5. pool.ent[s].net \in Live /\ pool.ent[s].net = "up" /\ e.net = "up"
  BY <1>2, <1>3 DEF Live
<1> HIDE DEF e
<1> QED BY <1>2, <1>3, <1>4, <1>5, BelowKeeps

-----------------------------------------------------------------------------
(***************************************************************************)
(* The specification.                                                      *)
(***************************************************************************)

LEMMA PoolStarts ==
  ASSUME PoolConstants, Init PROVE PoolInv
<1>1. /\ phase = "Open" /\ inflight = 0 /\ waiters = <<>> /\ shut = "none" /\ drained = FALSE
      /\ pool = [list |-> <<>>, ent |-> [s \in Slot |-> Freed]]
      /\ call = [c \in Caller |-> NoCall]
  BY DEF Init
<1>2. Freed \in EntryType /\ Freed.phase = "Freed" /\ Freed.net = "none"
  BY DEF Freed, EntryType
<1>3. NoCall \in CallState /\ NoCall.pc = "idle" /\ NoCall.slot = 0
  BY DEF NoCall, CallState, CallPc
<1>4. /\ pool \in PoolState /\ Len(pool.list) = 0 /\ ToSet(pool.list) = {}
      /\ \A s \in Slot : pool.ent[s] = Freed
  BY <1>1, <1>2 DEF PoolState, ToSet
<1>5. \A c \in Caller : call[c] = NoCall
  BY <1>1
<1>6. PoolFits(phase, pool)
  <2>1. IdleOf(pool) = {}
    BY <1>2, <1>4 DEF IdleOf
  <2>2. Cardinality(IdleOf(pool)) <= MaxKeepalive /\ Len(pool.list) <= MaxConnections
    BY <1>4, <2>1, FS_EmptySet, SlotFacts
  <2>3. ASSUME NEW s \in Slot PROVE EntryFits(phase, pool, s)
    BY <1>1, <1>2, <1>4 DEF EntryFits, Live
  <2> QED BY <1>4, <2>2, <2>3 DEF PoolFits
<1>7. CallsFit(phase, pool, call)
  <2>1. Physical(pool, call) = {}
    BY <1>2, <1>3, <1>4, <1>5 DEF Physical, DialOf, Live
  <2>2. Cardinality(Physical(pool, call)) <= MaxConnections
    BY <2>1, FS_EmptySet, SlotFacts
  <2>3. ASSUME NEW c \in Caller
        PROVE Pointing(call[c]) /\ DialFits(phase, pool, call[c]) /\ Alone(call, c)
    BY <1>3, <1>5 DEF Pointing, DialFits, Alone
  <2>4. ASSUME NEW s \in Slot PROVE UseFits(pool, call, s)
    BY <1>2, <1>4 DEF UseFits
  <2>5. call \in [Caller -> CallState]
    BY <1>1, <1>3
  <2> QED BY <2>2, <2>3, <2>4, <2>5 DEF CallsFit
<1>8. QueueFits(pool, waiters, call)
  <2>1. waiters \in Seq(Caller) /\ Len(waiters) <= MaxQueue /\ ToSet(waiters) = {}
    BY <1>1, SlotFacts DEF ToSet
  <2> QED BY <2>1 DEF QueueFits
<1>9. EndsFit
  <2>1. Busy(call) = {}
    BY <1>3, <1>5 DEF Busy
  <2> QED BY <1>1, <2>1, FS_EmptySet DEF EndsFit
<1> QED BY <1>1, <1>6, <1>7, <1>8, <1>9 DEF PoolInv, Fits, Phases

LEMMA PoolNext ==
  ASSUME PoolConstants, PoolInv, [Next]_vars PROVE PoolInv'
<1>1. ASSUME NEW c \in Caller, CallerStep(c) PROVE PoolInv'
  <2>1. CASE \E healthy \in BOOLEAN : Release(c, healthy)
    BY <2>1, ReleaseKeeps
  <2>2. CASE TakeFast(c) \/ ReserveDial(c) \/ Enqueue(c) \/ Recheck(c)
    BY <2>2, TakeFastKeeps, ReserveDialKeeps, EnqueueKeeps, RecheckKeeps
  <2>3. CASE Resume(c) \/ SliceEnds(c) \/ Sliced(c) \/ Refuse(c)
    BY <2>3, ResumeKeeps, SliceEndsKeeps, SlicedKeeps, RefuseKeeps
  <2>4. CASE DialFails(c) \/ DialSucceeds(c) \/ Fail(c)
    BY <2>4, DialFailsKeeps, DialSucceedsKeeps, FailKeeps
  <2> QED BY <1>1, <2>1, <2>2, <2>3, <2>4, Zenon DEF CallerStep
<1>2. ASSUME NEW c \in Caller, NEW o \in Origin, Acquire(c, o) PROVE PoolInv'
  BY <1>2, AcquireKeeps
<1>3. ASSUME Close \/ Shutdown \/ ShutdownAgain \/ ShutdownCheck \/ ShutdownWakes \/ Stats
      PROVE  PoolInv'
  BY <1>3, CloseKeeps, ShutdownKeeps, ShutdownOnKeeps, StatsKeeps
<1>4. ASSUME NEW s \in Slot, NetReleases(s) \/ Spoils(s) PROVE PoolInv'
  BY <1>4, NetReleasesKeeps, SpoilsKeeps
<1>5. ASSUME UNCHANGED vars PROVE PoolInv'
  <2>1. UNCHANGED <<phase, inflight, waiters, call, shut, drained, pool>>
    BY <1>5 DEF vars
  <2>2. Fits(phase, pool', waiters, call)
    BY <2>1 DEF PoolInv
  <2> QED BY <2>1, <2>2, PoolStep
<1> QED BY <1>1, <1>2, <1>3, <1>4, <1>5, Zenon DEF Next

\* The inductive invariant holds for every number of callers, origins and connections.
THEOREM PoolAlways == ASSUME PoolConstants PROVE Spec => []PoolInv
<1>1. Init => PoolInv
  BY PoolStarts
<1>2. PoolInv /\ [Next]_vars => PoolInv'
  BY PoolNext
<1> QED BY <1>1, <1>2, PTL DEF Spec

\* State::entries and Acquire: every connection has its place within max_connections, its
\* one user and its turn: a waiter comes before the idle list.
THEOREM PoolKeepsPlaces == ASSUME PoolConstants PROVE Spec => []PoolExact
<1>1. PoolInv => PoolExact
  BY PoolProperties
<1> QED BY <1>1, PoolAlways, PTL

\* Close and Shutdown: the end of the pool reaches every connection, and a Shutdown that
\* sleeps has a request to wait for that tells it.
THEOREM PoolEndsRightly == ASSUME PoolConstants PROVE Spec => []PoolEnds
<1>1. PoolInv => PoolEnds
  BY PoolProperties
<1> QED BY <1>1, PoolAlways, PTL

-----------------------------------------------------------------------------
(***************************************************************************)
(* The redis client.                                                       *)
(***************************************************************************)

Results == {"none", "closed", "ok", "busy", "transport", "invalid", "unavailable", "protocol", "internal",
            "unknown", "timed_out", "remote"}
Kinds == DOMAIN Accepts \cup {"none"}
RedisPc == Active \cup {"new", "over"}
CallType == [pc : RedisPc, at : 0..Dials, kind : Kinds, res : Results, sent : BOOLEAN, left : Int]
StreamType == [open : BOOLEAN, owed : Seq(Op), back : Seq(Op \cup {"push"})]

RedisState ==
  /\ closed \in BOOLEAN /\ busy \in BOOLEAN /\ broken \in BOOLEAN /\ reader \in BOOLEAN
  /\ conn \in 0..Dials /\ dialled \in 0..Dials /\ conn <= dialled
  /\ stream \in [Conns -> StreamType]
  /\ op \in [Op -> CallType]
  /\ \A o \in Op : got[o] \in {"none", o}
  /\ DOMAIN got = Op

ActiveOps == {o \in Op : op[o].pc \in Active}

\* The bit says whether there is an active call, and there is one at most.
OneCall ==
  /\ busy <=> ActiveOps # {}
  /\ \A o, p \in ActiveOps : o = p

\* What was never dialled is empty, and an open, unbroken client has its reader.
Resting ==
  /\ \A e \in Conns : e > dialled => /\ ~stream[e].open
                                     /\ stream[e].owed = <<>> /\ stream[e].back = <<>>
  /\ ~closed /\ ~broken => reader

OnStream == {"hello", "checking", "writing", "reading", "confirming"}
Asking(o) == op[o].pc = "reading"

\* An active call has the published connection; what travels on it is its own.
Place(o) ==
  /\ op[o].pc = "new" => op[o].kind = "none"
  /\ op[o].pc = "dialing" => conn = 0 /\ dialled < Dials
  /\ op[o].pc \in OnStream => conn # 0 /\ op[o].at = conn
  /\ op[o].pc \in OnStream \ {"confirming"} => reader
  /\ op[o].pc \in {"hello", "writing", "confirming"} => stream[conn].back = <<>>
  /\ Asking(o) => \/ stream[conn].owed = <<o>> /\ stream[conn].back = <<>>
                  \/ stream[conn].owed = <<>> /\ stream[conn].back = <<o>>
  /\ op[o].pc \in {"dialing", "hello", "confirming"} => op[o].kind = "connect"

\* Nobody is owed a reply on the published connection but the call that reads.
InStep == conn # 0 => stream[conn].owed = <<>> \/ \E o \in Op : Asking(o)

\* What a command knows of its own frame and tells.
Truth(o) ==
  op[o].kind # "connect" =>
    /\ op[o].pc \in {"new", "checking", "writing"} => ~op[o].sent /\ got[o] = "none"
    /\ op[o].pc = "reading" => op[o].sent
    /\ op[o].pc \in {"leaving", "over"} =>
         /\ op[o].res = "unknown" => op[o].sent
         /\ op[o].sent /\ got[o] = "none" => op[o].res = "unknown"

RedisInv ==
  /\ RedisState /\ OneCall /\ Resting /\ InStep
  /\ \A o \in Op : Place(o) /\ Truth(o)

-----------------------------------------------------------------------------
(***************************************************************************)
(* The redis client: what every step needs.                                *)
(***************************************************************************)

LEMMA RedisOthers ==
  ASSUME RedisInv, NEW o \in Op, op[o].pc \in Active
  PROVE  busy /\ \A p \in Op : p # o => op[p].pc \in {"new", "over"}
<1>1. o \in ActiveOps
  BY DEF ActiveOps
<1>2. busy
  BY <1>1 DEF RedisInv, OneCall
<1>3. ASSUME NEW p \in Op, p # o PROVE op[p].pc \in {"new", "over"}
  <2>1. p \notin ActiveOps
    BY <1>1, <1>3 DEF RedisInv, OneCall
  <2>2. op[p].pc \in RedisPc
    BY DEF RedisInv, RedisState, CallType
  <2> QED BY <2>1, <2>2 DEF ActiveOps, RedisPc
<1> QED BY <1>2, <1>3

LEMMA RedisIdle ==
  ASSUME RedisInv, ~busy
  PROVE  \A p \in Op : op[p].pc \in {"new", "over"}
<1>1. ASSUME NEW p \in Op PROVE op[p].pc \in {"new", "over"}
  <2>1. p \notin ActiveOps
    BY DEF RedisInv, OneCall
  <2>2. op[p].pc \in RedisPc
    BY DEF RedisInv, RedisState, CallType
  <2> QED BY <2>1, <2>2 DEF ActiveOps, RedisPc
<1> QED BY <1>1

\* RequestClose changes nothing but whether the stream is open.
LEMMA ShutKeeps ==
  ASSUME RedisState, NEW e
  PROVE  /\ Shut(e) \in [Conns -> StreamType]
         /\ \A f \in Conns : /\ Shut(e)[f].owed = stream[f].owed /\ Shut(e)[f].back = stream[f].back
                             /\ Shut(e)[f].open => stream[f].open
<1>1. ASSUME NEW f \in Conns
      PROVE  /\ Shut(e)[f] \in StreamType
             /\ Shut(e)[f].owed = stream[f].owed /\ Shut(e)[f].back = stream[f].back
             /\ Shut(e)[f].open => stream[f].open
  <2>1. stream[f] \in StreamType
    BY DEF RedisState
  <2>2. Shut(e)[f] = IF f = e THEN [stream[f] EXCEPT !.open = FALSE] ELSE stream[f]
    BY DEF Shut
  <2>3. CASE f = e
    BY <2>1, <2>2, <2>3 DEF StreamType
  <2>4. CASE f # e
    BY <2>1, <2>2, <2>4
  <2> QED BY <2>3, <2>4
<1>2. Shut(e) = [f \in Conns |-> Shut(e)[f]]
  BY DEF Shut
<1> QED BY <1>1, <1>2

\* A call that is not active is where it was, with what it told.
LEMMA RedisBystander ==
  ASSUME RedisInv, NEW p \in Op, op[p].pc \in {"new", "over"}, op'[p] = op[p], got'[p] = got[p]
  PROVE  Place(p)' /\ Truth(p)'
<1>1. Place(p)'
  <2>1. op[p].pc = "new" => op[p].kind = "none"
    BY DEF RedisInv, Place
  <2> QED BY <2>1 DEF Place, OnStream, Asking
<1>2. Truth(p)'
  BY DEF Truth, RedisInv
<1> QED BY <1>1, <1>2

-----------------------------------------------------------------------------
(***************************************************************************)
(* A call is refused: nothing but its own record and, maybe, the stream of *)
(* a client without an active call.                                        *)
(***************************************************************************)

LEMMA RefusedRecord ==
  ASSUME RedisState, NEW o \in Op, NEW k \in Kinds, NEW r \in Results, RefuseOp(o, k, r)
  PROVE  /\ op' \in [Op -> CallType]
         /\ op'[o].pc = "over" /\ op'[o].res = r /\ op'[o].kind = k /\ op'[o].sent = op[o].sent
         /\ \A p \in Op : p # o => op'[p] = op[p]
<1>1. op[o] \in CallType /\ op \in [Op -> CallType]
  BY DEF RedisState
<1>2. PICK q : q = [op[o] EXCEPT !.pc = "over", !.kind = k, !.res = r]
  OBVIOUS
<1>3. op' = [op EXCEPT ![o] = q]
  BY <1>1, <1>2 DEF RefuseOp
<1>4. q \in CallType /\ q.pc = "over" /\ q.res = r /\ q.kind = k /\ q.sent = op[o].sent
  BY <1>1, <1>2 DEF CallType, RedisPc
<1> QED BY <1>1, <1>3, <1>4

LEMMA RefuseOpKeeps ==
  ASSUME RedisInv, NEW o \in Op, op[o].pc = "new", NEW k \in Kinds,
         NEW r \in Results, r # "unknown", RefuseOp(o, k, r),
         UNCHANGED <<closed, busy, conn, dialled, got>>,
         \/ UNCHANGED <<broken, reader, stream>>
         \/ ~busy /\ broken' = TRUE /\ reader' = FALSE /\ stream' = Shut(conn)
  PROVE  RedisInv'
<1>0. RedisState
  BY DEF RedisInv
<1>1. /\ op' \in [Op -> CallType]
      /\ op'[o].pc = "over" /\ op'[o].res = r /\ op'[o].sent = op[o].sent
      /\ \A p \in Op : p # o => op'[p] = op[p]
  BY <1>0, RefusedRecord
<1>2. /\ stream' \in [Conns -> StreamType]
      /\ \A f \in Conns : /\ stream'[f].owed = stream[f].owed /\ stream'[f].back = stream[f].back
                          /\ stream'[f].open => stream[f].open
  BY <1>0, ShutKeeps DEF RedisState
<1>3. broken' \in BOOLEAN /\ reader' \in BOOLEAN /\ (~broken' => UNCHANGED <<broken, reader>>)
  BY <1>0 DEF RedisState
<1>4. RedisState'
  BY <1>0, <1>1, <1>2, <1>3 DEF RedisState
<1>5. ActiveOps' = ActiveOps
  BY <1>1 DEF ActiveOps, Active
<1>6. OneCall'
  BY <1>5 DEF RedisInv, OneCall
<1>7. Resting'
  <2>1. Resting /\ (~closed' /\ ~broken' => reader')
    BY <1>3 DEF RedisInv, Resting
  <2> QED BY <2>1, <1>2 DEF Resting
<1>8. \A p \in Op : Asking(p)' <=> Asking(p)
  BY <1>1 DEF Asking
<1>9. InStep'
  <2>1. conn # 0 => conn \in Conns
    BY <1>0 DEF RedisState, Conns
  <2> QED BY <2>1, <1>2, <1>8 DEF RedisInv, InStep
<1>10. ASSUME NEW p \in Op PROVE Place(p)' /\ Truth(p)'
  <2>1. CASE p = o
    <3>1. Place(o)'
      BY <1>1 DEF Place, OnStream, Asking
    <3>2. Truth(o)'
      <4>1. op[o].kind = "none"
        BY DEF RedisInv, Place
      <4> QED BY <4>1, <1>1 DEF Truth, RedisInv
    <3> QED BY <2>1, <3>1, <3>2
  <2>2. CASE p # o /\ op[p].pc \in {"new", "over"}
    BY <2>2, <1>1, RedisBystander
  <2>3. CASE p # o /\ op[p].pc \notin {"new", "over"}
    <3>1. busy
      BY <2>3, RedisIdle
    <3>2. op'[p] = op[p] /\ UNCHANGED <<reader, stream, conn, dialled, got>>
      BY <3>1, <2>3, <1>1
    <3>3. Place(p) /\ Truth(p)
      BY DEF RedisInv
    <3> QED BY <3>2, <3>3 DEF Place, Truth, Asking
  <2> QED BY <2>1, <2>2, <2>3
<1> QED BY <1>4, <1>6, <1>7, <1>9, <1>10 DEF RedisInv

-----------------------------------------------------------------------------
(***************************************************************************)
(* A call that is active goes on or stops being active.  The parts are put *)
(* together once: the caller of the lemma says what has become of the      *)
(* call's record and of the published stream.                              *)
(***************************************************************************)

LEMMA ActiveStep ==
  ASSUME RedisInv, NEW o \in Op, op[o].pc \in Active,
         \A p \in Op : p # o => op'[p] = op[p] /\ got'[p] = got[p],
         RedisState',
         op'[o].pc \in Active, busy' = busy,
         Resting', InStep', Place(o)', Truth(o)'
  PROVE  RedisInv'
<1>1. busy /\ \A p \in Op : p # o => op[p].pc \in {"new", "over"}
  BY RedisOthers
<1>2. ActiveOps' = {o}
  BY <1>1 DEF ActiveOps, Active
<1>3. OneCall'
  BY <1>1, <1>2 DEF OneCall
<1>4. ASSUME NEW p \in Op PROVE Place(p)' /\ Truth(p)'
  <2>1. CASE p = o
    BY <2>1
  <2>2. CASE p # o
    BY <2>2, <1>1, RedisBystander
  <2> QED BY <2>1, <2>2
<1> QED BY <1>3, <1>4 DEF RedisInv

\* The record of the call that takes a step.
LEMMA RedisRecord ==
  ASSUME RedisState, NEW o \in Op, NEW q \in CallType, op' = [op EXCEPT ![o] = q]
  PROVE  /\ op' \in [Op -> CallType] /\ op'[o] = q
         /\ \A p \in Op : p # o => op'[p] = op[p]
BY DEF RedisState

\* A call stops being active, with a result that is true; nobody is owed a reply on what
\* stays published.
LEMMA ConcludeKeeps ==
  ASSUME RedisClientAssumption, RedisInv, NEW o \in Op, op[o].pc \in Active, NEW r \in Results, NEW b \in BOOLEAN,
         NEW q, q = [op[o] EXCEPT !.pc = "leaving", !.res = r, !.sent = b],
         op' = [op EXCEPT ![o] = q],
         UNCHANGED <<closed, busy, dialled>>,
         broken' \in BOOLEAN, reader' \in BOOLEAN, conn' \in {0, conn},
         ~broken' => UNCHANGED <<broken, reader>>,
         stream' \in [Conns -> StreamType],
         \A f \in Conns : stream'[f] = stream[f] \/ f <= dialled,
         conn' # 0 => stream'[conn].owed = <<>>,
         DOMAIN got' = Op, got'[o] \in {"none", o}, \A p \in Op : p # o => got'[p] = got[p],
         op[o].kind # "connect" => /\ r = "unknown" => b
                                   /\ b /\ got'[o] = "none" => r = "unknown"
  PROVE  RedisInv'
<1>0. RedisState
  BY DEF RedisInv
<1>1. q \in CallType /\ q.pc = "leaving" /\ q.res = r /\ q.sent = b /\ q.kind = op[o].kind
  <2>1. op[o] \in CallType
    BY <1>0 DEF RedisState
  <2> QED BY <2>1 DEF CallType, RedisPc, Active
<1>2. op' \in [Op -> CallType] /\ op'[o] = q /\ \A p \in Op : p # o => op'[p] = op[p]
  BY <1>0, <1>1, RedisRecord
<1>3. RedisState'
  <2>1. \A p \in Op : got'[p] \in {"none", p}
    BY <1>0 DEF RedisState
  <2>2. conn' \in 0..Dials /\ conn' <= dialled
    BY <1>0 DEF RedisState, RedisClientAssumption
  <2> QED BY <1>0, <1>2, <2>1, <2>2 DEF RedisState
<1>4. Resting'
  <2>1. ~closed' /\ ~broken' => reader'
    BY DEF RedisInv, Resting
  <2>2. ASSUME NEW e \in Conns, e > dialled' PROVE stream'[e] = stream[e]
    BY <2>2, <1>0 DEF RedisState, Conns
  <2> QED BY <2>1, <2>2 DEF RedisInv, Resting
<1>5. InStep'
  BY DEF InStep
<1>6. op'[o].pc \in Active
  BY <1>1, <1>2 DEF Active
<1>7. Place(o)'
  BY <1>1, <1>2 DEF Place, OnStream, Asking
<1>8. Truth(o)'
  BY <1>1, <1>2 DEF Truth
<1> QED BY <1>2, <1>3, <1>4, <1>5, <1>6, <1>7, <1>8, ActiveStep

\* Conclude leaves what the call knows of its frame.
LEMMA ConcludeRecord ==
  ASSUME RedisState, NEW o \in Op, NEW r, Conclude(o, r)
  PROVE  op' = [op EXCEPT ![o] = [op[o] EXCEPT !.pc = "leaving", !.res = r, !.sent = op[o].sent]]
<1>1. op[o] \in CallType /\ op \in [Op -> CallType]
  BY DEF RedisState
<1>2. [op[o] EXCEPT !.pc = "leaving", !.res = r, !.sent = op[o].sent]
        = [op[o] EXCEPT !.pc = "leaving", !.res = r]
  BY <1>1 DEF CallType
<1>3. op' = [op EXCEPT ![o] = [op[o] EXCEPT !.pc = "leaving", !.res = r]]
  BY <1>1 DEF Conclude
<1> QED BY <1>2, <1>3

\* Fail, whatever the reply was: the stream is retired before anybody knows.
LEMMA FailStreamKeeps ==
  ASSUME RedisClientAssumption, RedisInv, NEW o \in Op, op[o].pc \in Active, NEW r \in Results,
         FailStream(o, r), UNCHANGED <<closed, busy, dialled>>,
         DOMAIN got' = Op, got'[o] \in {"none", o}, \A p \in Op : p # o => got'[p] = got[p],
         op[o].kind # "connect" => /\ r = "unknown" => op[o].sent
                                   /\ op[o].sent /\ got'[o] = "none" => r = "unknown"
  PROVE  RedisInv'
<1>0. RedisState
  BY DEF RedisInv
<1>1. PICK q : q = [op[o] EXCEPT !.pc = "leaving", !.res = r, !.sent = op[o].sent]
  OBVIOUS
<1>2. op' = [op EXCEPT ![o] = q]
  BY <1>0, <1>1, ConcludeRecord DEF FailStream
<1>3. /\ broken' = TRUE /\ reader' = FALSE /\ conn' = 0
      /\ stream' \in [Conns -> StreamType]
  BY <1>0, ShutKeeps DEF FailStream
<1>4. ASSUME NEW f \in Conns PROVE stream'[f] = stream[f] \/ f <= dialled
  <2>1. CASE f = conn
    BY <2>1, <1>0 DEF RedisState
  <2>2. CASE f # conn
    BY <2>2 DEF FailStream, Shut
  <2> QED BY <2>1, <2>2
<1>5. op[o].sent \in BOOLEAN
  BY <1>0 DEF RedisState, CallType
<1>6. PICK b \in BOOLEAN : b = op[o].sent
  BY <1>5
<1>7. q = [op[o] EXCEPT !.pc = "leaving", !.res = r, !.sent = b]
  BY <1>1, <1>6
<1> QED BY <1>2, <1>3, <1>4, <1>6, <1>7, ConcludeKeeps

\* The call ends and the stream stays published, with at most its replies taken.
LEMMA EndKeeps ==
  ASSUME RedisClientAssumption, RedisInv, NEW o \in Op, op[o].pc \in Active, NEW r \in Results,
         Conclude(o, r), UNCHANGED <<closed, busy, dialled, broken, reader, conn>>,
         stream' \in [Conns -> StreamType], \A f \in Conns : stream'[f] = stream[f] \/ f <= dialled,
         conn # 0 => stream'[conn].owed = <<>>,
         DOMAIN got' = Op, got'[o] \in {"none", o}, \A p \in Op : p # o => got'[p] = got[p],
         op[o].kind # "connect" => /\ r = "unknown" => op[o].sent
                                   /\ op[o].sent /\ got'[o] = "none" => r = "unknown"
  PROVE  RedisInv'
<1>0. RedisState
  BY DEF RedisInv
<1>1. PICK q : q = [op[o] EXCEPT !.pc = "leaving", !.res = r, !.sent = op[o].sent]
  OBVIOUS
<1>2. op' = [op EXCEPT ![o] = q]
  BY <1>0, <1>1, ConcludeRecord
<1>5. op[o].sent \in BOOLEAN /\ broken \in BOOLEAN /\ reader \in BOOLEAN
  BY <1>0 DEF RedisState, CallType
<1>6. PICK b \in BOOLEAN : b = op[o].sent
  BY <1>5
<1>7. q = [op[o] EXCEPT !.pc = "leaving", !.res = r, !.sent = b]
  BY <1>1, <1>6
<1>8. broken' \in BOOLEAN /\ reader' \in BOOLEAN
  BY <1>5
<1>9. conn' \in {0, conn} /\ (~broken' => UNCHANGED <<broken, reader>>)
  OBVIOUS
<1>10. conn' # 0 => stream'[conn].owed = <<>>
  OBVIOUS
<1> QED BY <1>2, <1>6, <1>7, <1>8, <1>9, <1>10, ConcludeKeeps

-----------------------------------------------------------------------------
(***************************************************************************)
(* One step of the redis client.                                           *)
(***************************************************************************)

LEMMA RedisStarts == ASSUME RedisClientAssumption PROVE RedisInit => RedisInv
<1> SUFFICES ASSUME RedisInit PROVE RedisInv
  OBVIOUS
<1>1. op \in [Op -> CallType]
  BY DEF RedisInit, CallType, RedisPc, Active, Kinds, Results, RedisClientAssumption
<1>2. stream \in [Conns -> StreamType]
  BY DEF RedisInit, StreamType
<1>3. RedisState
  <2>1. 0 \in 0..Dials
    BY DEF RedisClientAssumption
  <2>2. \A o \in Op : got[o] \in {"none", o}
    BY DEF RedisInit
  <2>3. DOMAIN got = Op
    BY DEF RedisInit
  <2>4. closed \in BOOLEAN /\ busy \in BOOLEAN /\ broken \in BOOLEAN /\ reader \in BOOLEAN
    BY DEF RedisInit
  <2>5. conn \in 0..Dials /\ dialled \in 0..Dials /\ conn <= dialled
    BY <2>1 DEF RedisInit
  <2> QED BY <1>1, <1>2, <2>2, <2>3, <2>4, <2>5 DEF RedisState
<1>4. ActiveOps = {}
  BY DEF ActiveOps, RedisInit, Active
<1>5. OneCall
  BY <1>4 DEF OneCall, RedisInit
<1>6. Resting /\ InStep
  BY DEF Resting, InStep, RedisInit
<1>7. \A o \in Op : Place(o) /\ Truth(o)
  BY DEF Place, Truth, OnStream, Asking, RedisInit
<1> QED BY <1>3, <1>5, <1>6, <1>7 DEF RedisInv

LEMMA KindsAre ==
  Commands \subseteq Kinds /\ "connect" \in Kinds /\ "connect" \notin Commands /\ "none" \notin Commands
BY DEF Commands, Kinds, Accepts

\* A call becomes active on a client that had no active one.
LEMMA EnterKeeps ==
  ASSUME RedisClientAssumption, RedisInv, NEW o \in Op, op[o].pc = "new", ~busy,
         NEW k \in Kinds, NEW p \in {"dialing", "checking"}, NEW e \in 0..Dials, Enter(o, k, p, e),
         busy' = TRUE, UNCHANGED <<closed, broken, reader, dialled, got>>,
         \/ /\ p = "dialing" /\ k = "connect" /\ conn' = 0 /\ e = 0
            /\ dialled < Dials /\ stream' = Shut(conn)
         \/ /\ p = "checking" /\ conn # 0 /\ e = conn /\ ~closed /\ ~broken
            /\ UNCHANGED <<conn, stream>>
  PROVE  RedisInv'
<1>0. RedisState
  BY DEF RedisInv
<1>1. PICK q : q = [op[o] EXCEPT !.pc = p, !.kind = k, !.at = e]
  OBVIOUS
<1>2. q \in CallType /\ q.pc = p /\ q.kind = k /\ q.at = e /\ q.sent = op[o].sent
  <2>1. op[o] \in CallType
    BY <1>0 DEF RedisState
  <2> QED BY <2>1, <1>1 DEF CallType, RedisPc, Active
<1>3. op' = [op EXCEPT ![o] = q]
  BY <1>0, <1>1 DEF Enter, RedisState
<1>4. op' \in [Op -> CallType] /\ op'[o] = q /\ \A r \in Op : r # o => op'[r] = op[r]
  BY <1>0, <1>2, <1>3, RedisRecord
<1>5. \A r \in Op : op[r].pc \in {"new", "over"}
  BY RedisIdle
<1>6. ActiveOps' = {o}
  BY <1>2, <1>4, <1>5 DEF ActiveOps, Active
<1>7. OneCall'
  BY <1>6 DEF OneCall
<1>8. /\ stream' \in [Conns -> StreamType]
      /\ \A f \in Conns : /\ stream'[f].owed = stream[f].owed /\ stream'[f].back = stream[f].back
                          /\ stream'[f].open => stream[f].open
  BY <1>0, ShutKeeps DEF RedisState
<1>9. RedisState'
  <2>1. conn' \in 0..Dials /\ conn' <= dialled
    BY <1>0 DEF RedisState, RedisClientAssumption
  <2> QED BY <1>0, <1>4, <1>8, <2>1 DEF RedisState
<1>10. Resting'
  BY <1>8 DEF RedisInv, Resting
<1>11. InStep'
  <2>1. CASE p = "dialing"
    BY <2>1 DEF InStep
  <2>2. CASE p = "checking"
    BY <2>2, <1>5 DEF InStep, RedisInv, Asking
  <2> QED BY <2>1, <2>2
<1>12. Place(o)'
  <2>1. CASE p = "dialing"
    BY <2>1, <1>2, <1>4 DEF Place, OnStream, Asking
  <2>2. CASE p = "checking"
    <3>1. reader
      BY <2>2 DEF RedisInv, Resting
    <3> QED BY <2>2, <3>1, <1>2, <1>4 DEF Place, OnStream, Asking
  <2> QED BY <2>1, <2>2
<1>13. Truth(o)'
  <2>1. op[o].kind = "none"
    BY DEF RedisInv, Place
  <2> QED BY <2>1, <1>2, <1>4 DEF Truth, RedisInv
<1>14. ASSUME NEW r \in Op PROVE Place(r)' /\ Truth(r)'
  <2>1. CASE r = o
    BY <2>1, <1>12, <1>13
  <2>2. CASE r # o
    BY <2>2, <1>4, <1>5, RedisBystander
  <2> QED BY <2>1, <2>2
<1> QED BY <1>7, <1>9, <1>10, <1>11, <1>14 DEF RedisInv

LEMMA ConnectKeeps ==
  ASSUME RedisClientAssumption, RedisInv, NEW o \in Op, Connect(o) PROVE RedisInv'
<1>0. RedisState /\ op[o].pc = "new" /\ "connect" \in Kinds
  BY KindsAre DEF RedisInv, Connect
<1>1. CASE \E r \in {"closed", "ok", "busy"} :
             RefuseOp(o, "connect", r) /\ UNCHANGED <<closed, busy, broken, reader, conn, dialled, stream, got>>
  BY <1>0, <1>1, RefuseOpKeeps DEF Results
<1>2. CASE /\ ~busy /\ dialled < Dials /\ busy' = TRUE /\ stream' = Shut(conn) /\ conn' = 0
           /\ Enter(o, "connect", "dialing", 0)
           /\ UNCHANGED <<closed, broken, reader, dialled, got>>
  <2>1. 0 \in 0..Dials
    BY DEF RedisClientAssumption
  <2> QED BY <2>1, <1>0, <1>2, EnterKeeps
<1> QED BY <1>1, <1>2 DEF Connect

LEMMA ExecuteKeeps ==
  ASSUME RedisClientAssumption, RedisInv, NEW o \in Op, Execute(o) PROVE RedisInv'
<1>0. RedisState /\ op[o].pc = "new" /\ Commands \subseteq Kinds
  BY KindsAre DEF RedisInv, Execute
<1>1. CASE \E k \in Commands, r \in {"closed", "invalid", "busy", "unavailable"} :
             RefuseOp(o, k, r) /\ UNCHANGED <<closed, busy, broken, reader, conn, dialled, stream, got>>
  BY <1>0, <1>1, RefuseOpKeeps DEF Results
<1>2. CASE \E k \in Commands :
             /\ ~busy /\ broken' = TRUE /\ reader' = FALSE /\ stream' = Shut(conn)
             /\ RefuseOp(o, k, "transport") /\ UNCHANGED <<closed, busy, conn, dialled, got>>
  BY <1>0, <1>2, RefuseOpKeeps DEF Results
<1>3. CASE \E k \in Commands :
             /\ ~closed /\ ~busy /\ ~broken /\ conn # 0
             /\ busy' = TRUE /\ Enter(o, k, "checking", conn)
             /\ UNCHANGED <<closed, broken, reader, conn, dialled, stream, got>>
  BY <1>0, <1>3, EnterKeeps DEF RedisState
<1> QED BY <1>1, <1>2, <1>3 DEF Execute, Open

\* A call with a connection: it is the published one, and nobody else waits on it.
LEMMA OnConnection ==
  ASSUME RedisInv, NEW o \in Op, op[o].pc \in OnStream
  PROVE  /\ conn \in Conns /\ conn <= dialled /\ op[o].at = conn /\ op[o].pc \in Active /\ busy
         /\ stream[conn] \in StreamType
         /\ ~Asking(o) => stream[conn].owed = <<>>
<1>1. conn # 0 /\ op[o].at = conn
  BY DEF RedisInv, Place
<1>2. conn \in Conns /\ conn <= dialled /\ stream[conn] \in StreamType
  BY <1>1 DEF RedisInv, RedisState, Conns
<1>3. op[o].pc \in Active
  BY DEF OnStream, Active
<1>4. busy /\ \A p \in Op : p # o => op[p].pc \in {"new", "over"}
  BY <1>3, RedisOthers
<1>5. ~Asking(o) => stream[conn].owed = <<>>
  BY <1>1, <1>4 DEF RedisInv, InStep, Asking
<1> QED BY <1>1, <1>2, <1>3, <1>4, <1>5

\* A call with a connection goes on to the write, on a stream that is empty.
LEMMA MoveKeeps ==
  ASSUME RedisInv, NEW o \in Op, op[o].pc \in {"hello", "checking"}, Move(o, "writing"),
         stream[conn].back = <<>>,
         UNCHANGED <<bits, conn, dialled, stream, got>>
  PROVE  RedisInv'
<1>0. RedisState /\ op[o].pc \in OnStream /\ reader
  BY DEF RedisInv, OnStream, Place
<1>1. conn \in Conns /\ op[o].at = conn /\ op[o].pc \in Active /\ stream[conn].owed = <<>>
  BY <1>0, OnConnection DEF Asking
<1>2. PICK q : q = [op[o] EXCEPT !.pc = "writing"]
  OBVIOUS
<1>3. q \in CallType /\ q.pc = "writing" /\ q.kind = op[o].kind /\ q.at = op[o].at /\ q.sent = op[o].sent
  <2>1. op[o] \in CallType
    BY <1>0 DEF RedisState
  <2> QED BY <2>1, <1>2 DEF CallType, RedisPc, Active
<1>4. op' = [op EXCEPT ![o] = q]
  BY <1>0, <1>2 DEF Move, RedisState
<1>5. op' \in [Op -> CallType] /\ op'[o] = q /\ \A p \in Op : p # o => op'[p] = op[p]
  BY <1>0, <1>3, <1>4, RedisRecord
<1>6. UNCHANGED <<closed, busy, broken, reader, conn, dialled, stream, got>>
  BY DEF bits
<1>7. RedisState'
  BY <1>0, <1>5, <1>6 DEF RedisState
<1>8. Resting'
  BY <1>6 DEF RedisInv, Resting
<1>9. InStep'
  BY <1>1, <1>6 DEF InStep
<1>10. Place(o)'
  BY <1>0, <1>1, <1>3, <1>5, <1>6 DEF Place, OnStream, Asking, Conns
<1>11. Truth(o)'
  BY <1>3, <1>5, <1>6 DEF Truth, RedisInv, Place
<1>12. op'[o].pc \in Active
  BY <1>3, <1>5 DEF Active
<1> QED BY <1>1, <1>5, <1>6, <1>7, <1>8, <1>9, <1>10, <1>11, <1>12, ActiveStep

LEMMA HelloKeeps ==
  ASSUME RedisInv, NEW o \in Op, Hello(o) PROVE RedisInv'
<1>1. op[o].pc = "hello" /\ stream[conn].back = <<>>
  BY DEF Hello, RedisInv, Place
<1> QED BY <1>1, MoveKeeps DEF Hello

LEMMA CheckKeeps ==
  ASSUME RedisClientAssumption, RedisInv, NEW o \in Op, Check(o) PROVE RedisInv'
<1>0. op[o].pc = "checking" /\ RedisState
  BY DEF Check, RedisInv
<1>1. op[o].pc \in OnStream
  BY <1>0 DEF OnStream
<1>2. op[o].at = conn /\ op[o].pc \in Active
  BY <1>1, OnConnection
<1>3. op[o].kind # "connect" => ~op[o].sent /\ got[o] = "none"
  BY <1>0 DEF RedisInv, Truth
<1>4. CASE stream[conn].back # <<>>
  <2>1. FailStream(o, "protocol") /\ UNCHANGED <<closed, busy, dialled, got>>
    BY <1>2, <1>4 DEF Check
  <2>2. "protocol" \in Results /\ "protocol" # "unknown"
    BY DEF Results
  <2>3. DOMAIN got' = Op /\ \A p \in Op : got'[p] = got[p] /\ got'[p] \in {"none", p}
    BY <2>1, <1>0 DEF RedisState
  <2> QED BY <1>2, <1>3, <2>1, <2>2, <2>3, FailStreamKeeps
<1>5. CASE stream[conn].back = <<>>
  <2>1. Move(o, "writing") /\ UNCHANGED <<broken, reader, conn, stream, closed, busy, dialled, got>>
    BY <1>2, <1>5 DEF Check
  <2> QED BY <1>0, <1>5, <2>1, MoveKeeps DEF bits
<1> QED BY <1>4, <1>5

\* The dial of a call, or the look at Close after its handshake, ends it.
LEMMA DialledKeeps ==
  ASSUME RedisClientAssumption, RedisInv, NEW o \in Op, Dialled(o) PROVE RedisInv'
<1>0. op[o].pc = "dialing" /\ RedisState /\ op[o].pc \in Active
  BY DEF Dialled, RedisInv, Active
<1>1. conn = 0 /\ dialled < Dials /\ op[o].kind = "connect"
  BY <1>0 DEF RedisInv, Place
<1>2. DOMAIN got' = Op /\ \A p \in Op : got'[p] = got[p] /\ got'[p] \in {"none", p}
  BY <1>0 DEF RedisState, Dialled
<1>3. ASSUME NEW r \in {"closed", "transport", "internal"}, Conclude(o, r),
             UNCHANGED <<broken, reader, conn, dialled, stream>>
      PROVE  RedisInv'
  <2>1. r \in Results
    BY DEF Results
  <2>2. UNCHANGED <<closed, busy>>
    BY DEF Dialled
  <2>3. stream' \in [Conns -> StreamType]
    BY <1>0, <1>3 DEF RedisState
  <2> QED BY <1>0, <1>1, <1>2, <1>3, <2>1, <2>2, <2>3, EndKeeps
<1>4. CASE /\ ~closed
           /\ dialled' = dialled + 1 /\ conn' = dialled'
           /\ stream' = [stream EXCEPT ![dialled'].open = TRUE]
           /\ broken' = FALSE /\ reader' = TRUE
           /\ op' = [op EXCEPT ![o].pc = AfterHello(Handshake), ![o].at = dialled', ![o].left = Handshake]
  <2>0. UNCHANGED <<closed, busy, got>>
    BY DEF Dialled
  <2>1. dialled' \in Conns /\ dialled' \in 0..Dials /\ dialled' > dialled
        /\ dialled' # 0 /\ dialled' \in Nat /\ dialled \in Nat
    BY <1>0, <1>1, <1>4 DEF RedisState, Conns, RedisClientAssumption
  <2>2. PICK h : h = AfterHello(Handshake) /\ h \in {"hello", "confirming"}
    BY DEF AfterHello
  <2>3. PICK q : q = [op[o] EXCEPT !.pc = h, !.at = dialled', !.left = Handshake]
    OBVIOUS
  <2>4. q \in CallType /\ q.pc = h /\ q.kind = "connect" /\ q.at = dialled'
    <3>1. op[o] \in CallType
      BY <1>0 DEF RedisState
    <3>2. Handshake \in Int
      BY DEF RedisClientAssumption
    <3> QED BY <1>1, <2>1, <2>2, <2>3, <3>1, <3>2 DEF CallType, RedisPc, Active
  <2>5. op' = [op EXCEPT ![o] = q]
    BY <1>0, <1>4, <2>2, <2>3 DEF RedisState
  <2>6. op' \in [Op -> CallType] /\ op'[o] = q /\ \A p \in Op : p # o => op'[p] = op[p]
    BY <1>0, <2>4, <2>5, RedisRecord
  <2>7. stream[dialled'].owed = <<>> /\ stream[dialled'].back = <<>> /\ stream[dialled'] \in StreamType
    BY <1>0, <2>1 DEF RedisInv, Resting, RedisState
  <2>8. /\ stream' \in [Conns -> StreamType]
        /\ stream'[dialled'].owed = <<>> /\ stream'[dialled'].back = <<>>
        /\ \A e \in Conns : e # dialled' => stream'[e] = stream[e]
    <3>1. stream \in [Conns -> StreamType]
      BY <1>0 DEF RedisState
    <3>2. PICK s : s = [stream[dialled'] EXCEPT !.open = TRUE]
      OBVIOUS
    <3>3. s \in StreamType /\ s.owed = <<>> /\ s.back = <<>>
      BY <2>7, <3>2 DEF StreamType
    <3>4. stream' = [stream EXCEPT ![dialled'] = s]
      BY <1>4, <3>1, <3>2
    <3> QED BY <2>1, <3>1, <3>3, <3>4
  <2>9. RedisState'
    <3>1. conn' \in 0..Dials /\ dialled' \in 0..Dials /\ conn' <= dialled'
      BY <1>4, <2>1
    <3>2. broken' \in BOOLEAN /\ reader' \in BOOLEAN
      BY <1>4
    <3> QED BY <1>0, <2>0, <2>6, <2>8, <3>1, <3>2 DEF RedisState
  <2>10. Resting'
    <3>1. ASSUME NEW e \in Conns, e > dialled' PROVE e > dialled /\ stream'[e] = stream[e]
      BY <2>1, <2>8, <3>1 DEF Conns
    <3> QED BY <1>4, <3>1 DEF RedisInv, Resting
  <2>11. InStep'
    BY <1>4, <2>8 DEF InStep
  <2>12. Place(o)'
    BY <1>4, <2>1, <2>2, <2>4, <2>6, <2>8 DEF Place, OnStream, Asking
  <2>13. Truth(o)'
    BY <2>4, <2>6 DEF Truth
  <2>14. op'[o].pc \in Active
    BY <2>2, <2>4, <2>6 DEF Active
  <2> QED BY <1>0, <2>0, <2>6, <2>9, <2>10, <2>11, <2>12, <2>13, <2>14, ActiveStep
<1> QED BY <1>3, <1>4 DEF Dialled

LEMMA ConfirmKeeps ==
  ASSUME RedisClientAssumption, RedisInv, NEW o \in Op, Confirm(o) PROVE RedisInv'
<1>0. op[o].pc = "confirming" /\ RedisState /\ op[o].pc \in OnStream
  BY DEF Confirm, RedisInv, OnStream
<1>1. op[o].kind = "connect" /\ op[o].pc \in Active /\ stream[conn].owed = <<>>
  BY <1>0, OnConnection DEF RedisInv, Place, Asking
<1>2. DOMAIN got' = Op /\ \A p \in Op : got'[p] = got[p] /\ got'[p] \in {"none", p}
  BY <1>0 DEF RedisState, Confirm
<1>3. "closed" \in Results /\ "ok" \in Results /\ UNCHANGED <<closed, busy, dialled>>
  BY DEF Results, Confirm
<1>4. CASE closed
  <2>1. FailStream(o, "closed")
    BY <1>4 DEF Confirm, FailStream
  <2> QED BY <1>1, <1>2, <1>3, <2>1, FailStreamKeeps
<1>5. CASE ~closed
  <2>1. Conclude(o, "ok") /\ UNCHANGED <<broken, reader, conn, stream>>
    BY <1>5 DEF Confirm
  <2>2. stream' \in [Conns -> StreamType]
    BY <1>0, <2>1 DEF RedisState
  <2> QED BY <1>1, <1>2, <1>3, <2>1, <2>2, EndKeeps
<1> QED BY <1>4, <1>5

LEMMA ReadFailsKeeps ==
  ASSUME RedisClientAssumption, RedisInv, NEW o \in Op, ReadFails(o) PROVE RedisInv'
<1>0. op[o].pc = "reading" /\ RedisState /\ op[o].pc \in Active
  BY DEF ReadFails, RedisInv, Active
<1>1. op[o].kind # "connect" => op[o].sent
  BY <1>0 DEF RedisInv, Truth
<1>2. DOMAIN got' = Op /\ \A p \in Op : got'[p] = got[p] /\ got'[p] \in {"none", p}
  BY <1>0 DEF RedisState, ReadFails
<1>3. "unknown" \in Results /\ UNCHANGED <<closed, busy, dialled>> /\ FailStream(o, "unknown")
  BY DEF Results, ReadFails
<1> QED BY <1>0, <1>1, <1>2, <1>3, FailStreamKeeps

\* One stream changes: what the others hold stays, and the types with it.
LEMMA OneStream ==
  ASSUME RedisState, NEW e \in Conns, NEW s \in StreamType, stream' = [stream EXCEPT ![e] = s]
  PROVE  /\ stream' \in [Conns -> StreamType] /\ stream'[e] = s
         /\ \A f \in Conns : f # e => stream'[f] = stream[f]
BY DEF RedisState

LEMMA WriteKeeps ==
  ASSUME RedisClientAssumption, RedisInv, NEW o \in Op, Write(o) PROVE RedisInv'
<1>0. op[o].pc = "writing" /\ RedisState /\ op[o].pc \in OnStream
  BY DEF Write, RedisInv, OnStream
<1>1. /\ conn \in Conns /\ conn <= dialled /\ op[o].at = conn /\ op[o].pc \in Active /\ busy
      /\ stream[conn] \in StreamType /\ stream[conn].owed = <<>>
  BY <1>0, OnConnection DEF Asking
<1>2. stream[conn].back = <<>> /\ reader
  BY <1>0 DEF RedisInv, Place, OnStream
<1>3. DOMAIN got' = Op /\ \A p \in Op : got'[p] = got[p] /\ got'[p] \in {"none", p}
  BY <1>0 DEF RedisState, Write
<1>4. op[o].kind # "connect" => ~op[o].sent /\ got[o] = "none"
  BY <1>0 DEF RedisInv, Truth
<1>5. UNCHANGED <<closed, busy, dialled, got>>
  BY DEF Write
<1>6. PICK acc : acc = [stream EXCEPT ![conn].owed = Append(@, o)]
  OBVIOUS
<1>7. PICK s : s = [stream[conn] EXCEPT !.owed = <<o>>]
  OBVIOUS
<1>8. s \in StreamType /\ s.owed = <<o>> /\ s.back = <<>> /\ s.open = stream[conn].open
  <2>1. <<o>> \in Seq(Op)
    OBVIOUS
  <2> QED BY <1>1, <1>2, <1>7, <2>1 DEF StreamType
<1>9. acc = [stream EXCEPT ![conn] = s]
  <2>1. Append(stream[conn].owed, o) = <<o>>
    BY <1>1
  <2> QED BY <1>1, <1>6, <1>7, <2>1
<1>10. CASE /\ stream' = acc
            /\ op' = [op EXCEPT ![o].pc = "reading", ![o].sent = TRUE]
            /\ UNCHANGED <<broken, reader, conn>>
  <2>1. stream' \in [Conns -> StreamType] /\ stream'[conn] = s
        /\ \A f \in Conns : f # conn => stream'[f] = stream[f]
    BY <1>0, <1>1, <1>8, <1>9, <1>10, OneStream
  <2>2. PICK q : q = [op[o] EXCEPT !.pc = "reading", !.sent = TRUE]
    OBVIOUS
  <2>3. q \in CallType /\ q.pc = "reading" /\ q.kind = op[o].kind /\ q.at = op[o].at /\ q.sent
    <3>1. op[o] \in CallType
      BY <1>0 DEF RedisState
    <3> QED BY <2>2, <3>1 DEF CallType, RedisPc, Active
  <2>4. op' = [op EXCEPT ![o] = q]
    BY <1>0, <1>10, <2>2 DEF RedisState
  <2>5. op' \in [Op -> CallType] /\ op'[o] = q /\ \A p \in Op : p # o => op'[p] = op[p]
    BY <1>0, <2>3, <2>4, RedisRecord
  <2>6. RedisState'
    BY <1>0, <1>5, <1>10, <2>1, <2>5 DEF RedisState
  <2>7. Resting'
    <3>1. ASSUME NEW e \in Conns, e > dialled PROVE stream'[e] = stream[e]
      <4>1. e # conn
        BY <1>1, <3>1, <1>0 DEF RedisState, Conns
      <4> QED BY <2>1, <4>1
    <3> QED BY <1>5, <1>10, <3>1 DEF RedisInv, Resting
  <2>8. Asking(o)'
    BY <2>3, <2>5 DEF Asking
  <2>9. InStep'
    BY <2>8 DEF InStep
  <2>10. Place(o)'
    BY <1>1, <1>2, <1>8, <1>10, <2>1, <2>3, <2>5 DEF Place, OnStream, Asking, Conns
  <2>11. Truth(o)'
    BY <2>3, <2>5 DEF Truth
  <2>12. op'[o].pc \in Active
    BY <2>3, <2>5 DEF Active
  <2> QED BY <1>1, <1>5, <2>5, <2>6, <2>7, <2>9, <2>10, <2>11, <2>12, ActiveStep
<1>11. CASE /\ broken' = TRUE /\ reader' = FALSE /\ conn' = 0
            /\ stream' = [acc EXCEPT ![conn].open = FALSE]
            /\ op' = [op EXCEPT ![o].pc = "leaving", ![o].res = "unknown", ![o].sent = TRUE]
  <2>1. PICK q : q = [op[o] EXCEPT !.pc = "leaving", !.res = "unknown", !.sent = TRUE]
    OBVIOUS
  <2>2. op' = [op EXCEPT ![o] = q]
    BY <1>0, <1>11, <2>1 DEF RedisState
  <2>3. PICK t : t = [s EXCEPT !.open = FALSE]
    OBVIOUS
  <2>4. t \in StreamType
    BY <1>8, <2>3 DEF StreamType
  <2>5. stream' = [stream EXCEPT ![conn] = t]
    BY <1>0, <1>1, <1>9, <1>11, <2>3 DEF RedisState
  <2>6. stream' \in [Conns -> StreamType] /\ \A f \in Conns : stream'[f] = stream[f] \/ f <= dialled
    BY <1>0, <1>1, <2>4, <2>5, OneStream
  <2>7. "unknown" \in Results /\ TRUE \in BOOLEAN
    BY DEF Results
  <2>8. broken' \in BOOLEAN /\ reader' \in BOOLEAN
    BY <1>11
  <2> QED BY <1>1, <1>3, <1>5, <1>11, <2>1, <2>2, <2>6, <2>7, <2>8, ConcludeKeeps
<1>12. ASSUME NEW r \in {"closed", "transport", "timed_out"}, FailStream(o, r) PROVE RedisInv'
  <2>1. r \in Results /\ r # "unknown"
    BY DEF Results
  <2> QED BY <1>1, <1>3, <1>4, <1>5, <1>12, <2>1, FailStreamKeeps
<1>13. ASSUME Conclude(o, "timed_out"), UNCHANGED <<broken, reader, conn, stream>> PROVE RedisInv'
  <2>1. "timed_out" \in Results
    BY DEF Results
  <2>2. stream' \in [Conns -> StreamType]
    BY <1>0, <1>13 DEF RedisState
  <2> QED BY <1>1, <1>3, <1>4, <1>5, <1>13, <2>1, <2>2, EndKeeps
<1> QED BY <1>1, <1>6, <1>10, <1>11, <1>12, <1>13 DEF Write

LEMMA ReplyKeeps ==
  ASSUME RedisClientAssumption, RedisInv, NEW o \in Op, Reply(o) PROVE RedisInv'
<1>0. op[o].pc = "reading" /\ RedisState /\ op[o].pc \in OnStream
  BY DEF Reply, RedisInv, OnStream
<1>1. /\ conn \in Conns /\ conn <= dialled /\ op[o].at = conn /\ op[o].pc \in Active /\ busy
      /\ stream[conn] \in StreamType
  BY <1>0, OnConnection
<1>2. stream[conn].owed = <<>> /\ stream[conn].back = <<o>> /\ reader
  BY <1>0, <1>1 DEF RedisInv, Place, Asking, OnStream, Reply
<1>3. op[o].kind # "connect" => op[o].sent
  BY <1>0 DEF RedisInv, Truth
<1>4. UNCHANGED <<closed, busy, dialled>>
  BY DEF Reply
<1>5. got' = [got EXCEPT ![o] = o]
  BY <1>1, <1>2 DEF Reply
<1>6. /\ DOMAIN got' = Op /\ got'[o] = o /\ got'[o] # "none"
      /\ \A p \in Op : got'[p] \in {"none", p}
      /\ \A p \in Op : p # o => got'[p] = got[p]
  BY <1>0, <1>5 DEF RedisState, RedisClientAssumption
<1>7. PICK s : s = [stream[conn] EXCEPT !.back = <<>>]
  OBVIOUS
<1>8. s \in StreamType /\ s.owed = <<>> /\ s.back = <<>>
  <2>1. <<>> \in Seq(Op \cup {"push"})
    OBVIOUS
  <2> QED BY <1>1, <1>2, <1>7, <2>1 DEF StreamType
<1>9. ASSUME NEW r \in {"unknown", "remote"}, FailStream(o, r) PROVE RedisInv'
  <2>1. CASE r = "unknown"
    <3>1. "unknown" \in Results
      BY DEF Results
    <3> QED BY <1>1, <1>3, <1>4, <1>6, <1>9, <2>1, <3>1, FailStreamKeeps
  <2>2. CASE r = "remote"
    <3>1. "remote" \in Results
      BY DEF Results
    <3> QED BY <1>1, <1>4, <1>6, <1>9, <2>2, <3>1, FailStreamKeeps
  <2> QED BY <2>1, <2>2
<1>10. ASSUME stream' = [stream EXCEPT ![conn].back = <<>>], UNCHANGED <<broken, reader, conn>>
       PROVE  /\ stream' \in [Conns -> StreamType] /\ stream'[conn] = s
              /\ \A f \in Conns : f # conn => stream'[f] = stream[f]
  <2>1. stream' = [stream EXCEPT ![conn] = s]
    BY <1>7, <1>10
  <2> QED BY <1>0, <1>1, <1>8, <2>1, OneStream
<1>11. ASSUME stream' = [stream EXCEPT ![conn].back = <<>>], UNCHANGED <<broken, reader, conn>>,
              NEW r \in {"remote", "ok", "protocol"}, Conclude(o, r)
       PROVE  RedisInv'
  <2>1. r \in Results /\ r # "unknown"
    BY DEF Results
  <2>2. /\ stream' \in [Conns -> StreamType] /\ stream'[conn].owed = <<>>
        /\ \A f \in Conns : stream'[f] = stream[f] \/ f <= dialled
    BY <1>1, <1>8, <1>10, <1>11
  <2> QED BY <1>1, <1>4, <1>6, <1>11, <2>1, <2>2, EndKeeps
<1>12. ASSUME stream' = [stream EXCEPT ![conn].back = <<>>], UNCHANGED <<broken, reader, conn>>,
              op[o].kind = "connect",
              op' = [op EXCEPT ![o].pc = AfterHello(op[o].left - 1), ![o].left = @ - 1]
       PROVE  RedisInv'
  <2>1. PICK h : h = AfterHello(op[o].left - 1) /\ h \in {"hello", "confirming"}
    BY DEF AfterHello
  <2>2. PICK q : q = [op[o] EXCEPT !.pc = h, !.left = op[o].left - 1]
    OBVIOUS
  <2>3. q \in CallType /\ q.pc = h /\ q.kind = "connect" /\ q.at = conn
    <3>1. op[o] \in CallType
      BY <1>0 DEF RedisState
    <3>2. op[o].left - 1 \in Int
      BY <3>1 DEF CallType
    <3>3. PICK n \in Int : n = op[o].left - 1
      BY <3>2
    <3>4. q = [op[o] EXCEPT !.pc = h, !.left = n]
      BY <2>2, <3>3
    <3> QED BY <1>1, <1>12, <2>1, <3>1, <3>4 DEF CallType, RedisPc, Active
  <2>4. op' = [op EXCEPT ![o] = q]
    BY <1>0, <1>12, <2>1, <2>2 DEF RedisState
  <2>5. op' \in [Op -> CallType] /\ op'[o] = q /\ \A p \in Op : p # o => op'[p] = op[p]
    BY <1>0, <2>3, <2>4, RedisRecord
  <2>6. stream' \in [Conns -> StreamType] /\ stream'[conn] = s
        /\ \A f \in Conns : f # conn => stream'[f] = stream[f]
    BY <1>10, <1>12
  <2>7. RedisState'
    BY <1>0, <1>4, <1>6, <1>12, <2>5, <2>6 DEF RedisState
  <2>8. Resting'
    <3>1. ASSUME NEW e \in Conns, e > dialled PROVE stream'[e] = stream[e]
      <4>1. e # conn
        BY <1>1, <3>1, <1>0 DEF RedisState, Conns
      <4> QED BY <2>6, <4>1
    <3> QED BY <1>4, <1>12, <3>1 DEF RedisInv, Resting
  <2>9. InStep'
    BY <1>8, <1>12, <2>6 DEF InStep
  <2>10. Place(o)'
    BY <1>1, <1>2, <1>8, <1>12, <2>1, <2>3, <2>5, <2>6 DEF Place, OnStream, Asking, Conns
  <2>11. Truth(o)'
    BY <2>3, <2>5 DEF Truth
  <2>12. op'[o].pc \in Active
    BY <2>1, <2>3, <2>5 DEF Active
  <2> QED BY <1>1, <1>4, <1>6, <2>5, <2>7, <2>8, <2>9, <2>10, <2>11, <2>12, ActiveStep
<1>13. PICK sh \in Shapes :
         \/ FailStream(o, "unknown")
         \/ op[o].kind = "connect" /\ FailStream(o, "remote")
         \/ /\ stream' = [stream EXCEPT ![conn].back = <<>>] /\ UNCHANGED <<broken, reader, conn>>
            /\ \/ Conclude(o, "remote")
               \/ Conclude(o, Answer(op[o].kind, sh))
               \/ /\ op[o].kind = "connect"
                  /\ op' = [op EXCEPT ![o].pc = AfterHello(op[o].left - 1), ![o].left = @ - 1]
  <2>1. Len(stream[op[o].at].back) = 1
    BY <1>1, <1>2
  <2>2. \A x \in Shapes : Decode(x) \in {"remote", "protocol", "value"}
    BY DEF Decode
  <2> QED BY <1>1, <2>1, <2>2 DEF Reply
<1>14. Answer(op[o].kind, sh) \in {"ok", "protocol"}
  BY DEF Answer
<1> QED BY <1>9, <1>11, <1>12, <1>13, <1>14

LEMMA LeaveKeeps ==
  ASSUME RedisInv, NEW o \in Op, Leave(o) PROVE RedisInv'
<1>0. op[o].pc = "leaving" /\ RedisState /\ op[o].pc \in Active
  BY DEF Leave, RedisInv, Active
<1>1. \A p \in Op : p # o => op[p].pc \in {"new", "over"}
  BY <1>0, RedisOthers
<1>2. PICK q : q = [op[o] EXCEPT !.pc = "over"]
  OBVIOUS
<1>3. /\ q \in CallType /\ q.pc = "over" /\ q.kind = op[o].kind /\ q.res = op[o].res
      /\ q.sent = op[o].sent
  <2>1. op[o] \in CallType
    BY <1>0 DEF RedisState
  <2> QED BY <2>1, <1>2 DEF CallType, RedisPc
<1>4. op' = [op EXCEPT ![o] = q]
  BY <1>0, <1>2 DEF Leave, RedisState
<1>5. op' \in [Op -> CallType] /\ op'[o] = q /\ \A p \in Op : p # o => op'[p] = op[p]
  BY <1>0, <1>3, <1>4, RedisRecord
<1>6. UNCHANGED <<closed, broken, conn, dialled, stream, got>> /\ busy' = FALSE
  BY DEF Leave
<1>7. reader' \in BOOLEAN /\ (~closed /\ ~broken => reader' = reader)
  BY <1>0 DEF Leave, RedisState
<1>8. RedisState'
  BY <1>0, <1>5, <1>6, <1>7 DEF RedisState
<1>9. ActiveOps' = {}
  BY <1>1, <1>3, <1>5 DEF ActiveOps, Active
<1>10. OneCall'
  BY <1>6, <1>9 DEF OneCall
<1>11. Resting'
  BY <1>6, <1>7 DEF RedisInv, Resting
<1>12. InStep'
  BY <1>0, <1>1, <1>6 DEF RedisInv, InStep, Asking
<1>13. ASSUME NEW p \in Op PROVE Place(p)' /\ Truth(p)'
  <2>1. CASE p = o
    <3>1. Place(o)'
      BY <1>3, <1>5 DEF Place, OnStream, Asking
    <3>2. Truth(o)'
      BY <1>0, <1>3, <1>5, <1>6 DEF Truth, RedisInv
    <3> QED BY <2>1, <3>1, <3>2
  <2>2. CASE p # o
    BY <2>2, <1>1, <1>5, <1>6, RedisBystander
  <2> QED BY <2>1, <2>2
<1> QED BY <1>8, <1>10, <1>11, <1>12, <1>13 DEF RedisInv

\* What happens to a stream outside the calls: its replies and whether it is open.
LEMMA OutsideKeeps ==
  ASSUME RedisInv, UNCHANGED <<busy, broken, conn, dialled, op, got>>,
         closed' \in {closed, TRUE}, reader' \in {reader, reader /\ busy},
         ~closed' => reader' = reader,
         stream' \in [Conns -> StreamType],
         \A e \in Conns : e > dialled => stream'[e] = stream[e] \/ stream'[e] = Shut(e)[e],
         conn # 0 => \/ /\ stream'[conn].owed = stream[conn].owed
                        /\ stream'[conn].back = stream[conn].back \/ ~busy
                     \/ \E o \in Op : /\ Asking(o) /\ stream[conn].owed = <<o>>
                                      /\ stream'[conn].owed = <<>> /\ stream'[conn].back = <<o>>
  PROVE  RedisInv'
<1>0. RedisState
  BY DEF RedisInv
<1>1. closed' \in BOOLEAN /\ reader' \in BOOLEAN /\ (busy => reader' = reader)
  BY <1>0 DEF RedisState
<1>2. RedisState'
  BY <1>0, <1>1 DEF RedisState
<1>3. OneCall'
  BY DEF OneCall, ActiveOps, RedisInv
<1>4. Resting'
  <2>1. ASSUME NEW e \in Conns, e > dialled
        PROVE  ~stream'[e].open /\ stream'[e].owed = <<>> /\ stream'[e].back = <<>>
    <3>1. ~stream[e].open /\ stream[e].owed = <<>> /\ stream[e].back = <<>>
      BY <2>1 DEF RedisInv, Resting
    <3> QED BY <1>0, <2>1, <3>1, ShutKeeps
  <2>2. closed => closed'
    <3>1. CASE closed' = closed
      BY <3>1
    <3>2. CASE closed' = TRUE
      BY <3>2
    <3> QED BY <3>1, <3>2
  <2>3. ~closed' /\ ~broken' => reader'
    BY <2>2 DEF RedisInv, Resting
  <2> QED BY <2>1, <2>3 DEF Resting
<1>5. InStep'
  BY DEF RedisInv, InStep, Asking
<1>6. ASSUME NEW p \in Op PROVE Place(p)'
  <2>1. Place(p)
    BY DEF RedisInv
  <2>2. CASE op[p].pc \in {"new", "over"}
    BY <2>1, <2>2 DEF Place, OnStream, Asking
  <2>3. CASE op[p].pc \notin {"new", "over"}
    <3>1. busy /\ reader' = reader
      BY <2>3, <1>1, RedisIdle
    <3>2. op[p].pc \in Active
      BY <2>3, <1>0 DEF RedisState, CallType, RedisPc
    <3>3. \A o \in Op : Asking(o) => o = p
      BY <3>2, RedisOthers DEF Asking
    <3> QED BY <2>1, <2>3, <3>1, <3>3 DEF Place, OnStream, Asking
  <2> QED BY <2>2, <2>3
<1>7. ASSUME NEW p \in Op PROVE Truth(p)'
  BY DEF RedisInv, Truth
<1> QED BY <1>2, <1>3, <1>4, <1>5, <1>6, <1>7 DEF RedisInv

LEMMA ServeKeeps ==
  ASSUME RedisInv, NEW e \in Conns, Serve(e) PROVE RedisInv'
<1>0. RedisState /\ stream[e] \in StreamType
  BY DEF RedisInv, RedisState
<1>1. stream[e].owed # <<>> /\ UNCHANGED <<closed, busy, broken, reader, conn, dialled, op, got>>
  BY DEF Serve, bits
<1>2. ~(e > dialled)
  BY <1>1 DEF RedisInv, Resting
<1>3. PICK s : s = [stream[e] EXCEPT !.owed = Tail(@), !.back = Append(@, Head(stream[e].owed))]
  OBVIOUS
<1>4. /\ s.owed = Tail(stream[e].owed) /\ s.back = Append(stream[e].back, Head(stream[e].owed))
      /\ s \in StreamType
  <2>1. stream[e].owed \in Seq(Op) /\ stream[e].back \in Seq(Op \cup {"push"})
    BY <1>0 DEF StreamType
  <2>2. Tail(stream[e].owed) \in Seq(Op) /\ Head(stream[e].owed) \in Op
    BY <1>1, <2>1
  <2>3. Append(stream[e].back, Head(stream[e].owed)) \in Seq(Op \cup {"push"})
    BY <2>1, <2>2
  <2> QED BY <1>0, <1>3, <2>2, <2>3 DEF StreamType
<1>5. stream' = [stream EXCEPT ![e] = s]
  BY <1>3 DEF Serve
<1>6. /\ stream' \in [Conns -> StreamType] /\ stream'[e] = s
      /\ \A f \in Conns : f # e => stream'[f] = stream[f]
  BY <1>0, <1>4, <1>5, OneStream
<1>7. CASE e = conn
  <2>1. conn # 0
    BY <1>7 DEF Conns
  <2>2. PICK o \in Op : Asking(o)
    BY <1>1, <1>7, <2>1 DEF RedisInv, InStep
  <2>3. stream[conn].owed = <<o>> /\ stream[conn].back = <<>>
    BY <1>1, <1>7, <2>2 DEF RedisInv, Place
  <2>4. s.owed = <<>> /\ s.back = <<o>>
    BY <1>4, <1>7, <2>3
  <2> QED BY <1>1, <1>2, <1>6, <1>7, <2>2, <2>3, <2>4, OutsideKeeps
<1>8. CASE e # conn
  <2>1. conn # 0 => conn \in Conns
    BY <1>0 DEF RedisState, Conns
  <2> QED BY <1>1, <1>2, <1>6, <1>8, <2>1, OutsideKeeps
<1> QED BY <1>7, <1>8

LEMMA PushKeeps ==
  ASSUME RedisInv, NEW e \in Conns, Push(e) PROVE RedisInv'
<1>0. RedisState /\ stream[e] \in StreamType
  BY DEF RedisInv, RedisState
<1>1. Open(e) /\ ~busy /\ UNCHANGED <<closed, busy, broken, reader, conn, dialled, op, got>>
  BY DEF Push, bits
<1>2. ~(e > dialled)
  BY <1>1 DEF RedisInv, Resting, Open
<1>3. PICK s : s = [stream[e] EXCEPT !.back = <<"push">>]
  OBVIOUS
<1>4. s.owed = stream[e].owed /\ s \in StreamType
  <2>1. <<"push">> \in Seq(Op \cup {"push"})
    OBVIOUS
  <2> QED BY <1>0, <1>3, <2>1 DEF StreamType
<1>5. stream' = [stream EXCEPT ![e] = s]
  BY <1>3 DEF Push
<1>6. /\ stream' \in [Conns -> StreamType] /\ stream'[e] = s
      /\ \A f \in Conns : f # e => stream'[f] = stream[f]
  BY <1>0, <1>4, <1>5, OneStream
<1>7. conn # 0 => stream'[conn].owed = stream[conn].owed
  <2>1. conn # 0 => conn \in Conns
    BY <1>0 DEF RedisState, Conns
  <2> QED BY <1>4, <1>6, <2>1
<1> QED BY <1>1, <1>2, <1>6, <1>7, OutsideKeeps

LEMMA ShutStep ==
  ASSUME RedisInv, NEW e, stream' = Shut(e), UNCHANGED <<busy, broken, conn, dialled, op, got>>,
         closed' \in {closed, TRUE}, reader' \in {reader, reader /\ busy},
         ~closed' => reader' = reader
  PROVE  RedisInv'
<1>0. RedisState
  BY DEF RedisInv
<1>1. /\ stream' \in [Conns -> StreamType]
      /\ \A f \in Conns : stream'[f].owed = stream[f].owed /\ stream'[f].back = stream[f].back
  BY <1>0, ShutKeeps
<1>2. \A f \in Conns : stream'[f] = stream[f] \/ stream'[f] = Shut(f)[f]
  BY DEF Shut
<1>3. conn # 0 => conn \in Conns
  BY <1>0 DEF RedisState, Conns
<1> QED BY <1>1, <1>2, <1>3, OutsideKeeps

LEMMA RedisNextKeeps ==
  ASSUME RedisClientAssumption PROVE RedisInv /\ [RedisNext]_redisVars => RedisInv'
<1> SUFFICES ASSUME RedisInv, [RedisNext]_redisVars PROVE RedisInv'
  OBVIOUS
<1>1. ASSUME NEW o \in Op, Connect(o) PROVE RedisInv'
  BY <1>1, ConnectKeeps
<1>2. ASSUME NEW o \in Op, Dialled(o) PROVE RedisInv'
  BY <1>2, DialledKeeps
<1>3. ASSUME NEW o \in Op, Hello(o) PROVE RedisInv'
  BY <1>3, HelloKeeps
<1>4. ASSUME NEW o \in Op, Confirm(o) PROVE RedisInv'
  BY <1>4, ConfirmKeeps
<1>5. ASSUME NEW o \in Op, Execute(o) PROVE RedisInv'
  BY <1>5, ExecuteKeeps
<1>6. ASSUME NEW o \in Op, Check(o) PROVE RedisInv'
  BY <1>6, CheckKeeps
<1>7. ASSUME NEW o \in Op, Write(o) PROVE RedisInv'
  BY <1>7, WriteKeeps
<1>8. ASSUME NEW o \in Op, Reply(o) PROVE RedisInv'
  BY <1>8, ReplyKeeps
<1>9. ASSUME NEW o \in Op, ReadFails(o) PROVE RedisInv'
  BY <1>9, ReadFailsKeeps
<1>10. ASSUME NEW o \in Op, Leave(o) PROVE RedisInv'
  BY <1>10, LeaveKeeps
<1>11. ASSUME NEW e \in Conns, Serve(e) PROVE RedisInv'
  BY <1>11, ServeKeeps
<1>12. ASSUME NEW e \in Conns, Push(e) PROVE RedisInv'
  BY <1>12, PushKeeps
<1>13. ASSUME NEW e \in Conns, Lose(e) PROVE RedisInv'
  BY <1>13, ShutStep DEF Lose, bits
<1>14. CASE CloseRedis
  <2>1. closed' = TRUE /\ reader' \in {reader, reader /\ busy}
    BY <1>14 DEF CloseRedis
  <2> QED BY <1>14, <2>1, ShutStep DEF CloseRedis
<1>15. CASE UNCHANGED redisVars
  <2>1. RedisState' /\ OneCall' /\ Resting' /\ InStep'
    BY <1>15 DEF redisVars, RedisInv, RedisState, OneCall, ActiveOps, Resting, InStep, Asking
  <2>2. \A o \in Op : Place(o)' /\ Truth(o)'
    BY <1>15 DEF redisVars, RedisInv, Place, Truth, OnStream, Asking
  <2> QED BY <2>1, <2>2 DEF RedisInv
<1> QED BY <1>1, <1>2, <1>3, <1>4, <1>5, <1>6, <1>7, <1>8, <1>9, <1>10, <1>11, <1>12, <1>13,
           <1>14, <1>15 DEF RedisNext

LEMMA RedisProperties == ASSUME RedisClientAssumption, RedisInv PROVE RedisExact
<1>1. RedisTypes
  <2>1. {closed, busy, broken, reader} \subseteq BOOLEAN /\ {conn, dialled} \subseteq 0..Dials
    BY DEF RedisInv, RedisState
  <2>2. \A e \in Conns : stream[e].open \in BOOLEAN
    BY DEF RedisInv, RedisState, StreamType
  <2>3. \A o \in Op : op[o].pc \in Active \cup {"new", "over"} /\ op[o].at \in 0..Dials
    BY DEF RedisInv, RedisState, CallType, RedisPc
  <2> QED BY <2>1, <2>2, <2>3 DEF RedisTypes
<1>2. OneActive
  <2>1. ActiveOps = {} <=> ~busy
    BY DEF RedisInv, OneCall
  <2>2. Cardinality(ActiveOps) <= 1
    <3>1. CASE ActiveOps = {}
      BY <3>1, FS_EmptySet
    <3>2. CASE ActiveOps # {}
      <4>1. PICK o : o \in ActiveOps
        BY <3>2
      <4>2. ActiveOps = {o}
        BY <4>1 DEF RedisInv, OneCall
      <4> QED BY <4>2, FS_Singleton
    <3> QED BY <3>1, <3>2
  <2>3. \A o \in Op : op[o].pc \in {"hello", "checking", "writing", "reading"} => reader
    BY DEF RedisInv, Place, OnStream
  <2> QED BY <2>1, <2>2, <2>3 DEF OneActive, ActiveOps
<1>3. ReplyMatches
  BY DEF ReplyMatches, RedisInv, RedisState
<1>4. UnknownExact
  <2>1. ASSUME NEW o \in Op, op[o].kind \in Commands, op[o].pc = "over"
        PROVE  /\ op[o].res = "unknown" => op[o].sent
               /\ op[o].sent /\ got[o] = "none" => op[o].res = "unknown"
    BY <2>1, KindsAre DEF RedisInv, Truth
  <2>2. conn # 0 /\ ~busy => stream[conn].owed = <<>>
    BY RedisIdle DEF RedisInv, InStep, Asking
  <2> QED BY <2>1, <2>2 DEF UnknownExact
<1> QED BY <1>1, <1>2, <1>3, <1>4 DEF RedisExact

THEOREM RedisAlways == ASSUME RedisClientAssumption PROVE RedisSpec => []RedisInv
<1>1. RedisInit => RedisInv
  BY RedisStarts
<1>2. RedisInv /\ [RedisNext]_redisVars => RedisInv'
  BY RedisNextKeeps
<1> QED BY <1>1, <1>2, PTL DEF RedisSpec

\* State::Execute and State::Fail: one call at a time, on a stream that is in step with it; a
\* reply never reaches another call, and a command that may have been executed without an
\* answer is told as unknown.
THEOREM RedisKeepsInStep == ASSUME RedisClientAssumption PROVE RedisSpec => []RedisExact
<1>1. RedisInv => RedisExact
  BY RedisProperties
<1> QED BY <1>1, RedisAlways, PTL

-----------------------------------------------------------------------------
(***************************************************************************)
(* The redis pool.  What the lock keeps is stated over slots S, callers C, *)
(* a queue W and the idle slots A, with the slots P whose client is in the *)
(* hand of whoever has the lock: so it can be carried through the parts of *)
(* a step.                                                                 *)
(***************************************************************************)

BorrowPc == {"out", "entering", "waiting", "ended", "holding", "returning", "retiring"}
BorrowType == [pc : BorrowPc, client : 0..Builds, slot : 0..Size, woken : BOOLEAN, full : BOOLEAN]
SlotType == [client : 0..Builds, alive : BOOLEAN]
BuildType == [pc : {"idle", "started", "building", "over"}, targets : Seq(Slots), made : Seq(Clients)]
SealType == [clients : SUBSET Clients, callers : SUBSET Borrower]
ClientPc == {"unborn", "healthy", "broken", "closed"}

Has(r) == r.client # 0

BorrowState ==
  /\ borrowClosed \in BOOLEAN /\ ready \in BOOLEAN /\ connecting \in BOOLEAN
  /\ DOMAIN slots \in {{}, Slots} /\ slots \in [DOMAIN slots -> SlotType]
  /\ available \in Seq(Slots) /\ borrowWaiters \in Seq(Borrower)
  /\ caller \in [Borrower -> BorrowType]
  /\ client \in [Clients -> ClientPc]
  /\ build \in BuildType /\ sealing \in SealType

\* A caller in the queue has nothing yet and is not woken; it is there once, and nobody is
\* there while a slot is idle.
LineFits(C, W, A) ==
  /\ Distinct(W) /\ Len(W) <= MaxWaiters
  /\ \A c \in ToSet(W) : C[c].pc \in {"waiting", "ended"} /\ ~Has(C[c]) /\ ~C[c].woken
  /\ W # <<>> => A = <<>>

\* What a caller has is the client of the living slot it names, and of no other's.
HoldersFit(S, C, A, P) ==
  /\ \A c \in Borrower : Has(C[c]) => /\ C[c].slot \in DOMAIN S /\ S[C[c].slot].alive
                                      /\ S[C[c].slot].client = C[c].client
                                      /\ C[c].slot \notin ToSet(A) \cup P
  /\ \A c, d \in Borrower : Has(C[c]) /\ C[c].client = C[d].client => c = d

\* The client of a living slot has one place: with a caller, among the idle ones or in hand.
SlotsFit(S, C, A, P) ==
  /\ Distinct(A) /\ ToSet(A) \cup P \subseteq DOMAIN S /\ ToSet(A) \cap P = {}
  /\ \A i \in ToSet(A) \cup P : S[i].alive
  /\ \A i \in DOMAIN S : S[i].alive => i \in ToSet(A) \cup P \/ \E c \in Borrower : Has(C[c]) /\ C[c].slot = i

\* Slots have clients of their own.
SlotClients(S) ==
  /\ \A i \in DOMAIN S : S[i].alive => S[i].client # 0
  /\ \A i, j \in DOMAIN S : S[i].client = S[j].client /\ S[i].client # 0 => i = j

CallerFits(r) ==
  /\ r.pc \in {"holding", "returning", "retiring"} => Has(r)
  /\ r.pc \in {"out", "entering"} => ~Has(r)
  /\ r.pc \in {"out", "entering"} /\ ~borrowClosed => ~r.woken
  /\ r.pc = "entering" => ready \/ borrowClosed
  /\ r.pc = "retiring" => client[r.client] = "closed"
  /\ Has(r) => client[r.client] # "unborn"

\* A caller that waits is woken, in the queue or in what Close took out of it.
Remembered(C, W) ==
  \A c \in Borrower : C[c].pc = "waiting" /\ ~C[c].woken => c \in ToSet(W) \cup sealing.callers

CallersFit(C, W) == Remembered(C, W) /\ \A c \in Borrower : CallerFits(C[c])

\* All of it.
Kept(S, C, W, A, P) ==
  /\ S \in [DOMAIN S -> SlotType] /\ DOMAIN S \subseteq Slots
  /\ C \in [Borrower -> BorrowType] /\ W \in Seq(Borrower) /\ A \in Seq(Slots)
  /\ LineFits(C, W, A) /\ HoldersFit(S, C, A, P) /\ SlotsFit(S, C, A, P) /\ SlotClients(S)
  /\ CallersFit(C, W)

\* Until Close the pool is as the lock keeps it, after it empty.
PoolShape ==
  /\ borrowClosed => DOMAIN slots = {} /\ available = <<>> /\ borrowWaiters = <<>> /\ ~ready
  /\ ~borrowClosed => /\ Kept(slots, caller, borrowWaiters, available, {})
                      /\ sealing = Nothing
  /\ ready => DOMAIN slots = Slots

\* The clients that are being built are open and nowhere else, and their targets dead slots.
MadeFits ==
  /\ Distinct(build.made) /\ Len(build.made) <= Len(build.targets) /\ Distinct(build.targets)
  /\ \A k \in ToSet(build.made) : /\ client[k] \in {"healthy", "broken"} /\ k \notin sealing.clients
                                  /\ \A i \in DOMAIN slots : slots[i].client # k
                                  /\ \A c \in Borrower : caller[c].client # k
  /\ ~borrowClosed => \A i \in ToSet(build.targets) : i \in DOMAIN slots /\ ~slots[i].alive
  /\ build.pc # "building" => build.made = <<>>
  /\ build.pc \in {"idle", "started"} => build.targets = <<>>
  /\ build.pc # "idle" /\ ~borrowClosed => DOMAIN slots = Slots

\* The clients are numbered as they are built, and an open one can be reached.
ClientsFit ==
  /\ \E n \in 0..Builds : \A k \in Clients : client[k] # "unborn" <=> k <= n
  /\ \A i \in DOMAIN slots : slots[i].client # 0 =>
       /\ client[slots[i].client] # "unborn"
       /\ ~slots[i].alive => client[slots[i].client] = "closed"
  /\ \A k \in sealing.clients : client[k] # "unborn"
  /\ \A k \in Clients : client[k] \in {"healthy", "broken"} =>
       \/ k \in ToSet(build.made) \cup sealing.clients
       \/ \E i \in DOMAIN slots : slots[i].client = k

BorrowInv ==
  BorrowState /\ PoolShape /\ CallersFit(caller, borrowWaiters) /\ MadeFits /\ ClientsFit

-----------------------------------------------------------------------------
(***************************************************************************)
(* A client in hand goes to the first waiter, or becomes idle.             *)
(***************************************************************************)

\* One caller of the queue is given the client.
LEMMA HandOver ==
  ASSUME NEW S, NEW C, NEW W, NEW A, NEW P, Kept(S, C, W, A, P), RedisPoolAssumption,
         NEW i \in P, client[S[i].client] # "unborn", W # <<>>,
         NEW w, w = Head(W), NEW q, q = [C[w] EXCEPT !.client = S[i].client, !.slot = i, !.woken = TRUE],
         NEW D, D = [C EXCEPT ![w] = q]
  PROVE  Kept(S, D, Tail(W), A, P \ {i})
<1>1. /\ W \in Seq(Borrower) /\ Distinct(W) /\ A = <<>> /\ C \in [Borrower -> BorrowType]
      /\ S \in [DOMAIN S -> SlotType] /\ DOMAIN S \subseteq Slots
  BY DEF Kept, LineFits
<1>2. /\ w \in Borrower /\ w \in ToSet(W)
      /\ Tail(W) \in Seq(Borrower) /\ Len(Tail(W)) = Len(W) - 1 /\ Distinct(Tail(W))
      /\ ToSet(Tail(W)) = ToSet(W) \ {w}
  BY <1>1, TailDistinct
<1>3. i \in DOMAIN S /\ S[i].alive /\ S[i] \in SlotType /\ i \in Slots
  BY <1>1 DEF Kept, SlotsFit
<1>4. S[i].client # 0 /\ S[i].client \in 0..Builds /\ i \in 0..Size
  BY <1>1, <1>3 DEF Kept, SlotClients, SlotType, Slots
<1>5. C[w] \in BorrowType /\ C[w].pc \in {"waiting", "ended"} /\ ~Has(C[w])
  BY <1>1, <1>2 DEF Kept, LineFits
<1>6. /\ q \in BorrowType /\ q.pc = C[w].pc /\ q.client = S[i].client /\ q.slot = i /\ q.woken
  BY <1>4, <1>5 DEF BorrowType
<1>7. /\ D \in [Borrower -> BorrowType] /\ D[w] = q
      /\ \A c \in Borrower : c # w => D[c] = C[c]
  BY <1>1, <1>2, <1>6
<1>8. LineFits(D, Tail(W), A)
  <2>1. Len(Tail(W)) <= MaxWaiters
    <3>1. Len(W) \in Nat /\ Len(W) <= MaxWaiters /\ MaxWaiters \in Nat
      BY <1>1 DEF Kept, LineFits, RedisPoolAssumption
    <3> QED BY <3>1, <1>2
  <2>2. \A c \in ToSet(Tail(W)) : c \in Borrower /\ c # w /\ c \in ToSet(W)
    <3>1. \A c \in ToSet(W) : c \in Borrower
      BY <1>1 DEF ToSet
    <3> QED BY <3>1, <1>2
  <2>3. \A c \in ToSet(W) : C[c].pc \in {"waiting", "ended"} /\ ~Has(C[c]) /\ ~C[c].woken
    BY DEF Kept, LineFits
  <2> QED BY <1>1, <1>2, <1>7, <2>1, <2>2, <2>3 DEF LineFits
<1>9. HoldersFit(S, D, A, P \ {i})
  <2>1. ToSet(A) = {}
    BY <1>1 DEF ToSet
  <2>2. \A c \in Borrower : Has(C[c]) => /\ C[c].slot \in DOMAIN S /\ S[C[c].slot].alive
                                         /\ S[C[c].slot].client = C[c].client
                                         /\ C[c].slot # i /\ C[c].slot \notin P
    BY DEF Kept, HoldersFit
  <2>3. \A c \in Borrower : Has(C[c]) => C[c].client # S[i].client
    BY <2>2, <1>3, <1>4 DEF Kept, SlotClients
  <2>4. \A c, d \in Borrower : Has(C[c]) /\ C[c].client = C[d].client => c = d
    BY DEF Kept, HoldersFit
  <2>5. ASSUME NEW c \in Borrower, Has(D[c])
        PROVE  /\ D[c].slot \in DOMAIN S /\ S[D[c].slot].alive /\ S[D[c].slot].client = D[c].client
               /\ D[c].slot \notin ToSet(A) \cup (P \ {i})
    BY <1>3, <1>6, <1>7, <2>1, <2>2, <2>5
  <2>6. ASSUME NEW c \in Borrower, NEW d \in Borrower, Has(D[c]), D[c].client = D[d].client, c # d
        PROVE  FALSE
    <3>1. CASE c = w
      <4>1. D[d] = C[d] /\ Has(D[d])
        BY <1>7, <2>6, <3>1 DEF Has
      <4> QED BY <4>1, <3>1, <2>3, <2>6, <1>6, <1>7
    <3>2. CASE d = w
      BY <3>2, <2>3, <2>6, <1>6, <1>7
    <3>3. CASE c # w /\ d # w
      BY <3>3, <2>4, <2>6, <1>7
    <3> QED BY <3>1, <3>2, <3>3
  <2> QED BY <2>5, <2>6 DEF HoldersFit
<1>10. SlotsFit(S, D, A, P \ {i})
  <2>1. Has(D[w]) /\ D[w].slot = i
    BY <1>4, <1>6, <1>7 DEF Has
  <2>2. ASSUME NEW j \in DOMAIN S, S[j].alive
        PROVE  j \in ToSet(A) \cup (P \ {i}) \/ \E c \in Borrower : Has(D[c]) /\ D[c].slot = j
    <3>1. CASE j = i
      BY <3>1, <2>1, <1>2
    <3>2. CASE j # i
      <4>1. j \in ToSet(A) \cup P \/ \E c \in Borrower : Has(C[c]) /\ C[c].slot = j
        BY <2>2 DEF Kept, SlotsFit
      <4> QED BY <4>1, <3>2, <1>5, <1>7
    <3> QED BY <3>1, <3>2
  <2> QED BY <2>2 DEF SlotsFit, Kept
<1>11. CallersFit(D, Tail(W))
  <2>1. \A c \in Borrower : CallerFits(C[c])
    BY DEF Kept, CallersFit
  <2>2. CallerFits(q)
    BY <1>4, <1>5, <1>6 DEF CallerFits, Has
  <2>3. Remembered(D, Tail(W))
    BY <1>2, <1>6, <1>7 DEF Remembered, Kept, CallersFit
  <2> QED BY <1>7, <2>1, <2>2, <2>3 DEF CallersFit
<1>12. SlotClients(S)
  BY DEF Kept
<1> QED BY <1>1, <1>2, <1>7, <1>8, <1>9, <1>10, <1>11, <1>12 DEF Kept

\* Nobody waits: it becomes idle.
LEMMA BecomeIdle ==
  ASSUME NEW S, NEW C, NEW W, NEW A, NEW P, Kept(S, C, W, A, P), NEW i \in P, W = <<>>
  PROVE  Kept(S, C, W, Append(A, i), P \ {i})
<1>1. A \in Seq(Slots) /\ Distinct(A) /\ i \notin ToSet(A) /\ i \in Slots
  BY DEF Kept, SlotsFit
<1>2. /\ Append(A, i) \in Seq(Slots) /\ Distinct(Append(A, i))
      /\ ToSet(Append(A, i)) = ToSet(A) \cup {i}
  BY <1>1, AppendToSet, AppendDistinct
<1>3. ToSet(Append(A, i)) \cup (P \ {i}) = ToSet(A) \cup P
  BY <1>2
<1>4. HoldersFit(S, C, Append(A, i), P \ {i})
  BY <1>3 DEF Kept, HoldersFit
<1>5. SlotsFit(S, C, Append(A, i), P \ {i})
  BY <1>1, <1>2, <1>3 DEF Kept, SlotsFit
<1>6. LineFits(C, W, Append(A, i))
  BY DEF Kept, LineFits
<1> QED BY <1>2, <1>4, <1>5, <1>6 DEF Kept

LEMMA RequeueKeeps ==
  ASSUME NEW S, NEW C, NEW W, NEW A, NEW P, Kept(S, C, W, A, P), RedisPoolAssumption,
         ~borrowClosed, NEW i \in P, client[S[i].client] # "unborn",
         NEW r, r = Requeue(C, S, W, A, S[i].client, i)
  PROVE  Kept(S, r.callers, r.waiters, r.available, P \ {i})
<1>1. i \in DOMAIN S /\ S[i].client # 0
  BY DEF Kept, SlotsFit, SlotClients
<1>2. CASE W # <<>>
  <2>1. PICK w : w = Head(W)
    OBVIOUS
  <2>2. PICK q : q = [C[w] EXCEPT !.client = S[i].client, !.slot = i, !.woken = TRUE]
    OBVIOUS
  <2>3. PICK D : D = [C EXCEPT ![w] = q]
    OBVIOUS
  <2>4. Kept(S, D, Tail(W), A, P \ {i})
    BY <1>2, <2>1, <2>2, <2>3, HandOver
  <2>5. C \in [Borrower -> BorrowType] /\ w \in Borrower
    BY <1>2, <2>1 DEF Kept
  <2>6. D = [C EXCEPT ![Head(W)].client = S[i].client, ![Head(W)].slot = i, ![Head(W)].woken = TRUE]
    BY <2>1, <2>2, <2>3, <2>5
  <2>7. r = [callers |-> D, waiters |-> Tail(W), available |-> A]
    BY <1>1, <1>2, <2>6 DEF Requeue
  <2> QED BY <2>4, <2>7
<1>3. CASE W = <<>>
  <2>1. r = [callers |-> C, waiters |-> W, available |-> Append(A, i)]
    BY <1>1, <1>3 DEF Requeue
  <2>2. Kept(S, C, W, Append(A, i), P \ {i})
    BY <1>3, BecomeIdle
  <2> QED BY <2>1, <2>2
<1> QED BY <1>2, <1>3

-----------------------------------------------------------------------------
(***************************************************************************)
(* What a caller does under the lock.                                      *)
(***************************************************************************)

\* Callers that keep what they have.
LEMMA SamePlaces ==
  ASSUME NEW S, NEW C, NEW W, NEW A, NEW P, Kept(S, C, W, A, P),
         NEW D, D \in [Borrower -> BorrowType],
         \A d \in Borrower : D[d].client = C[d].client /\ D[d].slot = C[d].slot,
         \A d \in ToSet(W) : D[d].pc \in {"waiting", "ended"} /\ ~D[d].woken
  PROVE  LineFits(D, W, A) /\ HoldersFit(S, D, A, P) /\ SlotsFit(S, D, A, P)
<1>1. \A d \in ToSet(W) : d \in Borrower
  BY DEF Kept, ToSet
<1>2. LineFits(D, W, A)
  BY <1>1 DEF Kept, LineFits, Has
<1>3. HoldersFit(S, D, A, P)
  BY DEF Kept, HoldersFit, Has
<1>4. SlotsFit(S, D, A, P)
  BY DEF Kept, SlotsFit, Has
<1> QED BY <1>2, <1>3, <1>4

LEMMA SameHolding ==
  ASSUME NEW S, NEW C, NEW W, NEW A, NEW P, Kept(S, C, W, A, P), NEW c \in Borrower,
         NEW q \in BorrowType, q.client = C[c].client, q.slot = C[c].slot, CallerFits(q),
         c \in ToSet(W) => q.pc \in {"waiting", "ended"} /\ ~q.woken,
         q.pc = "waiting" /\ ~q.woken => c \in ToSet(W) \cup sealing.callers,
         NEW D, D = [C EXCEPT ![c] = q]
  PROVE  Kept(S, D, W, A, P)
<1>1. D \in [Borrower -> BorrowType] /\ D[c] = q /\ \A d \in Borrower : d # c => D[d] = C[d]
  BY DEF Kept
<1>3. LineFits(D, W, A) /\ HoldersFit(S, D, A, P) /\ SlotsFit(S, D, A, P)
  <2>1. \A d \in Borrower : D[d].client = C[d].client /\ D[d].slot = C[d].slot
    BY <1>1
  <2>2. \A d \in ToSet(W) : D[d].pc \in {"waiting", "ended"} /\ ~D[d].woken
    <3>1. \A d \in ToSet(W) : d \in Borrower /\ C[d].pc \in {"waiting", "ended"} /\ ~C[d].woken
      BY DEF Kept, LineFits, ToSet
    <3> QED BY <3>1, <1>1
  <2> QED BY ONLY <1>1, <2>1, <2>2, Kept(S, C, W, A, P), SamePlaces
<1>2. CallersFit(D, W)
  BY <1>1 DEF Kept, CallersFit, Remembered
<1> QED BY <1>1, <1>2, <1>3 DEF Kept

\* A caller whose wait is over is taken out of the queue.
LEMMA LeavesLine ==
  ASSUME NEW S, NEW C, NEW W, NEW A, NEW P, Kept(S, C, W, A, P), RedisPoolAssumption,
         NEW c \in Borrower, C[c].pc # "waiting" \/ C[c].woken
  PROVE  Kept(S, C, Without(W, {c}), A, P) /\ ToSet(Without(W, {c})) = ToSet(W) \ {c}
<1>1. W \in Seq(Borrower) /\ Distinct(W) /\ Len(W) <= MaxWaiters
  BY DEF Kept, LineFits
<1>2. PICK V : V = Without(W, {c})
  OBVIOUS
<1>3. /\ V \in Seq(Borrower) /\ ToSet(V) = ToSet(W) \ {c} /\ Len(V) <= Len(W) /\ Distinct(V)
  BY <1>1, <1>2, WithoutProperties, WithoutDistinct
<1>4. V # <<>> => W # <<>>
  <2>1. W = <<>> => Len(V) <= 0
    BY <1>3
  <2>2. Len(V) \in Nat
    BY <1>3
  <2> QED BY <1>3, <2>1, <2>2
<1>5. Len(V) <= MaxWaiters
  <2>1. Len(V) \in Nat /\ Len(W) \in Nat /\ MaxWaiters \in Nat
    BY <1>1, <1>3 DEF RedisPoolAssumption
  <2> QED BY <1>1, <1>3, <2>1
<1>6. LineFits(C, V, A)
  BY <1>3, <1>4, <1>5 DEF Kept, LineFits
<1>7. CallersFit(C, V)
  BY <1>3 DEF Kept, CallersFit, Remembered
<1> QED BY <1>2, <1>3, <1>6, <1>7 DEF Kept

\* A caller lets go of everything; the client it had is in hand.
LEMMA LetsGo ==
  ASSUME NEW S, NEW C, NEW W, NEW A, NEW P, Kept(S, C, W, A, P), RedisPoolAssumption,
         ~borrowClosed, NEW c \in Borrower, c \notin ToSet(W),
         NEW Q, Q = IF Has(C[c]) THEN P \cup {C[c].slot} ELSE P,
         NEW D, D = [C EXCEPT ![c] = Free]
  PROVE  Kept(S, D, W, A, Q)
<1>1. C \in [Borrower -> BorrowType] /\ Free \in BorrowType
  BY DEF Kept, Free, BorrowType, BorrowPc, RedisPoolAssumption
<1>2. D \in [Borrower -> BorrowType] /\ D[c] = Free /\ \A d \in Borrower : d # c => D[d] = C[d]
  BY <1>1
<1>3. ~Has(D[c])
  BY <1>2 DEF Has, Free
<1>4. LineFits(D, W, A)
  <2>1. \A d \in ToSet(W) : d \in Borrower /\ d # c
    BY DEF Kept, ToSet
  <2> QED BY <1>2, <2>1 DEF Kept, LineFits
<1>5. \A d \in Borrower : Has(C[d]) => /\ C[d].slot \in DOMAIN S /\ S[C[d].slot].alive
                                       /\ S[C[d].slot].client = C[d].client
                                       /\ C[d].slot \notin ToSet(A) \cup P
  BY DEF Kept, HoldersFit
<1>6. \A d, e \in Borrower : Has(C[d]) /\ C[d].client = C[e].client => d = e
  BY DEF Kept, HoldersFit
<1>7. HoldersFit(S, D, A, Q)
  <2>1. ASSUME NEW d \in Borrower, Has(D[d])
        PROVE  /\ D[d].slot \in DOMAIN S /\ S[D[d].slot].alive /\ S[D[d].slot].client = D[d].client
               /\ D[d].slot \notin ToSet(A) \cup Q
    <3>1. d # c /\ D[d] = C[d] /\ Has(C[d])
      BY <1>2, <1>3, <2>1
    <3>2. Has(C[c]) => C[d].slot # C[c].slot
      BY <3>1, <1>5, <1>6
    <3> QED BY <3>1, <3>2, <1>5
  <2>2. ASSUME NEW d \in Borrower, NEW e \in Borrower, Has(D[d]), D[d].client = D[e].client
        PROVE  d = e
    <3>1. d # c /\ D[d] = C[d]
      BY <1>2, <1>3, <2>2
    <3>2. e # c
      BY <1>3, <2>2 DEF Has
    <3> QED BY <3>1, <3>2, <1>2, <1>6, <2>2
  <2> QED BY <2>1, <2>2 DEF HoldersFit
<1>8. SlotsFit(S, D, A, Q)
  <2>1. Has(C[c]) => C[c].slot \in DOMAIN S /\ S[C[c].slot].alive /\ C[c].slot \notin ToSet(A)
    BY <1>5
  <2>2. ASSUME NEW j \in DOMAIN S, S[j].alive
        PROVE  j \in ToSet(A) \cup Q \/ \E d \in Borrower : Has(D[d]) /\ D[d].slot = j
    <3>1. CASE Has(C[c]) /\ C[c].slot = j
      BY <3>1
    <3>2. CASE ~(Has(C[c]) /\ C[c].slot = j)
      <4>1. j \in ToSet(A) \cup P \/ \E d \in Borrower : Has(C[d]) /\ C[d].slot = j
        BY <2>2 DEF Kept, SlotsFit
      <4> QED BY <4>1, <3>2, <1>2
    <3> QED BY <3>1, <3>2
  <2>3. /\ Distinct(A) /\ ToSet(A) \cup P \subseteq DOMAIN S /\ ToSet(A) \cap P = {}
        /\ \A i \in ToSet(A) \cup P : S[i].alive
    BY DEF Kept, SlotsFit
  <2> QED BY <2>1, <2>2, <2>3 DEF SlotsFit
<1>9. CallerFits(Free)
  BY DEF CallerFits, Free, Has
<1>10. CallersFit(D, W)
  <2>1. Remembered(D, W)
    BY <1>2 DEF Kept, CallersFit, Remembered, Free
  <2> QED BY <1>2, <1>9, <2>1 DEF Kept, CallersFit
<1> QED BY <1>2, <1>4, <1>7, <1>8, <1>10 DEF Kept

\* A caller takes the first idle client.
LEMMA TakesClient ==
  ASSUME NEW S, NEW C, NEW W, NEW A, NEW P, Kept(S, C, W, A, P), NEW c \in Borrower,
         A # <<>>, ~Has(C[c]), NEW i, i = Head(A), client[S[i].client] # "unborn",
         NEW p \in {"holding", "waiting"},
         NEW q, q = [C[c] EXCEPT !.pc = p, !.client = S[i].client, !.slot = i, !.woken = TRUE],
         NEW D, D = [C EXCEPT ![c] = q]
  PROVE  Kept(S, D, W, Tail(A), P)
<1>1. /\ A \in Seq(Slots) /\ Distinct(A) /\ W = <<>> /\ C \in [Borrower -> BorrowType]
      /\ S \in [DOMAIN S -> SlotType] /\ DOMAIN S \subseteq Slots
  BY DEF Kept, SlotsFit, LineFits
<1>2. /\ i \in ToSet(A) /\ Tail(A) \in Seq(Slots) /\ Distinct(Tail(A))
      /\ ToSet(Tail(A)) = ToSet(A) \ {i}
  BY <1>1, TailDistinct
<1>3. i \in DOMAIN S /\ S[i].alive /\ S[i] \in SlotType /\ i \in Slots /\ i \notin P
  BY <1>1, <1>2 DEF Kept, SlotsFit
<1>4. S[i].client # 0 /\ S[i].client \in 0..Builds /\ i \in 0..Size
  BY <1>1, <1>3 DEF Kept, SlotClients, SlotType, Slots
<1>5. /\ q \in BorrowType /\ q.pc = p /\ q.client = S[i].client /\ q.slot = i /\ q.woken
  BY <1>1, <1>4 DEF BorrowType, BorrowPc
<1>6. /\ D \in [Borrower -> BorrowType] /\ D[c] = q
      /\ \A d \in Borrower : d # c => D[d] = C[d]
  BY <1>1, <1>5
<1>7. Has(D[c])
  BY <1>4, <1>5, <1>6 DEF Has
<1>8. LineFits(D, W, Tail(A))
  <2>1. ToSet(W) = {}
    BY <1>1 DEF ToSet
  <2> QED BY <1>1, <2>1 DEF Kept, LineFits
<1>9. \A d \in Borrower : Has(C[d]) => /\ C[d].slot \in DOMAIN S /\ S[C[d].slot].alive
                                       /\ S[C[d].slot].client = C[d].client
                                       /\ C[d].slot \notin ToSet(A) \cup P
  BY DEF Kept, HoldersFit
<1>10. \A d \in Borrower : Has(C[d]) => C[d].client # S[i].client
  BY <1>2, <1>3, <1>4, <1>9 DEF Kept, SlotClients
<1>11. HoldersFit(S, D, Tail(A), P)
  <2>1. ASSUME NEW d \in Borrower, Has(D[d])
        PROVE  /\ D[d].slot \in DOMAIN S /\ S[D[d].slot].alive /\ S[D[d].slot].client = D[d].client
               /\ D[d].slot \notin ToSet(Tail(A)) \cup P
    <3>1. CASE d = c
      BY <3>1, <1>2, <1>3, <1>5, <1>6
    <3>2. CASE d # c
      BY <3>2, <2>1, <1>2, <1>6, <1>9
    <3> QED BY <3>1, <3>2
  <2>2. ASSUME NEW d \in Borrower, NEW e \in Borrower, Has(D[d]), D[d].client = D[e].client, d # e
        PROVE  FALSE
    <3>1. CASE d = c
      <4>1. D[e] = C[e] /\ Has(C[e])
        BY <1>6, <2>2, <3>1 DEF Has
      <4> QED BY <4>1, <3>1, <1>5, <1>6, <1>10, <2>2
    <3>2. CASE e = c
      BY <3>2, <1>5, <1>6, <1>10, <2>2
    <3>3. CASE d # c /\ e # c
      BY <3>3, <1>6, <2>2 DEF Kept, HoldersFit
    <3> QED BY <3>1, <3>2, <3>3
  <2> QED BY <2>1, <2>2 DEF HoldersFit
<1>12. SlotsFit(S, D, Tail(A), P)
  <2>1. ASSUME NEW j \in DOMAIN S, S[j].alive
        PROVE  j \in ToSet(Tail(A)) \cup P \/ \E d \in Borrower : Has(D[d]) /\ D[d].slot = j
    <3>1. CASE j = i
      BY <3>1, <1>5, <1>6, <1>7
    <3>2. CASE j # i
      <4>1. j \in ToSet(A) \cup P \/ \E d \in Borrower : Has(C[d]) /\ C[d].slot = j
        BY <2>1 DEF Kept, SlotsFit
      <4> QED BY <4>1, <3>2, <1>2, <1>6
    <3> QED BY <3>1, <3>2
  <2> QED BY <1>2, <2>1 DEF Kept, SlotsFit
<1>13. CallersFit(D, W)
  <2>1. CallerFits(q)
    BY <1>4, <1>5 DEF CallerFits, Has
  <2>2. Remembered(D, W)
    BY <1>5, <1>6 DEF Remembered, Kept, CallersFit
  <2> QED BY <1>6, <2>1, <2>2 DEF Kept, CallersFit
<1> QED BY <1>2, <1>6, <1>8, <1>11, <1>12, <1>13 DEF Kept

\* A caller joins the queue when nothing is idle.
LEMMA JoinsLine ==
  ASSUME NEW S, NEW C, NEW W, NEW A, NEW P, Kept(S, C, W, A, P), RedisPoolAssumption,
         NEW c \in Borrower,
         C[c].pc = "entering", ~C[c].woken, A = <<>>, Len(W) < MaxWaiters,
         NEW q, q = [C[c] EXCEPT !.pc = "waiting"],
         NEW D, D = [C EXCEPT ![c] = q]
  PROVE  Kept(S, D, Append(W, c), A, P)
<1>1. W \in Seq(Borrower) /\ Distinct(W) /\ C \in [Borrower -> BorrowType]
  BY DEF Kept, LineFits
<1>2. c \notin ToSet(W)
  BY DEF Kept, LineFits
<1>3. /\ Append(W, c) \in Seq(Borrower) /\ Distinct(Append(W, c))
      /\ ToSet(Append(W, c)) = ToSet(W) \cup {c} /\ Len(Append(W, c)) = Len(W) + 1
  BY <1>1, <1>2, AppendToSet, AppendDistinct
<1>4. /\ q \in BorrowType /\ q.pc = "waiting" /\ q.client = C[c].client /\ q.slot = C[c].slot
      /\ q.woken = C[c].woken
  BY <1>1 DEF BorrowType, BorrowPc
<1>5. /\ D \in [Borrower -> BorrowType] /\ D[c] = q
      /\ \A d \in Borrower : d # c => D[d] = C[d]
  BY <1>1, <1>4
<1>6. ~Has(C[c])
  BY DEF Kept, CallersFit, CallerFits
<1>7. Len(W) + 1 <= MaxWaiters
  BY <1>1 DEF RedisPoolAssumption
<1>8. \A d \in ToSet(W) : d \in Borrower
  BY <1>1 DEF ToSet
<1>9. \A d \in Borrower : D[d].client = C[d].client /\ D[d].slot = C[d].slot
  BY <1>4, <1>5
<1>10. LineFits(D, Append(W, c), A)
  BY <1>2, <1>3, <1>4, <1>5, <1>6, <1>7, <1>8 DEF Kept, LineFits, Has
<1>11. HoldersFit(S, D, A, P)
  BY <1>9 DEF Kept, HoldersFit, Has
<1>12. SlotsFit(S, D, A, P)
  BY <1>9 DEF Kept, SlotsFit, Has
<1>13. CallersFit(D, Append(W, c))
  <2>1. CallerFits(q)
    BY <1>4, <1>6 DEF CallerFits, Has
  <2>2. Remembered(D, Append(W, c))
    BY <1>3, <1>5 DEF Remembered, Kept, CallersFit
  <2> QED BY <1>5, <2>1, <2>2 DEF Kept, CallersFit
<1> QED BY <1>3, <1>5, <1>10, <1>11, <1>12, <1>13 DEF Kept

-----------------------------------------------------------------------------
(***************************************************************************)
(* One step of a caller.                                                   *)
(***************************************************************************)

LEMMA MadeClients ==
  ASSUME BorrowState
  PROVE  /\ build.made \in Seq(Clients) /\ build.targets \in Seq(Slots)
         /\ ToSet(build.made) \subseteq Clients /\ ToSet(build.targets) \subseteq Slots
<1>1. build.made \in Seq(Clients) /\ build.targets \in Seq(Slots)
  BY DEF BorrowState, BuildType
<1> QED BY <1>1 DEF ToSet

\* What does not change the slots, the clients or a build.
LEMMA BorrowStep ==
  ASSUME BorrowInv,
         UNCHANGED <<borrowClosed, ready, connecting, slots, client, build, sealing>>,
         NEW C, NEW W, NEW A, caller' = C, borrowWaiters' = W, available' = A,
         C \in [Borrower -> BorrowType], W \in Seq(Borrower), A \in Seq(Slots),
         CallersFit(C, W),
         borrowClosed => /\ W = <<>> /\ A = <<>>
                         /\ \A c \in Borrower : C[c].client \in {0, caller[c].client},
         ~borrowClosed => Kept(slots, C, W, A, {})
  PROVE  BorrowInv'
<1>1. BorrowState'
  BY DEF BorrowInv, BorrowState
<1>2. CallersFit(caller, borrowWaiters)'
  BY DEF CallersFit, CallerFits, Remembered
<1>3. PoolShape'
  <2>1. ~borrowClosed => Kept(slots, caller, borrowWaiters, available, {})'
    BY <1>2 DEF Kept
  <2>2. /\ ~borrowClosed => sealing = Nothing
        /\ ready => DOMAIN slots = Slots
        /\ borrowClosed => DOMAIN slots = {} /\ ~ready
    BY DEF BorrowInv, PoolShape
  <2> QED BY <2>1, <2>2 DEF PoolShape
<1>4. MadeFits'
  <2>1. \A k \in ToSet(build.made) : k \in Clients /\ \A i \in DOMAIN slots : slots[i].client # k
    BY MadeClients DEF BorrowInv, MadeFits
  <2>2. \A k \in ToSet(build.made), c \in Borrower : C[c].client # k
    <3>1. CASE borrowClosed
      BY <2>1, <3>1 DEF BorrowInv, MadeFits, Clients
    <3>2. CASE ~borrowClosed
      BY <2>1, <3>2 DEF Kept, HoldersFit, Has, Clients
    <3> QED BY <3>1, <3>2
  <2> QED BY <2>2 DEF BorrowInv, MadeFits
<1>5. ClientsFit'
  BY DEF BorrowInv, ClientsFit
<1> QED BY <1>1, <1>2, <1>3, <1>4, <1>5 DEF BorrowInv

\* What every step of a caller starts from.
LEMMA CallerFacts ==
  ASSUME BorrowInv
  PROVE  /\ BorrowState /\ CallersFit(caller, borrowWaiters)
         /\ borrowClosed => DOMAIN slots = {} /\ available = <<>> /\ borrowWaiters = <<>>
         /\ ~borrowClosed => Kept(slots, caller, borrowWaiters, available, {})
         /\ \A i \in DOMAIN slots : slots[i].alive => client[slots[i].client] # "unborn"
<1>1. \A i \in DOMAIN slots : slots[i].alive => client[slots[i].client] # "unborn"
  <2>1. CASE borrowClosed
    BY <2>1 DEF BorrowInv, PoolShape
  <2>2. CASE ~borrowClosed
    BY <2>2 DEF BorrowInv, PoolShape, Kept, SlotClients, ClientsFit
  <2> QED BY <2>1, <2>2
<1> QED BY <1>1 DEF BorrowInv, PoolShape

\* A record changes and keeps what it has, outside the queue or in it.
LEMMA RecordStep ==
  ASSUME BorrowInv, NEW c \in Borrower,
         UNCHANGED <<borrowClosed, ready, connecting, slots, client, build, sealing>>,
         UNCHANGED <<available, borrowWaiters>>,
         NEW q \in BorrowType, q.client = caller[c].client, q.slot = caller[c].slot, CallerFits(q),
         c \in ToSet(borrowWaiters) => q.pc \in {"waiting", "ended"} /\ ~q.woken,
         q.pc = "waiting" /\ ~q.woken => c \in ToSet(borrowWaiters) \cup sealing.callers,
         caller' = [caller EXCEPT ![c] = q]
  PROVE  BorrowInv'
<1>1. PICK C, W, A : C = [caller EXCEPT ![c] = q] /\ W = borrowWaiters /\ A = available
  OBVIOUS
<1>2. /\ BorrowState /\ CallersFit(caller, borrowWaiters)
      /\ borrowClosed => available = <<>> /\ borrowWaiters = <<>>
      /\ ~borrowClosed => Kept(slots, caller, borrowWaiters, available, {})
  BY CallerFacts
<1>3. C \in [Borrower -> BorrowType] /\ W \in Seq(Borrower) /\ A \in Seq(Slots)
  BY <1>1, <1>2 DEF BorrowState
<1>4. CallersFit(C, W)
  BY <1>1, <1>2 DEF CallersFit, Remembered, BorrowState
<1>5. ~borrowClosed => Kept(slots, C, W, A, {})
  BY <1>1, <1>2, SameHolding
<1>6. \A d \in Borrower : C[d].client \in {0, caller[d].client}
  BY <1>1, <1>2 DEF BorrowState
<1> QED BY <1>1, <1>2, <1>3, <1>4, <1>5, <1>6, BorrowStep

LEMMA BorrowKeeps ==
  ASSUME BorrowInv, RedisPoolAssumption, NEW c \in Borrower, AcquireClient(c) PROVE BorrowInv'
<1>1. /\ BorrowState /\ CallersFit(caller, borrowWaiters) /\ ~borrowClosed
      /\ Kept(slots, caller, borrowWaiters, available, {})
      /\ \A i \in DOMAIN slots : slots[i].alive => client[slots[i].client] # "unborn"
  BY CallerFacts DEF AcquireClient
<1>2. /\ caller[c] \in BorrowType /\ caller[c].pc = "out" /\ ready
      /\ ~Has(caller[c]) /\ ~caller[c].woken /\ c \notin ToSet(borrowWaiters)
  <2>1. caller[c] \in BorrowType /\ caller[c].pc = "out" /\ ready
    BY <1>1 DEF BorrowState, AcquireClient
  <2>2. ~Has(caller[c]) /\ ~caller[c].woken
    BY <1>1, <2>1 DEF CallersFit, CallerFits
  <2>3. c \notin ToSet(borrowWaiters)
    BY <1>1, <2>1 DEF Kept, LineFits
  <2> QED BY <2>1, <2>2, <2>3
<1>3. UNCHANGED <<borrowClosed, ready, connecting, slots, borrowWaiters, client, build, sealing>>
  BY DEF AcquireClient, borrowBits
<1>4. CASE available # <<>> /\ Take(c, "holding")
  <2>1. PICK i : i = Head(available)
    OBVIOUS
  <2>2. i \in DOMAIN slots /\ slots[i].alive
    BY <1>1, <1>4, <2>1, TailDistinct DEF Kept, SlotsFit
  <2>3. client[slots[i].client] # "unborn"
    BY <1>1, <2>2
  <2>4. PICK q : q = [caller[c] EXCEPT !.pc = "holding", !.client = slots[i].client, !.slot = i, !.woken = TRUE]
    OBVIOUS
  <2>5. PICK C, A : C = [caller EXCEPT ![c] = q] /\ A = Tail(available)
    OBVIOUS
  <2>6. caller' = C /\ available' = A
    BY <1>1, <1>4, <2>1, <2>4, <2>5 DEF Take, BorrowState
  <2>7. Kept(slots, C, borrowWaiters, A, {})
    BY <1>1, <1>2, <1>4, <2>1, <2>3, <2>4, <2>5, TakesClient
  <2>8. /\ C \in [Borrower -> BorrowType] /\ A \in Seq(Slots) /\ CallersFit(C, borrowWaiters)
        /\ borrowWaiters \in Seq(Borrower)
    BY <2>7 DEF Kept
  <2> QED BY <1>1, <1>3, <2>6, <2>7, <2>8, BorrowStep
<1>5. CASE caller' = [caller EXCEPT ![c].pc = "entering"] /\ UNCHANGED available
  <2>1. PICK q : q = [caller[c] EXCEPT !.pc = "entering"]
    OBVIOUS
  <2>2. /\ q \in BorrowType /\ q.pc = "entering" /\ q.client = caller[c].client
        /\ q.slot = caller[c].slot /\ q.woken = caller[c].woken
    BY <1>2, <2>1 DEF BorrowType, BorrowPc
  <2>3. CallerFits(q)
    BY <1>2, <2>2 DEF CallerFits, Has
  <2>4. caller' = [caller EXCEPT ![c] = q]
    BY <1>1, <1>5, <2>1 DEF BorrowState
  <2> QED BY <1>2, <1>3, <1>5, <2>2, <2>3, <2>4, RecordStep
<1> QED BY <1>4, <1>5 DEF AcquireClient, TryTake

LEMMA WaitEndsKeeps ==
  ASSUME BorrowInv, RedisPoolAssumption, NEW c \in Borrower, WaitEnds(c) PROVE BorrowInv'
<1>1. /\ BorrowState /\ CallersFit(caller, borrowWaiters)
  BY CallerFacts
<1>2. PICK q : q = [caller[c] EXCEPT !.pc = "ended"]
  OBVIOUS
<1>3. /\ q \in BorrowType /\ q.pc = "ended" /\ q.client = caller[c].client
      /\ q.slot = caller[c].slot /\ q.woken = caller[c].woken
  <2>1. caller[c] \in BorrowType
    BY <1>1 DEF BorrowState
  <2> QED BY <1>2, <2>1 DEF BorrowType, BorrowPc
<1>4. CallerFits(q)
  BY <1>1, <1>3 DEF CallersFit, CallerFits, Has
<1>5. caller' = [caller EXCEPT ![c] = q] /\ ~caller[c].woken
  BY <1>1, <1>2 DEF WaitEnds, BorrowState
<1>6. UNCHANGED <<borrowClosed, ready, connecting, slots, available, borrowWaiters, client, build, sealing>>
  BY DEF WaitEnds, borrowBits
<1> QED BY <1>3, <1>4, <1>5, <1>6, RecordStep

LEMMA RegisterKeeps ==
  ASSUME BorrowInv, RedisPoolAssumption, NEW c \in Borrower, Register(c) PROVE BorrowInv'
<1>1. /\ BorrowState /\ CallersFit(caller, borrowWaiters)
      /\ borrowClosed => available = <<>> /\ borrowWaiters = <<>>
      /\ ~borrowClosed => Kept(slots, caller, borrowWaiters, available, {})
      /\ \A i \in DOMAIN slots : slots[i].alive => client[slots[i].client] # "unborn"
  BY CallerFacts
<1>2. /\ caller[c] \in BorrowType /\ caller[c].pc = "entering"
      /\ ~Has(caller[c]) /\ (~borrowClosed => ~caller[c].woken /\ ready)
      /\ c \notin ToSet(borrowWaiters)
  <2>1. caller[c] \in BorrowType /\ caller[c].pc = "entering"
    BY <1>1 DEF BorrowState, Register
  <2>2. ~Has(caller[c]) /\ (~borrowClosed => ~caller[c].woken /\ ready)
    BY <1>1, <2>1 DEF CallersFit, CallerFits
  <2>3. CASE borrowClosed
    BY <1>1, <2>1, <2>2, <2>3 DEF ToSet
  <2>4. CASE ~borrowClosed
    BY <1>1, <2>1, <2>2, <2>4 DEF Kept, LineFits
  <2> QED BY <2>1, <2>2, <2>3, <2>4
<1>3. UNCHANGED <<borrowClosed, ready, connecting, slots, client, build, sealing>>
  BY DEF Register, borrowBits
<1>4. ASSUME NEW f \in BOOLEAN, UNCHANGED <<available, borrowWaiters>>,
             caller' = [caller EXCEPT ![c] = [caller[c] EXCEPT !.pc = "waiting", !.woken = TRUE, !.full = f]]
      PROVE  BorrowInv'
  <2>1. PICK q : q = [caller[c] EXCEPT !.pc = "waiting", !.woken = TRUE, !.full = f]
    OBVIOUS
  <2>2. /\ q \in BorrowType /\ q.pc = "waiting" /\ q.client = caller[c].client
        /\ q.slot = caller[c].slot /\ q.woken
    BY <1>2, <2>1 DEF BorrowType, BorrowPc
  <2>3. CallerFits(q)
    BY <1>2, <2>2 DEF CallerFits, Has
  <2> QED BY <1>2, <1>3, <1>4, <2>1, <2>2, <2>3, RecordStep
<1>5. CASE caller' = [caller EXCEPT ![c].pc = "waiting", ![c].woken = TRUE]
           /\ UNCHANGED <<available, borrowWaiters>>
  <2>1. caller[c].full \in BOOLEAN
    BY <1>2 DEF BorrowType
  <2>2. [caller[c] EXCEPT !.pc = "waiting", !.woken = TRUE, !.full = caller[c].full]
          = [caller[c] EXCEPT !.pc = "waiting", !.woken = TRUE]
    BY <1>2 DEF BorrowType
  <2>3. PICK f \in BOOLEAN : f = caller[c].full
    BY <2>1
  <2>4. caller' = [caller EXCEPT ![c] = [caller[c] EXCEPT !.pc = "waiting", !.woken = TRUE]]
    BY <1>1, <1>5 DEF BorrowState
  <2> QED BY <1>4, <1>5, <2>2, <2>3, <2>4
<1>6. CASE caller' = [caller EXCEPT ![c].pc = "waiting", ![c].woken = TRUE, ![c].full = TRUE]
           /\ UNCHANGED <<available, borrowWaiters>>
  <2>1. caller' = [caller EXCEPT ![c] = [caller[c] EXCEPT !.pc = "waiting", !.woken = TRUE, !.full = TRUE]]
    BY <1>1, <1>6 DEF BorrowState
  <2> QED BY <1>4, <1>6, <2>1
<1>7. CASE ~borrowClosed /\ available # <<>> /\ Take(c, "waiting") /\ UNCHANGED borrowWaiters
  <2>1. PICK i : i = Head(available)
    OBVIOUS
  <2>2. i \in DOMAIN slots /\ slots[i].alive
    BY <1>1, <1>7, <2>1, TailDistinct DEF Kept, SlotsFit
  <2>3. client[slots[i].client] # "unborn"
    BY <1>1, <2>2
  <2>4. PICK q : q = [caller[c] EXCEPT !.pc = "waiting", !.client = slots[i].client, !.slot = i, !.woken = TRUE]
    OBVIOUS
  <2>5. PICK C, A : C = [caller EXCEPT ![c] = q] /\ A = Tail(available)
    OBVIOUS
  <2>6. caller' = C /\ available' = A
    BY <1>1, <1>7, <2>1, <2>4, <2>5 DEF Take, BorrowState
  <2>7. Kept(slots, C, borrowWaiters, A, {})
    BY <1>1, <1>2, <1>7, <2>1, <2>3, <2>4, <2>5, TakesClient
  <2>8. /\ C \in [Borrower -> BorrowType] /\ A \in Seq(Slots) /\ CallersFit(C, borrowWaiters)
        /\ borrowWaiters \in Seq(Borrower)
    BY <2>7 DEF Kept
  <2> QED BY <1>1, <1>3, <1>7, <2>6, <2>7, <2>8, BorrowStep
<1>8. CASE /\ ~borrowClosed /\ ~TryTake /\ Admit
           /\ caller' = [caller EXCEPT ![c].pc = "waiting"] /\ borrowWaiters' = Append(borrowWaiters, c)
           /\ UNCHANGED available
  <2>1. available = <<>> /\ Len(borrowWaiters) < MaxWaiters
    BY <1>2, <1>8 DEF TryTake, Admit
  <2>2. PICK q : q = [caller[c] EXCEPT !.pc = "waiting"]
    OBVIOUS
  <2>3. PICK C, W : C = [caller EXCEPT ![c] = q] /\ W = Append(borrowWaiters, c)
    OBVIOUS
  <2>4. caller' = C /\ borrowWaiters' = W
    BY <1>1, <1>8, <2>2, <2>3 DEF BorrowState
  <2>5. Kept(slots, C, W, available, {})
    BY <1>1, <1>2, <1>8, <2>1, <2>2, <2>3, JoinsLine
  <2>6. /\ C \in [Borrower -> BorrowType] /\ W \in Seq(Borrower) /\ CallersFit(C, W)
        /\ available \in Seq(Slots)
    BY <2>5 DEF Kept
  <2> QED BY <1>3, <1>8, <2>4, <2>5, <2>6, BorrowStep
<1> QED BY <1>5, <1>6, <1>7, <1>8 DEF Register, TryTake

\* After Close a caller only leaves.
LEMMA LeavesClosed ==
  ASSUME BorrowInv, RedisPoolAssumption, borrowClosed, NEW c \in Borrower,
         NEW D, D = [caller EXCEPT ![c] = Free]
  PROVE  /\ D \in [Borrower -> BorrowType] /\ CallersFit(D, <<>>)
         /\ \A d \in Borrower : D[d].client \in {0, caller[d].client}
<1>1. /\ caller \in [Borrower -> BorrowType] /\ CallersFit(caller, borrowWaiters)
      /\ borrowWaiters = <<>>
  BY CallerFacts DEF BorrowState
<1>2. Free \in BorrowType /\ CallerFits(Free)
  BY DEF Free, BorrowType, BorrowPc, RedisPoolAssumption, CallerFits, Has
<1>3. /\ D \in [Borrower -> BorrowType] /\ D[c] = Free
      /\ \A d \in Borrower : d # c => D[d] = caller[d]
  BY <1>1, <1>2
<1>4. Remembered(D, <<>>)
  BY <1>1, <1>3 DEF CallersFit, Remembered, Free
<1>5. \A d \in Borrower : D[d].client \in {0, caller[d].client}
  BY <1>3 DEF Free
<1> QED BY <1>1, <1>2, <1>3, <1>4, <1>5 DEF CallersFit

\* A caller gives up what it has, and the client goes on to the next.
LEMMA PassesOn ==
  ASSUME BorrowInv, RedisPoolAssumption, ~borrowClosed, NEW c \in Borrower,
         NEW V, Kept(slots, caller, V, available, {}), c \notin ToSet(V),
         NEW D, D = [caller EXCEPT ![c] = Free],
         NEW r, r = Requeue(D, slots, V, available, caller[c].client, caller[c].slot)
  PROVE  Kept(slots, r.callers, r.waiters, r.available, {})
<1>1. /\ BorrowState /\ CallersFit(caller, borrowWaiters)
      /\ \A i \in DOMAIN slots : slots[i].alive => client[slots[i].client] # "unborn"
  BY CallerFacts
<1>2. CASE Has(caller[c])
  <2>1. PICK i : i = caller[c].slot
    OBVIOUS
  <2>2. i \in DOMAIN slots /\ slots[i].alive /\ slots[i].client = caller[c].client
    BY <1>2, <2>1 DEF Kept, HoldersFit
  <2>3. PICK Q : Q = {i}
    OBVIOUS
  <2>4. Q = IF Has(caller[c]) THEN {} \cup {caller[c].slot} ELSE {}
    BY <1>2, <2>1, <2>3
  <2>5. Kept(slots, D, V, available, Q)
    BY <2>4, LetsGo
  <2>6. r = Requeue(D, slots, V, available, slots[i].client, i)
    BY <2>1, <2>2
  <2>7. i \in Q /\ Q \ {i} = {}
    BY <2>3
  <2>8. client[slots[i].client] # "unborn"
    BY <1>1, <2>2
  <2>9. Kept(slots, r.callers, r.waiters, r.available, Q \ {i})
    BY <2>5, <2>6, <2>7, <2>8, RequeueKeeps
  <2> QED BY <2>7, <2>9
<1>3. CASE ~Has(caller[c])
  <2>1. r = [callers |-> D, waiters |-> V, available |-> available]
    BY <1>3 DEF Requeue, Has
  <2>2. PICK Q : Q = {}
    OBVIOUS
  <2>3. Q = IF Has(caller[c]) THEN {} \cup {caller[c].slot} ELSE {}
    BY <1>3, <2>2
  <2>4. Kept(slots, D, V, available, Q)
    BY <2>3, LetsGo
  <2>5. Kept(slots, D, V, available, {})
    BY <2>2, <2>4
  <2>6. r.callers = D /\ r.waiters = V /\ r.available = available
    BY ONLY <2>1
  <2> QED BY <2>5, <2>6
<1> QED BY <1>2, <1>3

LEMMA SettleKeeps ==
  ASSUME BorrowInv, RedisPoolAssumption, NEW c \in Borrower, Settle(c) PROVE BorrowInv'
<1>1. /\ BorrowState /\ CallersFit(caller, borrowWaiters)
      /\ borrowClosed => available = <<>> /\ borrowWaiters = <<>>
      /\ ~borrowClosed => Kept(slots, caller, borrowWaiters, available, {})
  BY CallerFacts
<1>2. /\ UNCHANGED <<borrowClosed, ready, connecting, slots, client, build, sealing>>
      /\ caller[c].pc # "waiting" \/ caller[c].woken
  BY DEF Settle, borrowBits
<1>3. PICK V : V = Without(borrowWaiters, {c})
  OBVIOUS
<1>4. /\ V \in Seq(Borrower) /\ (borrowClosed => V = <<>>)
  <2>1. V \in Seq(Borrower) /\ Len(V) <= Len(borrowWaiters)
    BY <1>1, <1>3, WithoutProperties DEF BorrowState
  <2>2. borrowWaiters = <<>> => V = <<>>
    BY <2>1
  <2> QED BY <1>1, <2>1, <2>2
<1>5. ~borrowClosed => Kept(slots, caller, V, available, {}) /\ c \notin ToSet(V)
  BY <1>1, <1>2, <1>3, LeavesLine
<1>6. PICK D : D = [caller EXCEPT ![c] = Free]
  OBVIOUS
<1>7. CASE caller[c].pc = "waiting" /\ ~borrowClosed /\ ~caller[c].full /\ caller[c].client # 0
  <2>1. caller' = [caller EXCEPT ![c].pc = "holding"] /\ borrowWaiters' = V /\ UNCHANGED available
    BY <1>3, <1>7 DEF Settle
  <2>2. PICK q : q = [caller[c] EXCEPT !.pc = "holding"]
    OBVIOUS
  <2>3. /\ q \in BorrowType /\ q.pc = "holding" /\ q.client = caller[c].client
        /\ q.slot = caller[c].slot
    <3>1. caller[c] \in BorrowType
      BY <1>1 DEF BorrowState
    <3> QED BY <3>1, <2>2 DEF BorrowType, BorrowPc
  <2>4. CallerFits(q)
    BY <1>1, <1>7, <2>3 DEF CallersFit, CallerFits, Has
  <2>5. PICK C : C = [caller EXCEPT ![c] = q]
    OBVIOUS
  <2>6. caller' = C
    BY <1>1, <2>1, <2>2, <2>5 DEF BorrowState
  <2>7. Kept(slots, C, V, available, {})
    BY <1>5, <1>7, <2>3, <2>4, <2>5, SameHolding
  <2>8. C \in [Borrower -> BorrowType] /\ CallersFit(C, V) /\ available \in Seq(Slots)
    BY <2>7 DEF Kept
  <2> QED BY <1>2, <1>4, <1>7, <2>1, <2>6, <2>7, <2>8, BorrowStep
<1>8. CASE ~(caller[c].pc = "waiting" /\ ~borrowClosed /\ ~caller[c].full /\ caller[c].client # 0)
  <2>1. PICK r : r = Requeue(D, slots, V, available, caller[c].client, caller[c].slot)
    OBVIOUS
  <2>2. caller' = r.callers /\ borrowWaiters' = r.waiters /\ available' = r.available
    BY <1>3, <1>6, <1>8, <2>1 DEF Settle, Apply
  <2>3. CASE borrowClosed
    <3>1. r = [callers |-> D, waiters |-> V, available |-> available]
      BY <2>1, <2>3 DEF Requeue
    <3>2. /\ D \in [Borrower -> BorrowType] /\ CallersFit(D, <<>>)
          /\ \A d \in Borrower : D[d].client \in {0, caller[d].client}
      BY <1>6, <2>3, LeavesClosed
    <3>3. caller' = D /\ borrowWaiters' = <<>> /\ available' = <<>>
      BY <1>1, <1>4, <2>2, <2>3, <3>1
    <3>4. <<>> \in Seq(Borrower) /\ <<>> \in Seq(Slots)
      OBVIOUS
    <3> QED BY <1>2, <2>3, <3>2, <3>3, <3>4, BorrowStep
  <2>4. CASE ~borrowClosed
    <3>1. Kept(slots, r.callers, r.waiters, r.available, {})
      BY <1>5, <1>6, <2>1, <2>4, PassesOn
    <3>2. PICK C, W, A : C = r.callers /\ W = r.waiters /\ A = r.available
      OBVIOUS
    <3>3. /\ C \in [Borrower -> BorrowType] /\ W \in Seq(Borrower) /\ A \in Seq(Slots)
          /\ CallersFit(C, W) /\ Kept(slots, C, W, A, {})
      BY <3>1, <3>2 DEF Kept
    <3> QED BY <1>2, <2>2, <2>4, <3>2, <3>3, BorrowStep
  <2> QED BY <2>3, <2>4
<1> QED BY <1>7, <1>8

LEMMA ReturnKeeps ==
  ASSUME BorrowInv, RedisPoolAssumption, NEW c \in Borrower, Return(c) PROVE BorrowInv'
<1>1. /\ BorrowState /\ CallersFit(caller, borrowWaiters)
      /\ borrowClosed => available = <<>> /\ borrowWaiters = <<>>
      /\ ~borrowClosed => Kept(slots, caller, borrowWaiters, available, {})
  BY CallerFacts
<1>2. /\ UNCHANGED <<borrowClosed, ready, connecting, slots, client, build, sealing>>
      /\ caller[c].pc = "returning"
  BY DEF Return, borrowBits
<1>3. PICK D : D = [caller EXCEPT ![c] = Free]
  OBVIOUS
<1>4. PICK r : r = Requeue(D, slots, borrowWaiters, available, caller[c].client, caller[c].slot)
  OBVIOUS
<1>5. caller' = r.callers /\ borrowWaiters' = r.waiters /\ available' = r.available
  BY <1>3, <1>4 DEF Return, Apply
<1>6. CASE borrowClosed
  <2>1. r = [callers |-> D, waiters |-> <<>>, available |-> <<>>]
    BY <1>1, <1>4, <1>6 DEF Requeue
  <2>2. /\ D \in [Borrower -> BorrowType] /\ CallersFit(D, <<>>)
        /\ \A d \in Borrower : D[d].client \in {0, caller[d].client}
    BY <1>3, <1>6, LeavesClosed
  <2>3. caller' = D /\ borrowWaiters' = <<>> /\ available' = <<>>
    BY <1>5, <2>1
  <2>4. <<>> \in Seq(Borrower) /\ <<>> \in Seq(Slots)
    OBVIOUS
  <2> QED BY <1>2, <1>6, <2>2, <2>3, <2>4, BorrowStep
<1>7. CASE ~borrowClosed
  <2>1. c \notin ToSet(borrowWaiters)
    BY <1>1, <1>2, <1>7 DEF Kept, LineFits
  <2>2. Kept(slots, r.callers, r.waiters, r.available, {})
    BY <1>1, <1>3, <1>4, <1>7, <2>1, PassesOn
  <2>3. PICK C, W, A : C = r.callers /\ W = r.waiters /\ A = r.available
    OBVIOUS
  <2>4. /\ C \in [Borrower -> BorrowType] /\ W \in Seq(Borrower) /\ A \in Seq(Slots)
        /\ CallersFit(C, W) /\ Kept(slots, C, W, A, {})
    BY <2>2, <2>3 DEF Kept
  <2> QED BY <1>2, <1>5, <1>7, <2>3, <2>4, BorrowStep
<1> QED BY <1>6, <1>7

-----------------------------------------------------------------------------
(***************************************************************************)
(* Clients age: they break and are closed, and nothing else.               *)
(***************************************************************************)

Aged ==
  \A k \in Clients : /\ client[k] = "unborn" <=> client'[k] = "unborn"
                     /\ client[k] = "closed" => client'[k] = "closed"

LEMMA AgedCallers ==
  ASSUME BorrowInv, Aged, UNCHANGED <<borrowClosed, sealing>>, borrowClosed \/ (ready => ready'),
         NEW C, C \in [Borrower -> BorrowType], NEW W, CallersFit(C, W)
  PROVE  CallersFit(C, W)'
<1>1. ASSUME NEW c \in Borrower
      PROVE  CallerFits(C[c])'
  <2>1. C[c] \in BorrowType /\ CallerFits(C[c])
    BY <1>1 DEF CallersFit
  <2>2. Has(C[c]) => C[c].client \in Clients
    BY <2>1 DEF BorrowType, Has, Clients
  <2> QED BY <2>1, <2>2 DEF CallerFits, Aged, Has
<1>2. Remembered(C, W)'
  BY DEF CallersFit, Remembered
<1> QED BY <1>1, <1>2 DEF CallersFit

\* The clients' part of the invariant, when only clients age.
LEMMA AgedClients ==
  ASSUME BorrowInv, Aged, UNCHANGED <<slots, sealing, build>>,
         \A k \in Clients : client'[k] \in {"healthy", "broken"} => client[k] \in {"healthy", "broken"}
  PROVE  ClientsFit'
<1>1. PICK n \in 0..Builds : \A k \in Clients : client[k] # "unborn" <=> k <= n
  BY DEF BorrowInv, ClientsFit
<1>2. \A k \in Clients : client'[k] # "unborn" <=> k <= n
  BY <1>1 DEF Aged
<1>3. ASSUME NEW i \in DOMAIN slots, slots[i].client # 0
      PROVE  /\ client'[slots[i].client] # "unborn"
             /\ ~slots[i].alive => client'[slots[i].client] = "closed"
  <2>1. slots[i].client \in Clients
    BY <1>3 DEF BorrowInv, BorrowState, SlotType, Clients
  <2> QED BY <1>3, <2>1 DEF BorrowInv, ClientsFit, Aged
<1>4. \A k \in sealing.clients : client'[k] # "unborn"
  <2>1. sealing.clients \subseteq Clients
    BY DEF BorrowInv, BorrowState, SealType
  <2> QED BY <2>1 DEF BorrowInv, ClientsFit, Aged
<1>5. \A k \in Clients : client'[k] \in {"healthy", "broken"} =>
        \/ k \in ToSet(build.made) \cup sealing.clients
        \/ \E i \in DOMAIN slots : slots[i].client = k
  BY DEF BorrowInv, ClientsFit
<1> QED BY <1>2, <1>3, <1>4, <1>5 DEF ClientsFit

LEMMA CloseAllAges ==
  ASSUME BorrowInv, NEW K, client' = CloseAll(K), \A k \in K \cap Clients : client[k] # "unborn"
  PROVE  /\ client' \in [Clients -> ClientPc] /\ Aged
         /\ \A k \in Clients : client'[k] \in {"healthy", "broken"} => client[k] \in {"healthy", "broken"} /\ k \notin K
         /\ \A k \in Clients : client'[k] = IF k \in K THEN "closed" ELSE client[k]
<1>1. \A k \in Clients : client'[k] = IF k \in K THEN "closed" ELSE client[k]
  BY DEF CloseAll
<1>2. \A k \in Clients : client[k] \in ClientPc
  BY DEF BorrowInv, BorrowState
<1>3. client' \in [Clients -> ClientPc]
  <2>1. client' = [k \in Clients |-> client'[k]]
    BY DEF CloseAll
  <2>2. \A k \in Clients : client'[k] \in ClientPc
    BY <1>1, <1>2 DEF ClientPc
  <2> QED BY <2>1, <2>2
<1>4. Aged
  BY <1>1 DEF Aged
<1> QED BY <1>1, <1>3, <1>4

\* A step in which clients age and one caller changes its place.
LEMMA AgeingStep ==
  ASSUME BorrowInv, Aged, client' \in [Clients -> ClientPc],
         \A k \in Clients : client'[k] \in {"healthy", "broken"} => client[k] \in {"healthy", "broken"},
         \A k \in ToSet(build.made) : client'[k] \in {"healthy", "broken"},
         UNCHANGED <<borrowClosed, ready, connecting, slots, available, borrowWaiters, build, sealing>>,
         NEW C, caller' = C, C \in [Borrower -> BorrowType],
         \A c \in Borrower : C[c].client = caller[c].client /\ C[c].slot = caller[c].slot,
         CallersFit(C, borrowWaiters)',
         \A c \in ToSet(borrowWaiters) : C[c].pc \in {"waiting", "ended"} /\ ~C[c].woken
  PROVE  BorrowInv'
<1>1. BorrowState'
  BY DEF BorrowInv, BorrowState
<1>2. ~borrowClosed => Kept(slots, C, borrowWaiters, available, {})'
  <2>1. ~borrowClosed => Kept(slots, caller, borrowWaiters, available, {})
    BY DEF BorrowInv, PoolShape
  <2>2. ~borrowClosed => /\ LineFits(C, borrowWaiters, available) /\ HoldersFit(slots, C, available, {})
                         /\ SlotsFit(slots, C, available, {})
    BY <2>1, SamePlaces
  <2>3. ~borrowClosed => /\ LineFits(C, borrowWaiters, available)' /\ HoldersFit(slots, C, available, {})'
                         /\ SlotsFit(slots, C, available, {})'
    BY <2>2
  <2>4. ~borrowClosed => /\ SlotClients(slots)' /\ slots' \in [DOMAIN slots' -> SlotType]
                         /\ DOMAIN slots' \subseteq Slots
                         /\ borrowWaiters' \in Seq(Borrower) /\ available' \in Seq(Slots)
    BY <2>1 DEF Kept
  <2> QED BY <2>3, <2>4 DEF Kept
<1>3. PoolShape'
  BY <1>2 DEF BorrowInv, PoolShape
<1>4. MadeFits'
  BY DEF BorrowInv, MadeFits
<1>5. ClientsFit'
  BY AgedClients
<1> QED BY <1>1, <1>3, <1>4, <1>5 DEF BorrowInv

LEMMA BreakKeeps ==
  ASSUME BorrowInv, RedisPoolAssumption, NEW k \in Clients, Break(k) PROVE BorrowInv'
<1>1. /\ client[k] = "healthy" /\ client' = [client EXCEPT ![k] = "broken"]
      /\ UNCHANGED <<borrowClosed, ready, connecting, slots, available, borrowWaiters, caller, build, sealing>>
      /\ client \in [Clients -> ClientPc]
  BY DEF Break, borrowBits, BorrowInv, BorrowState
<1>2. client' \in [Clients -> ClientPc]
  BY <1>1 DEF ClientPc
<1>3. \A l \in Clients : client'[l] = IF l = k THEN "broken" ELSE client[l]
  BY <1>1
<1>4. Aged
  BY <1>1, <1>3 DEF Aged
<1>5. \A l \in Clients : client'[l] \in {"healthy", "broken"} => client[l] \in {"healthy", "broken"}
  BY <1>1, <1>3
<1>6. \A l \in ToSet(build.made) : client'[l] \in {"healthy", "broken"}
  BY <1>3, MadeClients DEF BorrowInv, MadeFits
<1>7. PICK C : C = caller
  OBVIOUS
<1>8. C \in [Borrower -> BorrowType] /\ CallersFit(C, borrowWaiters)
  BY <1>7, CallerFacts DEF BorrowState
<1>9. CallersFit(C, borrowWaiters)'
  BY <1>1, <1>4, <1>8, AgedCallers
<1>10. \A c \in ToSet(borrowWaiters) : C[c].pc \in {"waiting", "ended"} /\ ~C[c].woken
  <2>1. CASE borrowClosed
    BY <2>1, CallerFacts DEF ToSet
  <2>2. CASE ~borrowClosed
    BY <2>2, <1>7, CallerFacts DEF Kept, LineFits
  <2> QED BY <2>1, <2>2
<1> QED BY <1>1, <1>2, <1>4, <1>5, <1>6, <1>7, <1>8, <1>9, <1>10, AgeingStep

LEMMA GiveBackClientKeeps ==
  ASSUME BorrowInv, RedisPoolAssumption, NEW c \in Borrower, GiveBackClient(c) PROVE BorrowInv'
<1>1. /\ BorrowState /\ CallersFit(caller, borrowWaiters)
      /\ borrowClosed => available = <<>> /\ borrowWaiters = <<>>
      /\ ~borrowClosed => Kept(slots, caller, borrowWaiters, available, {})
  BY CallerFacts
<1>2. /\ caller[c].pc = "holding" /\ caller[c] \in BorrowType
      /\ UNCHANGED <<borrowClosed, ready, connecting, slots, available, borrowWaiters, build, sealing>>
  BY <1>1 DEF GiveBackClient, borrowBits, BorrowState
<1>3. /\ CallerFits(caller[c]) /\ Has(caller[c]) /\ client[caller[c].client] # "unborn"
      /\ caller[c].client \in Clients
  BY <1>1, <1>2 DEF CallersFit, CallerFits, BorrowType, Has, Clients
<1>4. c \notin ToSet(borrowWaiters)
  <2>1. CASE borrowClosed
    BY <1>1, <2>1 DEF ToSet
  <2>2. CASE ~borrowClosed
    BY <1>1, <1>2, <2>2 DEF Kept, LineFits
  <2> QED BY <2>1, <2>2
<1>5. CASE client[caller[c].client] = "healthy"
  <2>1. PICK q : q = [caller[c] EXCEPT !.pc = "returning"]
    OBVIOUS
  <2>2. q \in BorrowType /\ q.pc = "returning" /\ q.client = caller[c].client /\ q.slot = caller[c].slot
    BY <1>2, <2>1 DEF BorrowType, BorrowPc
  <2>3. CallerFits(q)
    BY <1>3, <2>2 DEF CallerFits, Has
  <2>4. caller' = [caller EXCEPT ![c] = q] /\ UNCHANGED client
    BY <1>1, <1>5, <2>1 DEF GiveBackClient, BorrowState
  <2> QED BY <1>2, <1>4, <2>2, <2>3, <2>4, RecordStep
<1>6. CASE client[caller[c].client] # "healthy"
  <2>1. PICK q : q = [caller[c] EXCEPT !.pc = "retiring"]
    OBVIOUS
  <2>2. q \in BorrowType /\ q.pc = "retiring" /\ q.client = caller[c].client /\ q.slot = caller[c].slot
    BY <1>2, <2>1 DEF BorrowType, BorrowPc
  <2>3. PICK K : K = {caller[c].client}
    OBVIOUS
  <2>4. client' = CloseAll(K) /\ \A k \in K \cap Clients : client[k] # "unborn"
    BY <1>3, <1>6, <2>3 DEF GiveBackClient
  <2>5. /\ client' \in [Clients -> ClientPc] /\ Aged
        /\ \A k \in Clients : client'[k] \in {"healthy", "broken"} => client[k] \in {"healthy", "broken"}
        /\ \A k \in Clients : client'[k] = IF k \in K THEN "closed" ELSE client[k]
    BY <2>4, CloseAllAges
  <2>6. \A k \in ToSet(build.made) : client'[k] \in {"healthy", "broken"}
    <3>1. \A k \in ToSet(build.made) : /\ k \in Clients /\ client[k] \in {"healthy", "broken"}
                                       /\ caller[c].client # k
      BY MadeClients DEF BorrowInv, MadeFits
    <3> QED BY <3>1, <2>3, <2>5
  <2>7. PICK C : C = [caller EXCEPT ![c] = q]
    OBVIOUS
  <2>8. /\ C \in [Borrower -> BorrowType] /\ C[c] = q
        /\ \A d \in Borrower : d # c => C[d] = caller[d]
    BY <1>1, <2>2, <2>7 DEF BorrowState
  <2>9. caller' = C
    BY <1>1, <1>6, <2>1, <2>7 DEF GiveBackClient, BorrowState
  <2>10. CallersFit(C, borrowWaiters)'
    <3>1. CallersFit(caller, borrowWaiters) /\ caller \in [Borrower -> BorrowType]
      BY <1>1 DEF BorrowState
    <3>2. PICK B : B = caller
      OBVIOUS
    <3>3. CallersFit(B, borrowWaiters)'
      BY <1>2, <2>5, <3>1, <3>2, AgedCallers
    <3>4. CallerFits(q)'
      BY <1>3, <2>2, <2>3, <2>5 DEF CallerFits, Has, Aged
    <3> QED BY <2>2, <2>8, <3>2, <3>3, <3>4 DEF CallersFit, Remembered
  <2>11. \A d \in ToSet(borrowWaiters) : C[d].pc \in {"waiting", "ended"} /\ ~C[d].woken
    <3>1. CASE borrowClosed
      BY <1>1, <3>1 DEF ToSet
    <3>2. CASE ~borrowClosed
      <4>1. \A d \in ToSet(borrowWaiters) : d \in Borrower /\ d # c /\ caller[d].pc \in {"waiting", "ended"} /\ ~caller[d].woken
        BY <1>1, <1>4, <3>2 DEF Kept, LineFits, ToSet
      <4> QED BY <4>1, <2>8
    <3> QED BY <3>1, <3>2
  <2>12. \A d \in Borrower : C[d].client = caller[d].client /\ C[d].slot = caller[d].slot
    BY <2>2, <2>8
  <2> QED BY <1>2, <2>5, <2>6, <2>8, <2>9, <2>10, <2>11, <2>12, AgeingStep
<1> QED BY <1>5, <1>6

\* The client in hand is closed, and its slot is dead.
LEMMA Dies ==
  ASSUME NEW S, NEW C, NEW W, NEW A, NEW s, Kept(S, C, W, A, {s}),
         NEW T, T = [S EXCEPT ![s].alive = FALSE]
  PROVE  Kept(T, C, W, A, {}) /\ DOMAIN T = DOMAIN S
<1>1. S \in [DOMAIN S -> SlotType] /\ s \in DOMAIN S
  BY DEF Kept, SlotsFit
<1>2. /\ DOMAIN T = DOMAIN S /\ T \in [DOMAIN S -> SlotType]
      /\ \A i \in DOMAIN S : T[i].client = S[i].client /\ (i # s => T[i] = S[i])
      /\ ~T[s].alive
  BY <1>1 DEF SlotType
<1>3. HoldersFit(T, C, A, {})
  BY <1>2 DEF Kept, HoldersFit
<1>4. SlotsFit(T, C, A, {})
  <2>1. \A i \in ToSet(A) : T[i].alive /\ i \in DOMAIN T
    BY <1>2 DEF Kept, SlotsFit
  <2>2. \A i \in DOMAIN T : T[i].alive => i \in ToSet(A) \/ \E c \in Borrower : Has(C[c]) /\ C[c].slot = i
    BY <1>2 DEF Kept, SlotsFit
  <2> QED BY <2>1, <2>2 DEF Kept, SlotsFit
<1>5. SlotClients(T)
  <2>1. \A i \in DOMAIN T : T[i].alive => T[i].client # 0
    BY <1>2 DEF Kept, SlotClients
  <2>2. \A i, j \in DOMAIN T : T[i].client = T[j].client /\ T[i].client # 0 => i = j
    BY <1>2 DEF Kept, SlotClients
  <2> QED BY <2>1, <2>2 DEF SlotClients
<1> QED BY <1>2, <1>3, <1>4, <1>5 DEF Kept

LEMMA RetiredKeeps ==
  ASSUME BorrowInv, RedisPoolAssumption, NEW c \in Borrower, Retire(c) PROVE BorrowInv'
<1>1. /\ BorrowState /\ CallersFit(caller, borrowWaiters)
      /\ borrowClosed => DOMAIN slots = {} /\ available = <<>> /\ borrowWaiters = <<>>
      /\ ~borrowClosed => Kept(slots, caller, borrowWaiters, available, {})
  BY CallerFacts
<1>2. /\ caller[c].pc = "retiring" /\ caller[c] \in BorrowType
      /\ UNCHANGED <<borrowClosed, ready, connecting, available, borrowWaiters, client, build, sealing>>
  BY <1>1 DEF Retire, borrowBits, BorrowState
<1>3. Has(caller[c]) /\ client[caller[c].client] = "closed"
  BY <1>1, <1>2 DEF CallersFit, CallerFits
<1>4. PICK C, s : C = [caller EXCEPT ![c] = Free] /\ s = caller[c].slot
  OBVIOUS
<1>5. caller' = C
  BY <1>4 DEF Retire
<1>6. CASE borrowClosed
  <2>1. /\ C \in [Borrower -> BorrowType] /\ CallersFit(C, <<>>)
        /\ \A d \in Borrower : C[d].client \in {0, caller[d].client}
    BY <1>4, <1>6, LeavesClosed
  <2>2. slots' = slots
    BY <1>1, <1>6 DEF Retire, BorrowState
  <2>3. <<>> \in Seq(Borrower) /\ <<>> \in Seq(Slots)
    OBVIOUS
  <2> QED BY <1>1, <1>2, <1>5, <1>6, <2>1, <2>2, <2>3, BorrowStep
<1>7. CASE ~borrowClosed
  <2>1. Kept(slots, caller, borrowWaiters, available, {})
    BY <1>1, <1>7
  <2>2. s \in DOMAIN slots /\ slots[s].alive /\ slots[s].client = caller[c].client
    BY <1>3, <1>4, <2>1 DEF Kept, HoldersFit
  <2>3. PICK T : T = [slots EXCEPT ![s].alive = FALSE]
    OBVIOUS
  <2>4. slots' = T
    <3>1. slots \in [DOMAIN slots -> SlotType]
      BY <2>1 DEF Kept
    <3>2. slots' = [i \in DOMAIN slots |->
                      IF i = s /\ slots[i].client = caller[c].client
                      THEN [slots[i] EXCEPT !.alive = FALSE] ELSE slots[i]]
      BY <1>4 DEF Retire
    <3>3. T = [i \in DOMAIN slots |-> IF i = s THEN [slots[i] EXCEPT !.alive = FALSE] ELSE slots[i]]
      BY <2>2, <2>3, <3>1
    <3> QED BY <2>2, <3>2, <3>3
  <2>5. c \notin ToSet(borrowWaiters)
    BY <1>2, <2>1 DEF Kept, LineFits
  <2>6. PICK Q : Q = {} \cup {s}
    OBVIOUS
  <2>7. Q = IF Has(caller[c]) THEN {} \cup {caller[c].slot} ELSE {}
    BY <1>3, <1>4, <2>6
  <2>8. Kept(slots, C, borrowWaiters, available, Q)
    BY <1>4, <1>7, <2>1, <2>5, <2>7, LetsGo
  <2>9. Q = {s}
    BY <2>6
  <2>10. Kept(T, C, borrowWaiters, available, {}) /\ DOMAIN T = DOMAIN slots
    BY <2>3, <2>8, <2>9, Dies
  <2>11. /\ \A i \in DOMAIN slots : T[i].client = slots[i].client /\ (i # s => T[i] = slots[i])
         /\ ~T[s].alive
    BY <2>2, <2>3, <2>1 DEF Kept, SlotType
  <2>12. BorrowState'
    BY <1>1, <1>2, <1>5, <2>4, <2>10 DEF BorrowState, Kept
  <2>13. CallersFit(caller, borrowWaiters)'
    BY <1>2, <1>5, <2>10 DEF Kept, CallersFit, CallerFits, Remembered
  <2>14. PoolShape'
    <3>1. Kept(slots, caller, borrowWaiters, available, {})'
      BY <1>2, <1>5, <2>4, <2>10, <2>13 DEF Kept
    <3> QED BY <1>2, <1>7, <2>4, <2>10, <3>1 DEF BorrowInv, PoolShape
  <2>15. MadeFits'
    <3>1. \A k \in ToSet(build.made) : k # 0
      BY <1>1, MadeClients DEF Clients
    <3>2. \A d \in Borrower : C[d].client \in {0, caller[d].client}
      BY <1>1, <1>4 DEF BorrowState, Free
    <3>3. \A k \in ToSet(build.made) : \A d \in Borrower : C[d].client # k
      BY <3>1, <3>2 DEF BorrowInv, MadeFits
    <3>4. \A k \in ToSet(build.made) : \A i \in DOMAIN T : T[i].client # k
      BY <2>10, <2>11 DEF BorrowInv, MadeFits
    <3>5. \A i \in ToSet(build.targets) : i \in DOMAIN T /\ ~T[i].alive
      BY <1>7, <2>10, <2>11 DEF BorrowInv, MadeFits
    <3>6. build.pc # "idle" => DOMAIN T = Slots
      BY <1>7, <2>10 DEF BorrowInv, MadeFits
    <3> QED BY <1>2, <1>5, <1>7, <2>4, <3>3, <3>4, <3>5, <3>6 DEF BorrowInv, MadeFits
  <2>16. ClientsFit'
    <3>1. \A i \in DOMAIN T : T[i].client # 0 =>
            /\ client[T[i].client] # "unborn"
            /\ ~T[i].alive => client[T[i].client] = "closed"
      BY <1>3, <2>2, <2>10, <2>11 DEF BorrowInv, ClientsFit
    <3>2. \A k : (\E i \in DOMAIN slots : slots[i].client = k) => \E i \in DOMAIN T : T[i].client = k
      BY <2>10, <2>11
    <3> QED BY <1>2, <2>4, <3>1, <3>2 DEF BorrowInv, ClientsFit
  <2> QED BY <2>12, <2>13, <2>14, <2>15, <2>16 DEF BorrowInv
<1> QED BY <1>6, <1>7

-----------------------------------------------------------------------------
(***************************************************************************)
(* A Connect that builds.                                                  *)
(***************************************************************************)

\* A pool without slots gets dead ones.
LEMMA FreshSlots ==
  ASSUME NEW C, NEW W, NEW A, NEW S, DOMAIN S = {}, Kept(S, C, W, A, {}),
         NEW T, T = [i \in Slots |-> NoClient], RedisPoolAssumption
  PROVE  Kept(T, C, W, A, {})
<1>1. T \in [Slots -> SlotType] /\ DOMAIN T = Slots /\ \A i \in Slots : T[i].client = 0 /\ ~T[i].alive
  BY DEF NoClient, SlotType, RedisPoolAssumption
<1>2. ToSet(A) = {} /\ \A c \in Borrower : ~Has(C[c])
  BY DEF Kept, HoldersFit, SlotsFit
<1>3. HoldersFit(T, C, A, {})
  BY <1>2 DEF HoldersFit
<1>4. SlotsFit(T, C, A, {})
  BY <1>1, <1>2 DEF Kept, SlotsFit
<1>5. SlotClients(T)
  BY <1>1 DEF SlotClients
<1> QED BY <1>1, <1>3, <1>4, <1>5 DEF Kept

LEMMA ConnectStartKeeps ==
  ASSUME BorrowInv, RedisPoolAssumption, ConnectStart PROVE BorrowInv'
<1>1. /\ BorrowState /\ CallersFit(caller, borrowWaiters) /\ ~borrowClosed
      /\ Kept(slots, caller, borrowWaiters, available, {})
  BY CallerFacts DEF ConnectStart
<1>2. /\ build.pc = "idle" /\ build' = [build EXCEPT !.pc = "started"] /\ connecting' = TRUE
      /\ slots' = IF slots = <<>> THEN [i \in Slots |-> NoClient] ELSE slots
      /\ UNCHANGED <<borrowClosed, ready, available, borrowWaiters, caller, client, sealing>>
  BY DEF ConnectStart
<1>3. build' \in BuildType /\ build'.pc = "started" /\ build'.made = build.made /\ build'.targets = build.targets
  BY <1>1, <1>2 DEF BorrowState, BuildType
<1>4. build.made = <<>> /\ build.targets = <<>>
  BY <1>2 DEF BorrowInv, MadeFits
<1>5. PICK T : T = [i \in Slots |-> NoClient]
  OBVIOUS
<1>6. /\ slots' \in [Slots -> SlotType] /\ DOMAIN slots' = Slots
      /\ \A i \in Slots : slots'[i].client # 0 => i \in DOMAIN slots /\ slots'[i] = slots[i]
      /\ \A i \in DOMAIN slots : slots[i] = slots'[i]
      /\ Kept(slots', caller, borrowWaiters, available, {})
  <2>1. CASE slots = <<>>
    <3>1. DOMAIN slots = {}
      BY <2>1
    <3>2. Kept(T, caller, borrowWaiters, available, {})
      BY <1>1, <1>5, <3>1, FreshSlots
    <3>3. slots' = T /\ T \in [Slots -> SlotType] /\ \A i \in Slots : T[i].client = 0
      BY <1>2, <1>5, <2>1 DEF NoClient, SlotType, RedisPoolAssumption
    <3>4. DOMAIN slots' = Slots
      BY <3>3
    <3> QED BY <3>1, <3>2, <3>3, <3>4
  <2>2. CASE slots # <<>>
    <3>1. DOMAIN slots = Slots
      BY <1>1, <2>2 DEF BorrowState
    <3> QED BY <1>1, <1>2, <2>2, <3>1 DEF BorrowState
  <2> QED BY <2>1, <2>2
<1>7. BorrowState'
  BY <1>1, <1>2, <1>3, <1>6 DEF BorrowState
<1>8. CallersFit(caller, borrowWaiters)'
  BY <1>1, <1>2 DEF CallersFit, CallerFits, Remembered
<1>9. PoolShape'
  <2>1. Kept(slots, caller, borrowWaiters, available, {})'
    BY <1>2, <1>6, <1>8 DEF Kept
  <2> QED BY <1>1, <1>2, <1>6, <2>1 DEF BorrowInv, PoolShape
<1>10. MadeFits'
  <2>1. ToSet(build'.made) = {} /\ ToSet(build'.targets) = {} /\ build'.made = <<>> /\ build'.targets = <<>>
    BY <1>3, <1>4 DEF ToSet
  <2>2. Distinct(<<>>) /\ Len(<<>>) <= Len(<<>>)
    BY DEF Distinct
  <2> QED BY <1>3, <1>6, <2>1, <2>2 DEF MadeFits
<1>11. ClientsFit'
  <2>1. \A i \in DOMAIN slots' : slots'[i].client # 0 =>
          /\ client[slots'[i].client] # "unborn"
          /\ ~slots'[i].alive => client[slots'[i].client] = "closed"
    BY <1>6 DEF BorrowInv, ClientsFit
  <2>2. \A k : (\E i \in DOMAIN slots : slots[i].client = k) => \E i \in DOMAIN slots' : slots'[i].client = k
    <3>1. DOMAIN slots \subseteq Slots
      BY <1>1 DEF BorrowState
    <3> QED BY <1>6, <3>1
  <2> QED BY <1>2, <1>3, <2>1, <2>2 DEF BorrowInv, ClientsFit
<1> QED BY <1>7, <1>8, <1>9, <1>10, <1>11 DEF BorrowInv

\* A step of the building Connect that leaves the pool alone.
LEMMA BuildStep ==
  ASSUME BorrowInv, Aged, client' \in [Clients -> ClientPc],
         \A k \in Clients : client'[k] \in {"healthy", "broken"} =>
             client[k] \in {"healthy", "broken"} /\ (k \in ToSet(build.made) => k \in ToSet(build'.made)),
         UNCHANGED <<borrowClosed, ready, slots, available, borrowWaiters, caller, sealing>>,
         connecting' \in BOOLEAN, build' \in BuildType, MadeFits'
  PROVE  BorrowInv'
<1>1. /\ BorrowState /\ CallersFit(caller, borrowWaiters)
      /\ ~borrowClosed => Kept(slots, caller, borrowWaiters, available, {})
  BY CallerFacts
<1>2. BorrowState'
  BY <1>1 DEF BorrowState
<1>3. CallersFit(caller, borrowWaiters)'
  <2>1. PICK C : C = caller
    OBVIOUS
  <2>2. C \in [Borrower -> BorrowType] /\ CallersFit(C, borrowWaiters)
    BY <1>1, <2>1 DEF BorrowState
  <2>3. CallersFit(C, borrowWaiters)'
    BY <2>2, AgedCallers
  <2> QED BY <2>1, <2>3
<1>4. PoolShape'
  <2>1. ~borrowClosed => Kept(slots, caller, borrowWaiters, available, {})'
    BY <1>1, <1>3 DEF Kept
  <2> QED BY <2>1 DEF BorrowInv, PoolShape
<1>5. ClientsFit'
  <2>1. PICK n \in 0..Builds : \A k \in Clients : client[k] # "unborn" <=> k <= n
    BY DEF BorrowInv, ClientsFit
  <2>2. \A k \in Clients : client'[k] # "unborn" <=> k <= n
    BY <2>1 DEF Aged
  <2>3. ASSUME NEW i \in DOMAIN slots, slots[i].client # 0
        PROVE  /\ client'[slots[i].client] # "unborn"
               /\ ~slots[i].alive => client'[slots[i].client] = "closed"
    <3>1. slots[i].client \in Clients
      BY <2>3 DEF BorrowInv, BorrowState, SlotType, Clients
    <3> QED BY <2>3, <3>1 DEF BorrowInv, ClientsFit, Aged
  <2>4. \A k \in sealing.clients : client'[k] # "unborn"
    <3>1. sealing.clients \subseteq Clients
      BY DEF BorrowInv, BorrowState, SealType
    <3> QED BY <3>1 DEF BorrowInv, ClientsFit, Aged
  <2>5. \A k \in Clients : client'[k] \in {"healthy", "broken"} =>
          \/ k \in ToSet(build'.made) \cup sealing.clients
          \/ \E i \in DOMAIN slots : slots[i].client = k
    BY DEF BorrowInv, ClientsFit
  <2> QED BY <2>2, <2>3, <2>4, <2>5 DEF ClientsFit
<1> QED BY <1>2, <1>3, <1>4, <1>5 DEF BorrowInv

LEMMA NoneAged ==
  ASSUME BorrowInv, UNCHANGED client
  PROVE  client' \in [Clients -> ClientPc] /\ Aged
BY DEF BorrowInv, BorrowState, Aged

LEMMA BuildOverKeeps ==
  ASSUME BorrowInv, RedisPoolAssumption, BuildOver PROVE BorrowInv'
<1>1. /\ build.pc = "over" /\ connecting' = FALSE /\ build' = NoBuild
      /\ UNCHANGED <<borrowClosed, ready, slots, available, borrowWaiters, caller, client, sealing>>
  BY DEF BuildOver
<1>2. build.made = <<>> /\ ToSet(build.made) = {}
  BY <1>1 DEF BorrowInv, MadeFits, ToSet
<1>3. build' \in BuildType /\ build'.made = <<>> /\ build'.targets = <<>> /\ build'.pc = "idle"
  BY <1>1 DEF NoBuild, BuildType
<1>4. ToSet(<<>>) = {} /\ Distinct(<<>>) /\ Len(<<>>) <= Len(<<>>)
  BY DEF ToSet, Distinct
<1>5. MadeFits'
  BY <1>3, <1>4 DEF MadeFits
<1> QED BY <1>1, <1>2, <1>3, <1>5, NoneAged, BuildStep

\* The clients built so far are closed.
LEMMA BuildGivesUp ==
  ASSUME BorrowInv, RedisPoolAssumption, build.pc = "building",
         client' = CloseAll(ToSet(build.made)),
         build' = [build EXCEPT !.pc = "over", !.made = <<>>],
         UNCHANGED <<borrowClosed, ready, connecting, slots, available, borrowWaiters, caller, sealing>>
  PROVE  BorrowInv'
<1>1. BorrowState /\ build \in BuildType /\ MadeFits
  BY DEF BorrowInv, BorrowState
<1>2. PICK K : K = ToSet(build.made)
  OBVIOUS
<1>3. \A k \in K \cap Clients : client[k] # "unborn"
  BY <1>1, <1>2 DEF MadeFits
<1>4. /\ client' \in [Clients -> ClientPc] /\ Aged
      /\ \A k \in Clients : client'[k] \in {"healthy", "broken"} => client[k] \in {"healthy", "broken"} /\ k \notin K
  BY <1>2, <1>3, CloseAllAges
<1>5. /\ build' \in BuildType /\ build'.pc = "over" /\ build'.made = <<>> /\ build'.targets = build.targets
  <2>1. build' = [pc |-> "over", targets |-> build.targets, made |-> <<>>]
    BY <1>1 DEF BuildType
  <2>2. <<>> \in Seq(Clients) /\ build.targets \in Seq(Slots)
    BY <1>1, MadeClients
  <2> QED BY <2>1, <2>2 DEF BuildType
<1>6. ToSet(<<>>) = {} /\ Distinct(<<>>) /\ Len(<<>>) = 0 /\ Len(build.targets) \in Nat
  BY <1>1, MadeClients DEF ToSet, Distinct
<1>7. MadeFits'
  <2>1. Len(build'.made) <= Len(build'.targets)
    BY <1>5, <1>6
  <2> QED BY <1>1, <1>5, <1>6, <2>1 DEF MadeFits
<1>8. connecting' \in BOOLEAN
  BY <1>1 DEF BorrowState
<1> QED BY <1>2, <1>4, <1>5, <1>7, <1>8, BuildStep

LEMMA TargetsKeeps ==
  ASSUME BorrowInv, RedisPoolAssumption, Targets PROVE BorrowInv'
<1>1. BorrowState /\ build \in BuildType /\ MadeFits /\ DOMAIN slots \subseteq Slots
  BY DEF BorrowInv, BorrowState
<1>2. PICK order \in [1..Cardinality(Dead) -> Dead] :
        /\ ToSet(order) = Dead /\ \A j, l \in DOMAIN order : j < l => order[j] < order[l]
        /\ build' = [build EXCEPT !.pc = "building", !.targets = order]
  BY DEF Targets
<1>3. /\ UNCHANGED <<borrowClosed, ready, connecting, slots, available, borrowWaiters, caller, client, sealing>>
      /\ build.pc = "started"
  BY DEF Targets, borrowBits
<1>4. Dead \subseteq Slots /\ Slots \subseteq Nat
  BY <1>1 DEF Dead, Slots
<1>5. Cardinality(Dead) \in Nat
  <2>1. IsFiniteSet(Slots)
    BY FS_Interval DEF Slots, RedisPoolAssumption
  <2> QED BY <2>1, <1>4, FS_Subset, FS_CardinalityType
<1>6. order \in Seq(Slots) /\ Len(order) = Cardinality(Dead) /\ DOMAIN order = 1..Cardinality(Dead)
  BY <1>2, <1>4, <1>5
<1>7. Distinct(order)
  <2>1. ASSUME NEW j \in 1..Len(order), NEW l \in 1..Len(order), order[j] = order[l], j # l
        PROVE  FALSE
    <3>1. j < l \/ l < j
      BY <1>5, <1>6, <2>1
    <3>2. order[j] \in Nat
      BY <1>4, <1>6, <2>1
    <3> QED BY <1>2, <1>6, <2>1, <3>1, <3>2
  <2> QED BY <2>1 DEF Distinct
<1>8. build.made = <<>>
  BY <1>1, <1>3 DEF MadeFits
<1>9. /\ build' \in BuildType /\ build'.pc = "building" /\ build'.made = <<>> /\ build'.targets = order
  <2>1. build' = [pc |-> "building", targets |-> order, made |-> <<>>]
    BY <1>1, <1>2, <1>8 DEF BuildType
  <2>2. <<>> \in Seq(Clients)
    OBVIOUS
  <2> QED BY <1>6, <2>1, <2>2 DEF BuildType
<1>10. ToSet(<<>>) = {} /\ Distinct(<<>>) /\ Len(<<>>) = 0
  BY DEF ToSet, Distinct
<1>11. MadeFits'
  <2>1. Len(build'.made) <= Len(build'.targets)
    BY <1>5, <1>6, <1>9, <1>10
  <2>2. \A i \in ToSet(order) : i \in DOMAIN slots /\ ~slots[i].alive
    BY <1>2 DEF Dead
  <2>3. ~borrowClosed => DOMAIN slots = Slots
    BY <1>1, <1>3 DEF MadeFits
  <2> QED BY <1>3, <1>7, <1>9, <1>10, <2>1, <2>2, <2>3 DEF MadeFits
<1>12. connecting' \in BOOLEAN
  BY <1>1, <1>3 DEF BorrowState
<1>13. ToSet(build.made) = {}
  BY <1>8, <1>10
<1> QED BY <1>3, <1>9, <1>11, <1>12, <1>13, NoneAged, BuildStep

\* The next client's number is the first one nobody has.
LEMMA NextClient ==
  ASSUME BorrowInv, RedisPoolAssumption, Born < Builds
  PROVE  /\ Born + 1 \in Clients /\ Born \in Nat
         /\ \A k \in Clients : client[k] # "unborn" <=> k <= Born
<1>1. PICK n \in 0..Builds : \A k \in Clients : client[k] # "unborn" <=> k <= n
  BY DEF BorrowInv, ClientsFit
<1>2. n \in Nat /\ Builds \in Nat /\ n <= Builds
  BY <1>1 DEF RedisPoolAssumption
<1>3. {k \in Clients : client[k] # "unborn"} = 1..n
  BY <1>1, <1>2 DEF Clients
<1>4. Cardinality(1..n) = n
  BY <1>2, FS_Interval
<1>5. Born = n
  BY <1>3, <1>4 DEF Born
<1> QED BY <1>1, <1>2, <1>5 DEF Clients

\* A client is built.
LEMMA BuildMakes ==
  ASSUME BorrowInv, RedisPoolAssumption, build.pc = "building", Len(build.made) < Len(build.targets),
         Born < Builds, NEW b, b = Born + 1,
         client' = [client EXCEPT ![b] = "healthy"],
         build' = [build EXCEPT !.made = Append(@, b)],
         UNCHANGED <<borrowClosed, ready, connecting, slots, available, borrowWaiters, caller, sealing>>
  PROVE  BorrowInv'
<1>1. /\ BorrowState /\ CallersFit(caller, borrowWaiters) /\ MadeFits /\ ClientsFit
      /\ ~borrowClosed => Kept(slots, caller, borrowWaiters, available, {})
  BY CallerFacts DEF BorrowInv
<1>2. /\ build \in BuildType /\ build.made \in Seq(Clients) /\ build.targets \in Seq(Slots)
      /\ client \in [Clients -> ClientPc] /\ ToSet(build.made) \subseteq Clients
  BY <1>1, MadeClients DEF BorrowState
<1>3. /\ b \in Clients /\ Born \in Nat /\ b # 0
      /\ \A k \in Clients : client[k] # "unborn" <=> k <= Born
  BY NextClient
<1>4. client[b] = "unborn"
  BY <1>2, <1>3 DEF ClientPc
<1>5. /\ client' \in [Clients -> ClientPc] /\ client'[b] = "healthy"
      /\ \A k \in Clients : k # b => client'[k] = client[k]
  BY <1>2, <1>3 DEF ClientPc
<1>6. b \notin ToSet(build.made)
  BY <1>1, <1>4 DEF MadeFits
<1>7. /\ Append(build.made, b) \in Seq(Clients) /\ Distinct(Append(build.made, b))
      /\ Len(Append(build.made, b)) = Len(build.made) + 1
      /\ ToSet(Append(build.made, b)) = ToSet(build.made) \cup {b}
  BY <1>1, <1>2, <1>3, <1>6, AppendToSet, AppendDistinct DEF MadeFits
<1>8. build' = [pc |-> "building", targets |-> build.targets, made |-> Append(build.made, b)]
  BY <1>2 DEF BuildType
<1>9. BorrowState'
  <2>1. build' \in BuildType
    BY <1>2, <1>7, <1>8 DEF BuildType
  <2> QED BY <1>1, <1>5, <2>1 DEF BorrowState
<1>10. \A i \in DOMAIN slots : slots[i].client # b /\ slots[i].client \in Clients \cup {0}
  <2>1. \A i \in DOMAIN slots : slots[i].client \in Clients \cup {0}
    BY <1>1 DEF BorrowState, SlotType, Clients
  <2> QED BY <1>1, <1>3, <1>4, <2>1 DEF ClientsFit
<1>11. \A c \in Borrower : caller[c].client # b
  BY <1>1, <1>3, <1>4 DEF CallersFit, CallerFits, Has
<1>12. b \notin sealing.clients
  BY <1>1, <1>4 DEF ClientsFit
<1>13. CallersFit(caller, borrowWaiters)'
  <2>1. ASSUME NEW c \in Borrower
        PROVE  CallerFits(caller[c])'
    <3>1. CallerFits(caller[c]) /\ caller[c] \in BorrowType
      BY <1>1 DEF CallersFit, BorrowState
    <3>2. Has(caller[c]) => caller[c].client \in Clients
      BY <3>1 DEF BorrowType, Has, Clients
    <3>3. Has(caller[c]) => client'[caller[c].client] = client[caller[c].client]
      BY <1>5, <1>11, <3>2
    <3> QED BY <3>1, <3>3 DEF CallerFits, Has
  <2> QED BY <1>1, <2>1 DEF CallersFit, Remembered
<1>14. PoolShape'
  <2>1. ~borrowClosed => Kept(slots, caller, borrowWaiters, available, {})'
    BY <1>1, <1>13 DEF Kept
  <2> QED BY <2>1 DEF BorrowInv, PoolShape
<1>15. MadeFits'
  <2>1. build'.made = Append(build.made, b) /\ build'.targets = build.targets /\ build'.pc = "building"
    BY <1>8
  <2>2. Len(build'.made) <= Len(build'.targets)
    <3>1. Len(build.made) \in Nat /\ Len(build.targets) \in Nat
      BY <1>2
    <3> QED BY <2>1, <3>1, <1>7
  <2>3. \A k \in ToSet(build'.made) :
          /\ client'[k] \in {"healthy", "broken"} /\ k \notin sealing.clients
          /\ \A i \in DOMAIN slots : slots[i].client # k
          /\ \A c \in Borrower : caller[c].client # k
    <3>1. \A k \in ToSet(build.made) : k \in Clients /\ k # b
      BY <1>2, <1>6
    <3>2. \A k \in ToSet(build.made) :
            /\ client'[k] \in {"healthy", "broken"} /\ k \notin sealing.clients
            /\ \A i \in DOMAIN slots : slots[i].client # k
            /\ \A c \in Borrower : caller[c].client # k
      BY <1>1, <1>5, <3>1 DEF MadeFits
    <3> QED BY <1>5, <1>7, <1>10, <1>11, <1>12, <2>1, <3>2
  <2>4. Distinct(build'.made)
    BY <1>7, <2>1
  <2> QED BY <1>1, <2>1, <2>2, <2>3, <2>4 DEF MadeFits
<1>16. ClientsFit'
  <2>1. b \in 0..Builds /\ \A k \in Clients : client'[k] # "unborn" <=> k <= b
    <3>1. \A k \in Clients : k \in Nat
      BY DEF Clients
    <3>2. b \in 0..Builds
      BY <1>3 DEF Clients
    <3>3. ASSUME NEW k \in Clients
          PROVE  client'[k] # "unborn" <=> k <= b
      <4>1. CASE k = b
        BY <4>1, <1>3, <1>5, <3>1
      <4>2. CASE k # b
        BY <4>2, <1>3, <1>5, <3>1
      <4> QED BY <4>1, <4>2
    <3> QED BY <3>2, <3>3
  <2>2. \A i \in DOMAIN slots : slots[i].client # 0 =>
          /\ client'[slots[i].client] # "unborn"
          /\ ~slots[i].alive => client'[slots[i].client] = "closed"
    BY <1>1, <1>5, <1>10 DEF ClientsFit
  <2>3. \A k \in sealing.clients : client'[k] # "unborn"
    <3>1. sealing.clients \subseteq Clients
      BY <1>1 DEF BorrowState, SealType
    <3> QED BY <3>1, <1>1, <1>5, <1>12 DEF ClientsFit
  <2>4. build'.made = Append(build.made, b)
    BY <1>8
  <2>5. \A k \in Clients : client'[k] \in {"healthy", "broken"} =>
          \/ k \in ToSet(build'.made) \cup sealing.clients
          \/ \E i \in DOMAIN slots : slots[i].client = k
    BY <1>1, <1>5, <1>7, <2>4 DEF ClientsFit
  <2> QED BY <2>1, <2>2, <2>3, <2>5 DEF ClientsFit
<1> QED BY <1>9, <1>13, <1>14, <1>15, <1>16 DEF BorrowInv

LEMMA BuildKeeps ==
  ASSUME BorrowInv, RedisPoolAssumption, Build PROVE BorrowInv'
<1>1. /\ build.pc = "building" /\ Len(build.made) < Len(build.targets)
      /\ UNCHANGED <<borrowClosed, ready, connecting, slots, available, borrowWaiters, caller, sealing>>
  BY DEF Build, borrowBits
<1>2. CASE /\ Born < Builds
           /\ client' = [client EXCEPT ![Born + 1] = "healthy"]
           /\ build' = [build EXCEPT !.made = Append(@, Born + 1)]
  <2>1. PICK b : b = Born + 1
    OBVIOUS
  <2> QED BY <1>1, <1>2, <2>1, BuildMakes
<1>3. CASE /\ client' = CloseAll(ToSet(build.made))
           /\ build' = [build EXCEPT !.pc = "over", !.made = <<>>]
  BY <1>1, <1>3, BuildGivesUp
<1> QED BY <1>2, <1>3 DEF Build

-----------------------------------------------------------------------------
(***************************************************************************)
(* Close.                                                                  *)
(***************************************************************************)

LEMMA ClosePoolKeeps ==
  ASSUME BorrowInv, RedisPoolAssumption, ClosePool PROVE BorrowInv'
<1>1. /\ BorrowState /\ CallersFit(caller, borrowWaiters) /\ MadeFits /\ ClientsFit
      /\ Kept(slots, caller, borrowWaiters, available, {}) /\ sealing = Nothing
  BY CallerFacts DEF BorrowInv, PoolShape, ClosePool
<1>2. /\ ~borrowClosed /\ borrowClosed' = TRUE /\ ready' = FALSE
      /\ borrowWaiters' = <<>> /\ available' = <<>> /\ slots' = <<>>
      /\ UNCHANGED <<connecting, caller, client, build>>
      /\ sealing'.clients = {slots[i].client : i \in DOMAIN slots} \ {0}
      /\ sealing'.callers = ToSet(borrowWaiters)
      /\ sealing' = [clients |-> sealing'.clients, callers |-> sealing'.callers]
  BY DEF ClosePool
<1>3. DOMAIN slots' = {} /\ slots' \in [DOMAIN slots' -> SlotType]
  BY <1>2
<1>4. sealing' \in SealType
  <2>1. \A i \in DOMAIN slots : slots[i].client \in 0..Builds
    BY <1>1 DEF BorrowState, SlotType
  <2>2. sealing'.clients \subseteq Clients
    <3>1. \A k \in 0..Builds : k # 0 => k \in Clients
      BY DEF Clients, RedisPoolAssumption
    <3> QED BY <1>2, <2>1, <3>1
  <2>3. sealing'.callers \subseteq Borrower
    BY <1>1, <1>2 DEF BorrowState, ToSet
  <2> QED BY <1>2, <2>2, <2>3 DEF SealType
<1>5. BorrowState'
  <2>1. <<>> \in Seq(Borrower) /\ <<>> \in Seq(Slots)
    OBVIOUS
  <2> QED BY <1>1, <1>2, <1>3, <1>4, <2>1 DEF BorrowState
<1>6. CallersFit(caller, borrowWaiters)'
  <2>1. \A c \in Borrower : CallerFits(caller[c])'
    BY <1>1, <1>2 DEF CallersFit, CallerFits, Has
  <2>2. Remembered(caller, borrowWaiters)'
    BY <1>1, <1>2 DEF CallersFit, Remembered, Nothing
  <2> QED BY <2>1, <2>2 DEF CallersFit
<1>7. PoolShape'
  BY <1>2, <1>3 DEF PoolShape
<1>8. MadeFits'
  <2>1. \A k \in ToSet(build.made) : k \notin sealing'.clients
    BY <1>1, <1>2 DEF MadeFits
  <2> QED BY <1>1, <1>2, <1>3, <2>1 DEF MadeFits
<1>9. ClientsFit'
  <2>1. \A k \in sealing'.clients : client[k] # "unborn"
    BY <1>1, <1>2 DEF ClientsFit
  <2>2. \A k \in Clients : client[k] \in {"healthy", "broken"} =>
          k \in ToSet(build.made) \cup sealing'.clients
    <3>1. \A k \in Clients : k # 0
      BY DEF Clients
    <3> QED BY <1>1, <1>2, <3>1 DEF ClientsFit, Nothing
  <2>3. \E n \in 0..Builds : \A k \in Clients : client[k] # "unborn" <=> k <= n
    BY <1>1 DEF ClientsFit
  <2> QED BY <1>2, <1>3, <2>1, <2>2, <2>3 DEF ClientsFit
<1> QED BY <1>5, <1>6, <1>7, <1>8, <1>9 DEF BorrowInv

LEMMA CloseOutsideKeeps ==
  ASSUME BorrowInv, RedisPoolAssumption, CloseOutside PROVE BorrowInv'
<1>1. /\ BorrowState /\ CallersFit(caller, borrowWaiters) /\ MadeFits /\ ClientsFit
      /\ borrowClosed /\ DOMAIN slots = {} /\ available = <<>> /\ borrowWaiters = <<>> /\ ~ready
  BY DEF BorrowInv, PoolShape, CloseOutside
<1>2. /\ client' = CloseAll(sealing.clients) /\ sealing' = Nothing
      /\ UNCHANGED <<borrowClosed, ready, connecting, slots, available, borrowWaiters, build>>
  BY DEF CloseOutside, borrowBits
<1>3. /\ caller \in [Borrower -> BorrowType]
      /\ caller' = [c \in Borrower |-> IF c \in sealing.callers THEN [caller[c] EXCEPT !.woken = TRUE] ELSE caller[c]]
  BY <1>1 DEF CloseOutside, BorrowState
<1>4. /\ caller' \in [Borrower -> BorrowType]
      /\ \A c \in Borrower : /\ caller'[c].pc = caller[c].pc /\ caller'[c].client = caller[c].client
                             /\ caller'[c].woken = (caller[c].woken \/ c \in sealing.callers)
  <2>1. \A c \in Borrower : caller[c].woken \in BOOLEAN /\ caller[c] \in BorrowType
    BY <1>3 DEF BorrowType
  <2>2. ASSUME NEW c \in Borrower
        PROVE  /\ caller'[c] \in BorrowType /\ caller'[c].pc = caller[c].pc /\ caller'[c].client = caller[c].client
               /\ caller'[c].woken = (caller[c].woken \/ c \in sealing.callers)
    <3>1. CASE c \in sealing.callers
      <4>1. caller'[c] = [caller[c] EXCEPT !.woken = TRUE]
        BY <1>3, <3>1
      <4> QED BY <4>1, <2>1, <3>1 DEF BorrowType
    <3>2. CASE c \notin sealing.callers
      <4>1. caller'[c] = caller[c]
        BY <1>3, <3>2
      <4> QED BY <4>1, <2>1, <3>2
    <3> QED BY <3>1, <3>2
  <2> QED BY <1>3, <2>2
<1>5. PICK K : K = sealing.clients
  OBVIOUS
<1>6. /\ client' \in [Clients -> ClientPc] /\ Aged
      /\ \A k \in Clients : client'[k] \in {"healthy", "broken"} => client[k] \in {"healthy", "broken"} /\ k \notin K
      /\ \A k \in Clients : client'[k] = IF k \in K THEN "closed" ELSE client[k]
  <2>1. client' = CloseAll(K) /\ \A k \in K \cap Clients : client[k] # "unborn"
    BY <1>1, <1>2, <1>5 DEF ClientsFit
  <2> QED BY <2>1, CloseAllAges
<1>7. sealing' \in SealType /\ sealing'.clients = {} /\ sealing'.callers = {}
  BY <1>2 DEF Nothing, SealType
<1>8. BorrowState'
  BY <1>1, <1>2, <1>4, <1>6, <1>7 DEF BorrowState
<1>9. CallersFit(caller, borrowWaiters)'
  <2>1. ASSUME NEW c \in Borrower
        PROVE  CallerFits(caller[c])'
    <3>1. CallerFits(caller[c]) /\ caller[c] \in BorrowType
      BY <1>1, <1>3 DEF CallersFit
    <3>2. Has(caller[c]) => caller[c].client \in Clients
      BY <3>1 DEF BorrowType, Has, Clients
    <3>3. /\ Has(caller[c]) /\ client[caller[c].client] = "closed" => client'[caller[c].client] = "closed"
          /\ Has(caller[c]) /\ client[caller[c].client] # "unborn" => client'[caller[c].client] # "unborn"
      BY <1>6, <3>2 DEF Aged
    <3> QED BY <1>1, <1>2, <1>4, <3>1, <3>3 DEF CallerFits, Has
  <2>2. Remembered(caller, borrowWaiters)'
    <3>1. \A c \in Borrower : caller[c].pc = "waiting" /\ ~caller[c].woken => c \in sealing.callers
      BY <1>1 DEF CallersFit, Remembered, ToSet
    <3> QED BY <1>4, <3>1 DEF Remembered
  <2> QED BY <2>1, <2>2 DEF CallersFit
<1>10. PoolShape'
  BY <1>1, <1>2 DEF PoolShape
<1>11. MadeFits'
  <2>1. \A k \in ToSet(build.made) :
          /\ client'[k] \in {"healthy", "broken"} /\ k \notin sealing'.clients
          /\ \A c \in Borrower : caller'[c].client # k
    <3>1. \A k \in ToSet(build.made) : k \in Clients
      BY <1>1, MadeClients
    <3> QED BY <1>1, <1>4, <1>5, <1>6, <1>7, <3>1 DEF MadeFits
  <2> QED BY <1>1, <1>2, <2>1 DEF MadeFits
<1>12. ClientsFit'
  <2>1. PICK n \in 0..Builds : \A k \in Clients : client[k] # "unborn" <=> k <= n
    BY <1>1 DEF ClientsFit
  <2>2. \A k \in Clients : client'[k] # "unborn" <=> k <= n
    BY <2>1, <1>6 DEF Aged
  <2>3. \A k \in Clients : client'[k] \in {"healthy", "broken"} => k \in ToSet(build.made)
    BY <1>1, <1>5, <1>6 DEF ClientsFit
  <2> QED BY <1>1, <1>2, <1>7, <2>2, <2>3 DEF ClientsFit
<1> QED BY <1>8, <1>9, <1>10, <1>11, <1>12 DEF BorrowInv

-----------------------------------------------------------------------------
(***************************************************************************)
(* The clients that were built are published.                              *)
(***************************************************************************)

\* The client of the j-th target is offered.
Turn(S, r, j) ==
  Requeue(r.callers, S, r.waiters, r.available, build.made[j], build.targets[j])

Rest == [callers |-> caller, waiters |-> borrowWaiters, available |-> available]

Turns(S, f, n) == [j \in 0..n |-> IF j = 0 THEN Rest ELSE Turn(S, f[j - 1], j)]

\* The recursion defines a function.
LEMMA OfferedDefined ==
  ASSUME NEW n \in Nat, NEW S
  PROVE  \E f : f = Turns(S, f, n)
<1> DEFINE T == { m \in 0 .. n : \E f : f = Turns(S, f, m) }
<1>1. 0 \in T
  <2>1. [j \in 0 .. 0 |-> Rest] = Turns(S, [j \in 0 .. 0 |-> Rest], 0)
    BY DEF Turns
  <2> QED BY <2>1
<1>2. ASSUME NEW m \in 0 .. n, m < n, m \in T PROVE m + 1 \in T
  <2>1. PICK f : f = Turns(S, f, m)
    BY <1>2
  <2> DEFINE g == [j \in 0 .. m + 1 |-> IF j <= m THEN f[j] ELSE Turn(S, f[m], j)]
  <2>2. \A j \in 0 .. m : f[j] = IF j = 0 THEN Rest ELSE Turn(S, f[j - 1], j)
    BY <2>1 DEF Turns
  <2>3. \A j \in 0 .. m : g[j] = f[j]
    OBVIOUS
  <2>4. g[m + 1] = Turn(S, f[m], m + 1)
    OBVIOUS
  <2> DEFINE h == Turns(S, g, m + 1)
  <2>5. h = [j \in 0 .. m + 1 |-> IF j = 0 THEN Rest ELSE Turn(S, g[j - 1], j)]
    BY DEF Turns
  <2>6. ASSUME NEW j \in 0 .. m + 1 PROVE g[j] = h[j]
    <3> HIDE DEF g, h
    <3>1. CASE j = m + 1
      <4>1. h[j] = Turn(S, g[j - 1], j)
        BY <2>5, <3>1
      <4> QED BY <4>1, <3>1, <2>3, <2>4
    <3>2. CASE j = 0
      BY <2>5, <2>3, <2>2, <3>2
    <3>3. CASE j \in 1 .. m
      <4>1. h[j] = Turn(S, g[j - 1], j)
        BY <2>5, <3>3
      <4>2. g[j] = f[j] /\ g[j - 1] = f[j - 1]
        BY <2>3, <3>3
      <4>3. f[j] = Turn(S, f[j - 1], j)
        BY <2>2, <3>3
      <4> QED BY <4>1, <4>2, <4>3
    <3> QED BY <3>1, <3>2, <3>3
  <2>7. g = h
    <3>1. g = [j \in 0 .. m + 1 |-> g[j]] /\ h = [j \in 0 .. m + 1 |-> h[j]]
      BY <2>5
    <3> HIDE DEF g, h
    <3> QED BY <2>6, <3>1, Zenon
  <2>8. m + 1 \in 0 .. n
    BY <1>2
  <2> HIDE DEF g
  <2> QED BY <2>7, <2>8
<1>3. 0 .. n \subseteq T
  <2> HIDE DEF T
  <2> QED BY <1>1, <1>2, NatSetInduction
<1> QED BY <1>3

LEMMA OfferedSteps ==
  ASSUME NEW n \in Nat, NEW S
  PROVE  \E f : /\ Offered(S, n) = f[n]
                /\ f[0] = Rest
                /\ \A j \in 1 .. n : f[j] = Turn(S, f[j - 1], j)
<1> DEFINE f == CHOOSE f : f = Turns(S, f, n)
<1>1. Offered(S, n) = f[n]
  BY Zenon DEF Offered, Turns, Turn, Rest
<1>2. f = Turns(S, f, n)
  BY OfferedDefined, Zenon
<1> HIDE DEF f
<1>3. \A j \in 0 .. n : f[j] = IF j = 0 THEN Rest ELSE Turn(S, f[j - 1], j)
  BY <1>2, Zenon DEF Turns
<1>4. 0 \in 0 .. n /\ \A j \in 1 .. n : j \in 0 .. n /\ j # 0
  OBVIOUS
<1>5. f[0] = Rest /\ \A j \in 1 .. n : f[j] = Turn(S, f[j - 1], j)
  BY <1>3, <1>4, Zenon
<1> QED BY <1>1, <1>5

\* The slots once the clients are in them.
LEMMA FilledFacts ==
  ASSUME BorrowInv, RedisPoolAssumption, build.pc = "building", ~borrowClosed,
         Len(build.made) = Len(build.targets)
  PROVE  /\ DOMAIN Filled = Slots /\ Filled \in [Slots -> SlotType] /\ DOMAIN slots = Slots
         /\ \A i \in Slots \ ToSet(build.targets) : Filled[i] = slots[i]
         /\ \A j \in 1 .. Len(build.targets) :
              /\ build.targets[j] \in Slots /\ build.made[j] \in Clients
              /\ Filled[build.targets[j]].client = build.made[j] /\ Filled[build.targets[j]].alive
<1>1. /\ BorrowState /\ MadeFits /\ DOMAIN slots = Slots /\ slots \in [Slots -> SlotType]
      /\ build.made \in Seq(Clients) /\ build.targets \in Seq(Slots)
  BY MadeClients DEF BorrowInv, BorrowState, MadeFits
<1>2. PICK T, M, n : T = build.targets /\ M = build.made /\ n = Len(build.targets)
  OBVIOUS
<1>3. /\ T \in Seq(Slots) /\ M \in Seq(Clients) /\ Len(T) = n /\ Len(M) = n /\ n \in Nat
      /\ \A j \in 1..n : T[j] \in Slots /\ M[j] \in Clients
      /\ \A j, l \in 1..n : T[j] = T[l] => j = l
  BY <1>1, <1>2 DEF MadeFits, Distinct
<1>4. \A i \in ToSet(T) : \E j \in 1..n : T[j] = i
  BY <1>3 DEF ToSet
<1>5. Filled = [i \in Slots |-> IF i \in ToSet(T)
                                THEN [client |-> M[CHOOSE j \in 1..n : T[j] = i], alive |-> TRUE]
                                ELSE slots[i]]
  BY <1>1, <1>2 DEF Filled
<1>6. ASSUME NEW i \in ToSet(T)
      PROVE  (CHOOSE j \in 1..n : T[j] = i) \in 1..n /\ T[CHOOSE j \in 1..n : T[j] = i] = i
  BY <1>4, <1>6
<1>7. \A i \in Slots \ ToSet(T) : Filled[i] = slots[i]
  BY <1>5
<1>8. \A i \in Slots : i \in ToSet(T) => Filled[i] = [client |-> M[CHOOSE j \in 1..n : T[j] = i], alive |-> TRUE]
  BY <1>5
<1>9. ASSUME NEW j \in 1..n
      PROVE  T[j] \in Slots /\ M[j] \in Clients /\ Filled[T[j]].client = M[j] /\ Filled[T[j]].alive
  <2>1. T[j] \in ToSet(T)
    BY <1>3 DEF ToSet
  <2>2. (CHOOSE l \in 1..n : T[l] = T[j]) = j
    BY <1>3, <1>6, <2>1
  <2>3. Filled[T[j]] = [client |-> M[j], alive |-> TRUE]
    BY <1>3, <1>8, <2>1, <2>2
  <2> QED BY <1>3, <2>3
<1>10. \A i \in Slots : Filled[i] \in SlotType
  <2>1. ASSUME NEW i \in ToSet(T)
        PROVE  Filled[i] \in SlotType
    <3>1. PICK j \in 1..n : T[j] = i
      BY <1>4
    <3>2. i \in Slots /\ M[j] \in Clients /\ Filled[i] = [client |-> M[CHOOSE l \in 1..n : T[l] = i], alive |-> TRUE]
      BY <1>3, <1>8, <3>1, <2>1
    <3>3. M[CHOOSE l \in 1..n : T[l] = i] \in Clients
      BY <1>3, <1>6, <2>1
    <3>4. \A k \in Clients : k \in 0..Builds
      BY DEF Clients, RedisPoolAssumption
    <3> QED BY <3>2, <3>3, <3>4 DEF SlotType
  <2>2. \A i \in Slots : slots[i] \in SlotType
    BY <1>1
  <2> QED BY <1>7, <2>1, <2>2
<1>11. Filled \in [Slots -> SlotType] /\ DOMAIN Filled = Slots
  <2>1. Filled = [i \in Slots |-> Filled[i]]
    BY <1>5
  <2> QED BY <1>10, <2>1
<1> QED BY <1>1, <1>2, <1>7, <1>9, <1>11

\* The filled slots, with the clients that were built in hand.
LEMMA FilledKeeps ==
  ASSUME BorrowInv, RedisPoolAssumption, build.pc = "building", ~borrowClosed,
         Len(build.made) = Len(build.targets), NEW S, S = Filled
  PROVE  Kept(S, caller, borrowWaiters, available, ToSet(build.targets))
<1>1. /\ Kept(slots, caller, borrowWaiters, available, {}) /\ MadeFits /\ ClientsFit /\ BorrowState
      /\ build.made \in Seq(Clients) /\ build.targets \in Seq(Slots)
  BY CallerFacts, MadeClients DEF BorrowInv
<1>2. PICK T, M, n : T = build.targets /\ M = build.made /\ n = Len(build.targets)
  OBVIOUS
<1>3. /\ DOMAIN S = Slots /\ S \in [Slots -> SlotType] /\ DOMAIN slots = Slots
      /\ \A i \in Slots \ ToSet(T) : S[i] = slots[i]
      /\ \A j \in 1 .. n : /\ T[j] \in Slots /\ M[j] \in Clients /\ S[T[j]].client = M[j] /\ S[T[j]].alive
  BY <1>2, FilledFacts
<1>4. /\ n \in Nat /\ Len(T) = n /\ Len(M) = n /\ DOMAIN T = 1..n /\ DOMAIN M = 1..n
      /\ \A i, j \in 1..n : M[i] = M[j] => i = j
  BY <1>1, <1>2 DEF MadeFits, Distinct
<1>5. \A i \in ToSet(T) : \E j \in 1..n : T[j] = i
  BY <1>4 DEF ToSet
<1>6. \A i \in ToSet(T) : i \in Slots /\ ~slots[i].alive /\ S[i].alive /\ S[i].client \in Clients
  BY <1>1, <1>2, <1>3, <1>5 DEF MadeFits
<1>7. \A i \in ToSet(T) : S[i].client \in ToSet(M)
  <2>1. \A j \in 1..n : M[j] \in ToSet(M)
    BY <1>4 DEF ToSet
  <2> QED BY <1>3, <1>5, <2>1
<1>8. HoldersFit(S, caller, available, ToSet(T))
  <2>1. \A c \in Borrower : Has(caller[c]) => /\ caller[c].slot \in Slots /\ slots[caller[c].slot].alive
                                              /\ slots[caller[c].slot].client = caller[c].client
                                              /\ caller[c].slot \notin ToSet(available)
    BY <1>1, <1>3 DEF Kept, HoldersFit
  <2>2. \A c, d \in Borrower : Has(caller[c]) /\ caller[c].client = caller[d].client => c = d
    BY <1>1 DEF Kept, HoldersFit
  <2>3. \A c \in Borrower : Has(caller[c]) => caller[c].slot \notin ToSet(T)
    BY <1>6, <2>1
  <2> QED BY <1>3, <2>1, <2>2, <2>3 DEF HoldersFit
<1>9. SlotsFit(S, caller, available, ToSet(T))
  <2>1. \A i \in ToSet(available) : i \in Slots /\ slots[i].alive
    BY <1>1, <1>3 DEF Kept, SlotsFit
  <2>2. \A i \in ToSet(available) : i \notin ToSet(T) /\ S[i].alive
    BY <1>3, <1>6, <2>1
  <2>3. ASSUME NEW i \in Slots, S[i].alive
        PROVE  i \in ToSet(available) \cup ToSet(T) \/ \E c \in Borrower : Has(caller[c]) /\ caller[c].slot = i
    BY <1>1, <1>3, <2>3 DEF Kept, SlotsFit
  <2>4. Distinct(available)
    BY <1>1 DEF Kept, SlotsFit
  <2> QED BY <1>3, <1>6, <2>1, <2>2, <2>3, <2>4 DEF SlotsFit
<1>10. SlotClients(S)
  <2>1. ASSUME NEW i \in Slots, S[i].alive
        PROVE  S[i].client # 0
    <3>1. CASE i \in ToSet(T)
      BY <1>6, <3>1 DEF Clients
    <3>2. CASE i \notin ToSet(T)
      BY <1>1, <1>3, <2>1, <3>2 DEF Kept, SlotClients
    <3> QED BY <3>1, <3>2
  <2>2. \A i \in Slots, k \in ToSet(M) : slots[i].client # k
    BY <1>1, <1>2, <1>3 DEF MadeFits
  <2>3. ASSUME NEW i \in Slots, NEW j \in Slots, S[i].client = S[j].client, S[i].client # 0
        PROVE  i = j
    <3>1. CASE i \in ToSet(T) /\ j \in ToSet(T)
      <4>1. PICK l \in 1..n : T[l] = i
        BY <1>5, <3>1
      <4>2. PICK m \in 1..n : T[m] = j
        BY <1>5, <3>1
      <4>3. M[l] = M[m]
        BY <1>3, <2>3, <4>1, <4>2
      <4>4. l = m
        BY <1>4, <4>3
      <4> QED BY <4>1, <4>2, <4>4
    <3>2. CASE i \in ToSet(T) /\ j \notin ToSet(T)
      BY <1>3, <1>7, <2>2, <2>3, <3>2
    <3>3. CASE i \notin ToSet(T) /\ j \in ToSet(T)
      BY <1>3, <1>7, <2>2, <2>3, <3>3
    <3>4. CASE i \notin ToSet(T) /\ j \notin ToSet(T)
      BY <1>1, <1>3, <2>3, <3>4 DEF Kept, SlotClients
    <3> QED BY <3>1, <3>2, <3>3, <3>4
  <2> QED BY <1>3, <2>1, <2>3 DEF SlotClients
<1> QED BY <1>1, <1>2, <1>3, <1>8, <1>9, <1>10 DEF Kept

\* After each turn the rest is in hand, and at the end nothing.
LEMMA OfferedKeeps ==
  ASSUME BorrowInv, RedisPoolAssumption, build.pc = "building", ~borrowClosed,
         Len(build.made) = Len(build.targets), NEW S, S = Filled,
         NEW r, r = Offered(S, Len(build.targets))
  PROVE  Kept(S, r.callers, r.waiters, r.available, {})
<1>1. /\ MadeFits /\ BorrowState /\ build.made \in Seq(Clients) /\ build.targets \in Seq(Slots)
  BY MadeClients DEF BorrowInv
<1>2. PICK T, M, n : T = build.targets /\ M = build.made /\ n = Len(build.targets)
  OBVIOUS
<1>3. /\ n \in Nat /\ DOMAIN T = 1..n /\ DOMAIN M = 1..n /\ \A i, j \in 1..n : T[i] = T[j] => i = j
  BY <1>1, <1>2 DEF MadeFits, Distinct
<1>4. \A j \in 1 .. n : T[j] \in Slots /\ M[j] \in Clients /\ S[T[j]].client = M[j]
  BY <1>2, FilledFacts
<1>5. \A j \in 1 .. n : client[S[T[j]].client] # "unborn"
  <2>1. \A j \in 1 .. n : M[j] \in ToSet(M)
    BY <1>3 DEF ToSet
  <2> QED BY <1>1, <1>2, <1>4, <2>1 DEF MadeFits
<1>6. PICK f : /\ Offered(S, n) = f[n] /\ f[0] = Rest
               /\ \A j \in 1 .. n : f[j] = Turn(S, f[j - 1], j)
  BY <1>3, OfferedSteps
<1> DEFINE P(j) == {T[l] : l \in j + 1 .. n}
           G == {j \in 0 .. n : Kept(S, f[j].callers, f[j].waiters, f[j].available, P(j))}
<1>7. 0 \in G
  <2>1. P(0) = ToSet(T)
    BY <1>3 DEF ToSet
  <2>2. Kept(S, caller, borrowWaiters, available, P(0))
    BY <1>2, <2>1, FilledKeeps
  <2>3. f[0].callers = caller /\ f[0].waiters = borrowWaiters /\ f[0].available = available
    BY <1>6 DEF Rest
  <2>4. 0 \in 0 .. n
    BY <1>3
  <2> HIDE DEF P
  <2> QED BY <2>2, <2>3, <2>4
<1>8. ASSUME NEW j \in 0 .. n, j < n /\ j \in G
      PROVE  j + 1 \in G
  <2>1. PICK i, q, Q : i = T[j + 1] /\ q = f[j + 1] /\ Q = P(j)
    OBVIOUS
  <2>2. j + 1 \in 1 .. n /\ j + 1 \in 0 .. n /\ j + 1 - 1 = j
    BY <1>3, <1>8
  <2>3. i \in Q
    BY <2>1, <2>2
  <2>4. P(j + 1) = Q \ {i}
    <3>1. \A l \in j + 1 .. n : l = j + 1 \/ l \in (j + 1) + 1 .. n
      BY <1>3
    <3>2. \A l \in (j + 1) + 1 .. n : l \in j + 1 .. n /\ l \in 1 .. n /\ l # j + 1
      BY <1>3
    <3>3. \A l \in (j + 1) + 1 .. n : T[l] # i
      BY <1>3, <2>1, <2>2, <3>2
    <3>4. P(j + 1) \subseteq Q \ {i}
      BY <2>1, <3>2, <3>3
    <3>5. Q \ {i} \subseteq P(j + 1)
      BY <2>1, <3>1
    <3> QED BY <3>4, <3>5
  <2>5. Kept(S, f[j].callers, f[j].waiters, f[j].available, Q)
    BY <1>8, <2>1
  <2>6. q = Requeue(f[j].callers, S, f[j].waiters, f[j].available, S[i].client, i)
    <3>1. q = Turn(S, f[j], j + 1)
      BY <1>6, <2>1, <2>2
    <3> QED BY <1>2, <1>4, <2>1, <2>2, <3>1 DEF Turn
  <2>7. client[S[i].client] # "unborn"
    BY <1>5, <2>1, <2>2
  <2>8. Kept(S, q.callers, q.waiters, q.available, Q \ {i})
    BY <2>3, <2>5, <2>6, <2>7, RequeueKeeps
  <2>9. Kept(S, q.callers, q.waiters, q.available, P(j + 1))
    BY <2>4, <2>8
  <2> HIDE DEF P
  <2> QED BY <2>1, <2>2, <2>9
<1>9. 0 .. n \subseteq G
  <2> HIDE DEF G
  <2> QED BY <1>3, <1>7, <1>8, NatSetInduction
<1>10. n \in G
  <2> HIDE DEF G
  <2> QED BY <1>3, <1>9
<1>11. P(n) = {}
  BY <1>3
<1>12. f[n] = r
  BY <1>2, <1>6
<1>13. Kept(S, f[n].callers, f[n].waiters, f[n].available, P(n))
  BY <1>10
<1> HIDE DEF P
<1> QED BY <1>11, <1>12, <1>13

LEMMA OfferKeeps ==
  ASSUME BorrowInv, RedisPoolAssumption, build.pc = "building", ~borrowClosed,
         Len(build.made) = Len(build.targets), Offer
  PROVE  BorrowInv'
<1>1. /\ MadeFits /\ BorrowState /\ ClientsFit /\ sealing = Nothing
      /\ build.made \in Seq(Clients) /\ build.targets \in Seq(Slots)
  BY MadeClients DEF BorrowInv, PoolShape
<1>2. PICK S, r : S = Filled /\ r = Offered(S, Len(build.targets))
  OBVIOUS
<1>3. Kept(S, r.callers, r.waiters, r.available, {})
  BY <1>2, OfferedKeeps
<1>4. PICK C, W, A : C = r.callers /\ W = r.waiters /\ A = r.available
  OBVIOUS
<1>5. /\ slots' = S /\ caller' = C /\ borrowWaiters' = W /\ available' = A
      /\ ready' = TRUE /\ build' = [NoBuild EXCEPT !.pc = "over"]
      /\ UNCHANGED <<borrowClosed, connecting, client, sealing>>
  BY <1>2, <1>4 DEF Offer, Apply
<1>6. Kept(S, C, W, A, {})
  BY <1>3, <1>4
<1>7. PICK T, M, n : T = build.targets /\ M = build.made /\ n = Len(build.targets)
  OBVIOUS
<1>8. /\ DOMAIN S = Slots /\ S \in [Slots -> SlotType] /\ DOMAIN slots = Slots
      /\ \A i \in Slots \ ToSet(T) : S[i] = slots[i]
      /\ \A j \in 1 .. n : /\ T[j] \in Slots /\ M[j] \in Clients /\ S[T[j]].client = M[j] /\ S[T[j]].alive
  BY <1>2, <1>7, FilledFacts
<1>9. /\ n \in Nat /\ DOMAIN T = 1..n /\ DOMAIN M = 1..n
  BY <1>1, <1>7
<1>10. build' \in BuildType /\ build'.made = <<>> /\ build'.targets = <<>> /\ build'.pc = "over"
  <2>1. build' = [pc |-> "over", targets |-> <<>>, made |-> <<>>]
    BY <1>5 DEF NoBuild
  <2>2. <<>> \in Seq(Slots) /\ <<>> \in Seq(Clients)
    OBVIOUS
  <2> QED BY <2>1, <2>2 DEF BuildType
<1>11. BorrowState'
  BY <1>1, <1>5, <1>6, <1>8, <1>10 DEF BorrowState, Kept
<1>12. CallersFit(caller, borrowWaiters)'
  <2>1. CallersFit(C, W)
    BY <1>6 DEF Kept
  <2> QED BY <1>5, <2>1 DEF CallersFit, CallerFits, Remembered
<1>13. PoolShape'
  <2>1. Kept(slots, caller, borrowWaiters, available, {})'
    BY <1>5, <1>6, <1>12 DEF Kept
  <2> QED BY <1>1, <1>5, <1>8, <2>1 DEF PoolShape
<1>14. MadeFits'
  <2>1. ToSet(<<>>) = {} /\ Distinct(<<>>) /\ Len(<<>>) <= Len(<<>>)
    BY DEF ToSet, Distinct
  <2>2. DOMAIN slots' = Slots /\ UNCHANGED borrowClosed
    BY <1>5, <1>8
  <2>3. Distinct(build'.made) /\ Distinct(build'.targets) /\ Len(build'.made) <= Len(build'.targets)
    BY <1>10, <2>1
  <2>4. ToSet(build'.made) = {} /\ ToSet(build'.targets) = {}
    BY <1>10, <2>1
  <2> QED BY <1>10, <2>2, <2>3, <2>4 DEF MadeFits
<1>15. ClientsFit'
  <2>1. \A i \in ToSet(T) : \E j \in 1..n : T[j] = i
    BY <1>9 DEF ToSet
  <2>2. \A j \in 1..n : M[j] \in ToSet(M)
    BY <1>9 DEF ToSet
  <2>3. ASSUME NEW i \in Slots, S[i].client # 0
        PROVE  /\ client[S[i].client] # "unborn"
               /\ ~S[i].alive => client[S[i].client] = "closed"
    <3>1. CASE i \in ToSet(T)
      <4>1. S[i].client \in ToSet(M) /\ S[i].alive
        BY <1>8, <2>1, <2>2, <3>1
      <4> QED BY <1>1, <1>7, <4>1 DEF MadeFits
    <3>2. CASE i \notin ToSet(T)
      BY <1>1, <1>8, <2>3, <3>2 DEF ClientsFit
    <3> QED BY <3>1, <3>2
  <2>4. ASSUME NEW k \in Clients, client[k] \in {"healthy", "broken"}
        PROVE  \E i \in Slots : S[i].client = k
    <3>1. CASE k \in ToSet(M)
      <4>1. PICK j \in 1..n : M[j] = k
        BY <1>9, <3>1 DEF ToSet
      <4> QED BY <1>8, <4>1
    <3>2. CASE k \notin ToSet(M)
      <4>1. PICK i \in Slots : slots[i].client = k
        BY <1>1, <1>7, <1>8, <2>4, <3>2 DEF ClientsFit, Nothing
      <4>2. slots[i].alive
        BY <1>1, <1>8, <2>4, <4>1 DEF ClientsFit, Clients
      <4>3. i \notin ToSet(T)
        BY <1>1, <1>5, <1>7, <4>2 DEF MadeFits
      <4> QED BY <1>8, <4>1, <4>3
    <3> QED BY <3>1, <3>2
  <2> QED BY <1>1, <1>5, <1>8, <2>3, <2>4 DEF ClientsFit
<1> QED BY <1>11, <1>12, <1>13, <1>14, <1>15 DEF BorrowInv

LEMMA PublishKeeps ==
  ASSUME BorrowInv, RedisPoolAssumption, Publish PROVE BorrowInv'
<1>1. CASE /\ borrowClosed
           /\ client' = CloseAll(ToSet(build.made))
           /\ build' = [build EXCEPT !.pc = "over", !.made = <<>>]
           /\ UNCHANGED <<borrowBits, slots, available, borrowWaiters, caller, sealing>>
  BY <1>1, BuildGivesUp DEF Publish, borrowBits
<1>2. CASE ~borrowClosed /\ Offer
  BY <1>2, OfferKeeps DEF Publish
<1> QED BY <1>1, <1>2 DEF Publish

-----------------------------------------------------------------------------
LEMMA BorrowStarts == ASSUME RedisPoolAssumption, BorrowInit PROVE BorrowInv
<1>1. /\ borrowClosed = FALSE /\ ready = FALSE /\ connecting = FALSE
      /\ slots = <<>> /\ available = <<>> /\ borrowWaiters = <<>>
      /\ caller = [c \in Borrower |-> Free] /\ client = [k \in Clients |-> "unborn"]
      /\ build = NoBuild /\ sealing = Nothing
  BY DEF BorrowInit
<1>2. Free \in BorrowType /\ CallerFits(Free)
  BY DEF Free, BorrowType, BorrowPc, RedisPoolAssumption, CallerFits, Has
<1>3. caller \in [Borrower -> BorrowType] /\ \A c \in Borrower : caller[c] = Free
  BY <1>1, <1>2
<1>4. DOMAIN slots = {} /\ slots \in [DOMAIN slots -> SlotType]
  BY <1>1
<1>5. /\ ToSet(<<>>) = {} /\ Distinct(<<>>) /\ Len(<<>>) = 0
      /\ <<>> \in Seq(Slots) /\ <<>> \in Seq(Clients) /\ <<>> \in Seq(Borrower)
  BY DEF ToSet, Distinct
<1>6. BorrowState
  <2>1. build \in BuildType
    BY <1>1, <1>5 DEF NoBuild, BuildType
  <2>2. sealing \in SealType
    BY <1>1 DEF Nothing, SealType
  <2>3. client \in [Clients -> ClientPc]
    BY <1>1 DEF ClientPc
  <2> QED BY <1>1, <1>3, <1>4, <1>5, <2>1, <2>2, <2>3 DEF BorrowState
<1>7. CallersFit(caller, borrowWaiters)
  <2>1. Remembered(caller, borrowWaiters)
    BY <1>3 DEF Remembered, Free
  <2> QED BY <1>2, <1>3, <2>1 DEF CallersFit
<1>8. PoolShape
  <2>1. LineFits(caller, borrowWaiters, available)
    BY <1>1, <1>5 DEF LineFits, RedisPoolAssumption
  <2>2. HoldersFit(slots, caller, available, {})
    BY <1>3 DEF HoldersFit, Free, Has
  <2>3. SlotsFit(slots, caller, available, {})
    BY <1>1, <1>4, <1>5 DEF SlotsFit
  <2>4. SlotClients(slots)
    BY <1>4 DEF SlotClients
  <2>5. Kept(slots, caller, borrowWaiters, available, {})
    BY <1>1, <1>3, <1>4, <1>5, <1>7, <2>1, <2>2, <2>3, <2>4 DEF Kept
  <2> QED BY <1>1, <2>5 DEF PoolShape
<1>9. MadeFits
  <2>1. build.made = <<>> /\ build.targets = <<>> /\ build.pc = "idle"
    BY <1>1 DEF NoBuild
  <2> QED BY <1>5, <2>1 DEF MadeFits
<1>10. ClientsFit
  <2>1. 0 \in 0..Builds /\ \A k \in Clients : client[k] # "unborn" <=> k <= 0
    BY <1>1 DEF Clients, RedisPoolAssumption
  <2>2. \A k \in Clients : client[k] = "unborn"
    BY <1>1
  <2> QED BY <1>1, <1>4, <2>1, <2>2 DEF ClientsFit, Nothing
<1> QED BY <1>6, <1>7, <1>8, <1>9, <1>10 DEF BorrowInv

LEMMA BorrowStutters ==
  ASSUME BorrowInv, UNCHANGED borrowVars PROVE BorrowInv'
<1>1. UNCHANGED <<borrowClosed, ready, connecting, slots, available, borrowWaiters, caller, client, build, sealing>>
  BY DEF borrowVars
<1>2. BorrowState'
  BY <1>1 DEF BorrowInv, BorrowState
<1>3. CallersFit(caller, borrowWaiters)'
  BY <1>1 DEF BorrowInv, CallersFit, CallerFits, Remembered
<1>4. PoolShape'
  <2>1. ~borrowClosed => Kept(slots, caller, borrowWaiters, available, {})'
    BY <1>1, <1>3 DEF BorrowInv, PoolShape, Kept
  <2> QED BY <1>1, <2>1 DEF BorrowInv, PoolShape
<1>5. MadeFits'
  BY <1>1 DEF BorrowInv, MadeFits
<1>6. ClientsFit'
  BY <1>1 DEF BorrowInv, ClientsFit
<1> QED BY <1>2, <1>3, <1>4, <1>5, <1>6 DEF BorrowInv

LEMMA BorrowNextKeeps ==
  ASSUME RedisPoolAssumption, BorrowInv, [BorrowNext]_borrowVars PROVE BorrowInv'
<1>1. ASSUME NEW c \in Borrower,
             \/ AcquireClient(c) \/ Register(c) \/ WaitEnds(c) \/ Settle(c)
             \/ GiveBackClient(c) \/ Return(c) \/ Retire(c)
      PROVE  BorrowInv'
  BY <1>1, BorrowKeeps, RegisterKeeps, WaitEndsKeeps, SettleKeeps, GiveBackClientKeeps, ReturnKeeps, RetiredKeeps
<1>2. ASSUME NEW k \in Clients, Break(k) PROVE BorrowInv'
  BY <1>2, BreakKeeps
<1>3. CASE ConnectStart \/ Targets \/ Build \/ BuildOver \/ Publish \/ ClosePool \/ CloseOutside
  BY <1>3, ConnectStartKeeps, TargetsKeeps, BuildKeeps, BuildOverKeeps, PublishKeeps,
     ClosePoolKeeps, CloseOutsideKeeps
<1>4. CASE UNCHANGED borrowVars
  BY <1>4, BorrowStutters
<1> QED BY <1>1, <1>2, <1>3, <1>4 DEF BorrowNext

-----------------------------------------------------------------------------
\* A living slot's client: one place, and no second one.
LEMMA OnePlace ==
  ASSUME BorrowInv, RedisPoolAssumption, NEW i \in DOMAIN slots, NEW k, k = slots[i].client
  PROVE  /\ slots[i].alive => Cardinality(Holders(k)) + Cardinality(Idle(k)) = 1
         /\ ~slots[i].alive /\ k # 0 => Holders(k) = {} /\ Idle(k) = {}
<1>1. Kept(slots, caller, borrowWaiters, available, {})
  BY DEF BorrowInv, PoolShape
<1>2. PICK A : A = available
  OBVIOUS
<1>3. /\ A \in Seq(Slots) /\ DOMAIN A = 1..Len(A) /\ \A m, n \in DOMAIN A : A[m] = A[n] => m = n
      /\ \A n \in DOMAIN A : A[n] \in ToSet(A) /\ A[n] \in DOMAIN slots /\ slots[A[n]].alive
  <2>1. A \in Seq(Slots) /\ Distinct(A) /\ ToSet(A) \subseteq DOMAIN slots
        /\ \A l \in ToSet(A) : slots[l].alive
    BY <1>1, <1>2 DEF Kept, SlotsFit
  <2>2. DOMAIN A = 1..Len(A)
    BY <2>1
  <2>3. \A n \in DOMAIN A : A[n] \in ToSet(A)
    BY DEF ToSet
  <2> QED BY <2>1, <2>2, <2>3 DEF Distinct
<1>4. \A c \in Borrower : Has(caller[c]) => /\ caller[c].slot \in DOMAIN slots /\ slots[caller[c].slot].alive
                                            /\ slots[caller[c].slot].client = caller[c].client
                                            /\ caller[c].slot \notin ToSet(A)
  BY <1>1, <1>2 DEF Kept, HoldersFit
<1>5. \A c, d \in Borrower : Has(caller[c]) /\ caller[c].client = caller[d].client => c = d
  BY <1>1 DEF Kept, HoldersFit
<1>6. \A j \in DOMAIN slots : slots[j].client = k /\ k # 0 => j = i
  BY <1>1 DEF Kept, SlotClients
<1>7. slots[i].alive => k # 0
  BY <1>1 DEF Kept, SlotClients
<1>8. k # 0 => \A c \in Holders(k) : c \in Borrower /\ Has(caller[c]) /\ caller[c].slot = i /\ caller[c].client = k
  BY <1>4, <1>6 DEF Holders, Has
<1>9. k # 0 => \A n \in Idle(k) : n \in DOMAIN A /\ A[n] = i
  BY <1>2, <1>3, <1>6 DEF Idle
<1>10. ASSUME slots[i].alive
       PROVE  Cardinality(Holders(k)) + Cardinality(Idle(k)) = 1
  <2>1. k # 0
    BY <1>7, <1>10
  <2>2. CASE i \in ToSet(A)
    <3>1. PICK n \in DOMAIN A : A[n] = i
      BY <2>2 DEF ToSet
    <3>2. Idle(k) = {n}
      BY <1>2, <1>3, <1>9, <2>1, <3>1 DEF Idle
    <3>3. Holders(k) = {}
      BY <1>4, <1>8, <2>1, <2>2
    <3>4. Cardinality(Idle(k)) = 1 /\ Cardinality(Holders(k)) = 0
      BY <3>2, <3>3, FS_Singleton, FS_EmptySet
    <3> QED BY <3>4
  <2>3. CASE i \notin ToSet(A)
    <3>1. PICK c \in Borrower : Has(caller[c]) /\ caller[c].slot = i
      BY <1>1, <1>2, <1>10, <2>3 DEF Kept, SlotsFit
    <3>2. caller[c].client = k
      BY <1>4, <3>1
    <3>3. c \in Holders(k)
      BY <3>2 DEF Holders
    <3>4. Holders(k) = {c}
      BY <1>5, <1>8, <2>1, <3>1, <3>2, <3>3
    <3>5. Idle(k) = {}
      BY <1>3, <1>9, <2>1, <2>3
    <3>6. Cardinality(Idle(k)) = 0 /\ Cardinality(Holders(k)) = 1
      BY <3>4, <3>5, FS_Singleton, FS_EmptySet
    <3> QED BY <3>6
  <2> QED BY <2>2, <2>3
<1>11. ASSUME ~slots[i].alive, k # 0
       PROVE  Holders(k) = {} /\ Idle(k) = {}
  <2>1. Holders(k) = {}
    BY <1>4, <1>8, <1>11
  <2>2. Idle(k) = {}
    BY <1>3, <1>9, <1>11
  <2> QED BY <2>1, <2>2
<1> QED BY <1>10, <1>11

LEMMA BorrowProperties == ASSUME RedisPoolAssumption, BorrowInv PROVE ClientsKept
<1>1. BorrowTypes
  <2>1. /\ {borrowClosed, ready, connecting} \subseteq BOOLEAN /\ DOMAIN slots \in {{}, Slots}
        /\ client \in [Clients -> {"unborn", "healthy", "broken", "closed"}]
        /\ build.pc \in {"idle", "started", "building", "over"}
    BY DEF BorrowInv, BorrowState, ClientPc, BuildType
  <2>2. ToSet(available) \subseteq Slots /\ ToSet(borrowWaiters) \subseteq Borrower
    BY DEF BorrowInv, BorrowState, ToSet
  <2>3. Len(borrowWaiters) <= MaxWaiters
    <3>1. CASE borrowClosed
      <4>1. Len(<<>>) = 0 /\ MaxWaiters \in Nat
        BY DEF RedisPoolAssumption
      <4> QED BY <3>1, <4>1 DEF BorrowInv, PoolShape
    <3>2. CASE ~borrowClosed
      BY <3>2 DEF BorrowInv, PoolShape, Kept, LineFits
    <3> QED BY <3>1, <3>2
  <2>4. \A c \in Borrower : caller[c].pc \in {"out", "entering", "waiting", "ended", "holding", "returning", "retiring"}
    BY DEF BorrowInv, BorrowState, BorrowType, BorrowPc
  <2> QED BY <2>1, <2>2, <2>3, <2>4 DEF BorrowTypes
<1>2. PlacesExact
  BY OnePlace DEF PlacesExact
<1>3. BorrowersFirst
  BY DEF BorrowersFirst, BorrowInv, PoolShape, Kept, LineFits
<1>4. CloseReachesClients
  <2>1. ASSUME borrowClosed, sealing = Nothing, build.pc = "idle"
        PROVE  /\ \A k \in Clients : client[k] \in {"unborn", "closed"}
               /\ \A c \in Borrower : caller[c].pc = "waiting" => caller[c].woken
    <3>1. /\ DOMAIN slots = {} /\ borrowWaiters = <<>> /\ build.made = <<>>
          /\ sealing.clients = {} /\ sealing.callers = {}
      BY <2>1 DEF BorrowInv, PoolShape, MadeFits, Nothing
    <3>2. ToSet(build.made) = {} /\ ToSet(borrowWaiters) = {}
      BY <3>1 DEF ToSet
    <3>3. \A k \in Clients : client[k] \in {"unborn", "closed"}
      <4>1. \A k \in Clients : client[k] \notin {"healthy", "broken"}
        BY <3>1, <3>2 DEF BorrowInv, ClientsFit
      <4> QED BY <4>1 DEF BorrowInv, BorrowState, ClientPc
    <3>4. \A c \in Borrower : caller[c].pc = "waiting" => caller[c].woken
      BY <3>1, <3>2 DEF BorrowInv, CallersFit, Remembered
    <3> QED BY <3>3, <3>4
  <2> QED BY <2>1 DEF CloseReachesClients
<1> QED BY <1>1, <1>2, <1>3, <1>4 DEF ClientsKept

THEOREM BorrowAlways == ASSUME RedisPoolAssumption PROVE BorrowSpec => []BorrowInv
<1>1. BorrowInit => BorrowInv
  BY BorrowStarts
<1>2. BorrowInv /\ [BorrowNext]_borrowVars => BorrowInv'
  BY BorrowNextKeeps
<1> QED BY <1>1, <1>2, PTL DEF BorrowSpec

\* CoRedisPool: the client of a living slot is in exactly one place - idle, handed or
\* borrowed - whatever returns, handoffs, retirements and repairs interleave; nobody waits
\* while one is idle; and once Close is through none is open and nobody waits unwoken.
THEOREM ClientsAreKept == ASSUME RedisPoolAssumption PROVE BorrowSpec => []ClientsKept
<1>1. BorrowInv => ClientsKept
  BY BorrowProperties
<1> QED BY <1>1, BorrowAlways, PTL
=============================================================================
