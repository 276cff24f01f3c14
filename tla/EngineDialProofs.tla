-------------------------- MODULE EngineDialProofs --------------------------
(***************************************************************************)
(* What holds of the outgoing connections of the engine for any number of  *)
(* dials: receipts, callbacks and the seal tell the same of every dial     *)
(* (DialExact) and a connected descriptor has a receiver (NoOrphan).  The  *)
(* invariant follows a dial from its caller into the handlers of the       *)
(* owner, through its wait, and to the caller, the handler or the close.   *)
(***************************************************************************)
EXTENDS EngineDial, Integers, FiniteSetTheorems, SequenceTheorems, TLAPS

-----------------------------------------------------------------------------
Place == {"idle", "insert", "post", "accepted", "look", "park", "parked", "ended", "abandon",
          "forsake", "interrupt", "done"}
Early == {"idle", "insert", "post"}
Looking == {"look", "park", "parked", "ended", "forsake"}
CtlPlace == {"loop", "settle", "post", "await", "unbind", "finalize", "settleRecords", "done"}
Op == [done : BOOLEAN, abandoned : BOOLEAN, waiting : BOOLEAN, held : BOOLEAN,
       cancel : BOOLEAN, delivering : BOOLEAN, conn : BOOLEAN]
Task == [do : {"begin", "cancel"}, dial : Dial] \cup [do : {"cancelAll", "seal"}]
OwnerAt == {Idle} \cup [at : {"start", "authorise", "deliver"}, dial : Dial]

Begin(d) == [do |-> "begin", dial |-> d]
Queued(d) == \E i \in 1 .. Len(dialTasks) : dialTasks[i] = Begin(d)
Owned(d) == owner # Idle /\ owner.dial = d
Adopted(d) == owner # Idle /\ owner.at # "start" /\ owner.dial = d
Waits == { d \in Dial : pend[d] # "no" }

Types ==
  /\ raw \in BOOLEAN /\ dialSealed \in BOOLEAN /\ dialBound \in BOOLEAN /\ dialFailed \in BOOLEAN
  /\ shut \in BOOLEAN /\ onZero \in BOOLEAN /\ sealDone \in BOOLEAN /\ retry \in BOOLEAN
  /\ dialPhase \in {"Running", "Closing", "Stopped"}
  /\ table \subseteq Dial /\ asked \subseteq Dial /\ released \subseteq Dial /\ dialWoken \subseteq Dial
  /\ op \in [Dial -> Op] /\ dialTasks \in Seq(Task) /\ owner \in OwnerAt
  /\ pend \in [Dial -> {"no", "waiting", "canceled"}]
  /\ calls \in Nat
  /\ fd \in [Dial -> Descriptor] /\ told \in [Dial -> 0 .. 1]
  /\ dialPc \in [Dial -> Place] /\ result \in [Dial -> {"none", "conn", "error"}]
  /\ ctl \in CtlPlace /\ closer \in {"idle", "settle", "done"}

\* The seal is announced before anything of the end is done.
EndInOrder ==
  /\ closer # "idle" \/ ctl # "loop" \/ shut => dialSealed
  /\ dialBound <=> ctl \notin {"finalize", "settleRecords", "done"}
  /\ ~dialBound => dialTasks = <<>> /\ owner = Idle
  /\ ctl = "done" <=> dialPhase = "Stopped"
  /\ ctl \in {"settleRecords", "done"} =>
       \A d \in Dial : pend[d] = "no" /\ fd[d] \in {"none", "closed"}
  /\ sealDone \/ onZero => shut

\* What is posted before the seal is run before it, each dial's start once.
TasksInOrder ==
  \A i \in 1 .. Len(dialTasks) :
    /\ dialTasks[i].do = "seal" => dialSealed /\ \A j \in i .. Len(dialTasks) : dialTasks[j].do # "begin"
    /\ dialTasks[i].do = "begin" =>
         ~shut /\ \A j \in 1 .. Len(dialTasks) : dialTasks[i] = dialTasks[j] => i = j

\* What the seal waits for.
CallsCounted ==
  /\ ctl \notin {"settleRecords", "done"} =>
       calls = Cardinality(Waits) + IF owner = Idle THEN 0 ELSE 1
  /\ calls <= Cardinality(Dial) /\ (sealDone => calls = 0)

\* Nothing of the dial has come about yet.
Untold(d) == d \notin released /\ told[d] = 0

\* A dial is in one place on its way through the owner.
OnePlace(d) ==
  /\ dialPc[d] \in Early => /\ ~Queued(d) /\ ~Owned(d) /\ pend[d] = "no" /\ fd[d] = "none"
                        /\ told[d] = 0 /\ (d \in released => ctl = "done")
  /\ Queued(d) => ~Owned(d) /\ pend[d] = "no" /\ fd[d] = "none" /\ Untold(d)
  /\ Owned(d) => pend[d] = "no" /\ Untold(d) /\ fd[d] = IF owner.at = "start" THEN "none" ELSE "conn"
  /\ pend[d] # "no" => fd[d] = "connecting" /\ Untold(d)
  /\ fd[d] = "connecting" => pend[d] # "no"
  /\ fd[d] = "conn" => d \notin released
  /\ Adopted(d) => d \in table /\ op[d].delivering /\ ~op[d].done /\ ~op[d].held

\* The record of a dial that can still connect is there.
RecordThere(d) ==
  /\ dialPc[d] \in {"idle", "insert"} => d \notin table
  /\ ~dialSealed /\ (dialPc[d] = "post" \/ Queued(d) \/ Owned(d) \/ pend[d] # "no") =>
       d \in table /\ ~op[d].done

\* With a caller: a record is there for as long as it is looked at, or until the descriptor is
\* gone; who gave up has said so.
CallerServed(d) ==
  ~raw =>
    /\ dialPc[d] # "accepted"
    /\ dialPc[d] \in Looking \cup {"post"} => d \in table /\ op[d].waiting
    /\ ~op[d].held => fd[d] = "conn" \/ d \in released
    /\ dialPc[d] \notin Early => d \in released \/ (d \in table /\ op[d].held) \/ fd[d] = "conn"
    /\ dialPc[d] \notin Early /\ ctl = "done" => d \in released
    /\ dialPc[d] \in {"interrupt", "done"} /\ d \in table /\ ~op[d].done =>
         op[d].abandoned /\ ~op[d].waiting
    /\ fd[d] = "conn" /\ ~Adopted(d) /\ d \notin asked =>
         \/ dialPc[d] \in Looking \cup {"abandon"} /\ op[d].done /\ op[d].conn
         \/ dialPc[d] = "done" /\ result[d] = "conn"
    /\ dialPc[d] = "parked" /\ d \notin dialWoken => ~op[d].done

\* With a handler: it is told of every accepted dial.
HandlerTold(d) ==
  raw =>
    /\ dialPc[d] \in Early \cup {"accepted", "done"}
    /\ ~op[d].held
    /\ dialBound /\ dialPc[d] = "accepted" => Queued(d) \/ Owned(d) \/ pend[d] # "no" \/ told[d] = 1
    /\ sealDone /\ dialPc[d] = "accepted" => told[d] = 1
    /\ fd[d] = "conn" /\ ~Adopted(d) => told[d] = 1

DialRight(d) == OnePlace(d) /\ RecordThere(d) /\ CallerServed(d) /\ HandlerTold(d)

\* The inductive invariant.
DialInv ==
  /\ Types /\ EndInOrder /\ TasksInOrder /\ CallsCounted
  /\ \A d \in Dial : DialRight(d)

-----------------------------------------------------------------------------
(***************************************************************************)
(* The handlers posted to the owner                                        *)
(***************************************************************************)

LEMMA IndicesOfAppend ==
  ASSUME NEW S, NEW s \in Seq(S), NEW t \in S
  PROVE  /\ Append(s, t) \in Seq(S) /\ Len(Append(s, t)) = Len(s) + 1 /\ Len(s) \in Nat
         /\ \A i \in 1 .. Len(s) : Append(s, t)[i] = s[i]
         /\ Append(s, t)[Len(s) + 1] = t
  OBVIOUS

LEMMA IndicesOfTail ==
  ASSUME NEW S, NEW s \in Seq(S), s # <<>>
  PROVE  /\ Tail(s) \in Seq(S) /\ Len(Tail(s)) = Len(s) - 1 /\ Len(s) \in Nat \ {0}
         /\ \A i \in 1 .. Len(s) - 1 : Tail(s)[i] = s[i + 1]
         /\ Head(s) = s[1] /\ Head(s) \in S
  OBVIOUS

\* The posted starts after a handler is posted, and the order of what is posted.
LEMMA PostedTask ==
  ASSUME Types, TasksInOrder, NEW t \in Task, dialTasks' = Append(dialTasks, t),
  dialSealed' = dialSealed, shut' = shut,
         t.do = "seal" => dialSealed,
         t.do = "begin" => ~dialSealed /\ ~shut /\ ~Queued(t.dial)
  PROVE  /\ TasksInOrder' /\ dialTasks' \in Seq(Task)
         /\ \A d \in Dial : Queued(d)' <=> Queued(d) \/ t = Begin(d)
<1>1. /\ dialTasks' \in Seq(Task) /\ Len(dialTasks') = Len(dialTasks) + 1 /\ Len(dialTasks) \in Nat
      /\ \A i \in 1 .. Len(dialTasks) : dialTasks'[i] = dialTasks[i]
      /\ dialTasks'[Len(dialTasks) + 1] = t
  BY IndicesOfAppend DEF Types
<1>2. \A d \in Dial : Queued(d)' <=> Queued(d) \/ t = Begin(d)
  BY <1>1 DEF Queued, Begin
<1>3. \A i \in 1 .. Len(dialTasks') : i \in 1 .. Len(dialTasks) \/ i = Len(dialTasks) + 1
  BY <1>1
<1>4. ASSUME NEW i \in 1 .. Len(dialTasks'), dialTasks'[i].do = "seal", NEW j \in i .. Len(dialTasks')
      PROVE  dialSealed' /\ dialTasks'[j].do # "begin"
  <2>1. dialSealed
    BY <1>1, <1>3, <1>4 DEF TasksInOrder
  <2>2. CASE j = Len(dialTasks) + 1
    BY <1>1, <2>1, <2>2
  <2>3. CASE j \in 1 .. Len(dialTasks)
    <3>1. i \in 1 .. Len(dialTasks) /\ j \in i .. Len(dialTasks)
      BY <1>1, <2>3
    <3> QED BY <1>1, <1>4, <3>1 DEF TasksInOrder
  <2> QED BY <1>1, <2>1, <2>2, <2>3
<1>5. ASSUME NEW i \in 1 .. Len(dialTasks'), dialTasks'[i].do = "begin",
             NEW j \in 1 .. Len(dialTasks'), dialTasks'[i] = dialTasks'[j]
      PROVE  ~shut' /\ i = j
  <2>0. /\ \A k \in 1 .. Len(dialTasks) : dialTasks[k] \in Task
        /\ \A u \in Task : u.do = "begin" => u.dial \in Dial /\ u = Begin(u.dial)
    BY <1>1 DEF Types, Task, Begin
  <2>1. CASE i \in 1 .. Len(dialTasks) /\ j \in 1 .. Len(dialTasks)
    BY <1>1, <1>5, <2>1 DEF TasksInOrder
  <2>2. CASE i = Len(dialTasks) + 1 /\ j \in 1 .. Len(dialTasks)
    <3>1. dialTasks[j] = t /\ t.do = "begin"
      BY <1>1, <1>5, <2>2
    <3> QED BY <2>0, <2>2, <3>1 DEF Queued
  <2>3. CASE j = Len(dialTasks) + 1 /\ i \in 1 .. Len(dialTasks)
    <3>1. dialTasks[i] = t /\ t.do = "begin"
      BY <1>1, <1>5, <2>3
    <3> QED BY <2>0, <2>3, <3>1 DEF Queued
  <2>4. CASE i = Len(dialTasks) + 1 /\ j = Len(dialTasks) + 1
    BY <1>1, <1>5, <2>4
  <2> QED BY <1>3, <2>1, <2>2, <2>3, <2>4
<1> QED BY <1>1, <1>2, <1>4, <1>5 DEF TasksInOrder

\* The owner takes the next handler; the seal was the last to be posted with a start.
LEMMA TakenTask ==
  ASSUME Types, TasksInOrder, dialTasks # <<>>, dialTasks' = Tail(dialTasks),
  dialSealed' = dialSealed,
         shut' = shut \/ (shut' = TRUE /\ Head(dialTasks).do = "seal")
  PROVE  /\ TasksInOrder' /\ dialTasks' \in Seq(Task) /\ Head(dialTasks) \in Task
         /\ \A d \in Dial : Queued(d) <=> Queued(d)' \/ Head(dialTasks) = Begin(d)
         /\ \A d \in Dial : Head(dialTasks) = Begin(d) => ~Queued(d)' /\ ~shut
         /\ Head(dialTasks).do = "seal" => \A d \in Dial : ~Queued(d)
<1>1. /\ dialTasks' \in Seq(Task) /\ Len(dialTasks') = Len(dialTasks) - 1
      /\ Len(dialTasks) \in Nat \ {0}
      /\ \A i \in 1 .. Len(dialTasks') : dialTasks'[i] = dialTasks[i + 1]
      /\ Head(dialTasks) = dialTasks[1] /\ Head(dialTasks) \in Task
  BY IndicesOfTail DEF Types
<1>2. \A i \in 1 .. Len(dialTasks') : i + 1 \in 1 .. Len(dialTasks) /\ i + 1 # 1
  BY <1>1
<1>3. \A d \in Dial : Queued(d) => Queued(d)' \/ Head(dialTasks) = Begin(d)
  <2> SUFFICES ASSUME NEW d \in Dial, NEW i \in 1 .. Len(dialTasks), dialTasks[i] = Begin(d),
  Head(dialTasks) # Begin(d)
               PROVE  Queued(d)'
    BY DEF Queued
  <2>1. i # 1 /\ i - 1 \in 1 .. Len(dialTasks') /\ (i - 1) + 1 = i
    BY <1>1
  <2> QED BY <1>1, <2>1 DEF Queued, Begin
<1>4. \A d \in Dial : Queued(d)' => Queued(d)
  BY <1>1, <1>2 DEF Queued, Begin
<1>5. ASSUME NEW d \in Dial, Head(dialTasks) = Begin(d) PROVE ~Queued(d)' /\ ~shut /\ Queued(d)
  <2>1. dialTasks[1].do = "begin" /\ 1 \in 1 .. Len(dialTasks)
    BY <1>1, <1>5 DEF Begin
  <2> QED BY <1>1, <1>2, <1>5, <2>1 DEF Queued, Begin, TasksInOrder
<1>6. ASSUME Head(dialTasks).do = "seal" PROVE \A i \in 1 .. Len(dialTasks) : dialTasks[i].do # "begin"
  BY <1>1, <1>6 DEF TasksInOrder
<1>7. Head(dialTasks).do = "seal" => \A d \in Dial : ~Queued(d)
  BY <1>6 DEF Queued, Begin
<1>8. ASSUME NEW i \in 1 .. Len(dialTasks'), dialTasks'[i].do = "seal", NEW j \in i .. Len(dialTasks')
      PROVE  dialSealed' /\ dialTasks'[j].do # "begin"
  <2>1. /\ j \in 1 .. Len(dialTasks') /\ i + 1 \in 1 .. Len(dialTasks)
        /\ j + 1 \in i + 1 .. Len(dialTasks)
        /\ dialTasks'[i] = dialTasks[i + 1] /\ dialTasks'[j] = dialTasks[j + 1]
    BY <1>1
  <2> QED BY <1>8, <2>1 DEF TasksInOrder
<1>9. ASSUME NEW i \in 1 .. Len(dialTasks'), dialTasks'[i].do = "begin",
             NEW j \in 1 .. Len(dialTasks'), dialTasks'[i] = dialTasks'[j]
      PROVE  ~shut' /\ i = j
  <2>1. /\ i + 1 \in 1 .. Len(dialTasks) /\ j + 1 \in 1 .. Len(dialTasks)
        /\ dialTasks'[i] = dialTasks[i + 1] /\ dialTasks'[j] = dialTasks[j + 1]
    BY <1>1
  <2>2. i + 1 = j + 1 /\ ~shut
    BY <1>9, <2>1 DEF TasksInOrder
  <2>3. Head(dialTasks).do # "seal"
    BY <1>6, <1>9, <2>1
  <2> QED BY <2>2, <2>3
<1> QED BY <1>1, <1>3, <1>4, <1>5, <1>7, <1>8, <1>9 DEF TasksInOrder

\* Nothing is posted or taken.
LEMMA SameTasks ==
  ASSUME TasksInOrder, dialTasks' = dialTasks, dialSealed => dialSealed', shut' = shut
  PROVE  TasksInOrder' /\ \A d \in Dial : Queued(d)' <=> Queued(d)
  BY DEF TasksInOrder, Queued, Begin

-----------------------------------------------------------------------------
(***************************************************************************)
(* What a step does to the dials it is not about                           *)
(***************************************************************************)

\* The step leaves dial d as it is, but for a record that may go.
Apart(d) ==
  /\ raw' = raw /\ (dialSealed => dialSealed') /\ (dialBound' => dialBound)
  /\ (ctl' = "done" <=> ctl = "done")
  /\ dialPc'[d] = dialPc[d] /\ op'[d] = op[d] /\ fd'[d] = fd[d] /\ told'[d] = told[d]
  /\ (pend'[d] = "no" <=> pend[d] = "no")
  /\ result'[d] = result[d]
  /\ (d \in released' <=> d \in released) /\ (d \in asked => d \in asked')
  /\ (d \in dialWoken => d \in dialWoken')
  /\ (d \in table' => d \in table)
  /\ (d \in table /\ d \notin table' => Erasable(op[d], released, d))
  /\ (Queued(d)' => Queued(d)) /\ (dialBound' /\ Queued(d) => Queued(d)')
  /\ (Owned(d)' <=> Owned(d)) /\ (Owned(d) => owner' = owner)
  /\ sealDone' => sealDone \/ (dialBound /\ ~Queued(d) /\ ~Owned(d) /\ pend[d] = "no")

LEMMA ApartKeeps ==
  ASSUME Types, Types', NEW d \in Dial, DialRight(d), Apart(d)
  PROVE  DialRight(d)'
<1>1. OnePlace(d) /\ RecordThere(d) /\ CallerServed(d) /\ HandlerTold(d)
  BY DEF DialRight
<1>2. /\ op[d] \in Op /\ raw \in BOOLEAN /\ (Adopted(d)' <=> Adopted(d))
      /\ raw' = raw /\ (dialSealed => dialSealed') /\ (dialBound' => dialBound)
      /\ (ctl' = "done" <=> ctl = "done")
      /\ dialPc'[d] = dialPc[d] /\ op'[d] = op[d] /\ fd'[d] = fd[d] /\ told'[d] = told[d]
      /\ (pend'[d] = "no" <=> pend[d] = "no")
      /\ result'[d] = result[d]
      /\ (d \in released' <=> d \in released) /\ (d \in asked => d \in asked')
      /\ (d \in dialWoken => d \in dialWoken')
      /\ (d \in table' => d \in table)
      /\ (d \in table /\ d \notin table' => op[d].done /\ ~op[d].waiting /\ (~op[d].held \/ d \in released))
      /\ (Queued(d)' => Queued(d)) /\ (dialBound' /\ Queued(d) => Queued(d)')
      /\ (Owned(d)' <=> Owned(d)) /\ (Owned(d) => owner' = owner)
      /\ sealDone' => sealDone \/ (dialBound /\ ~Queued(d) /\ ~Owned(d) /\ pend[d] = "no")
  BY DEF Apart, Types, Erasable, Owned, Adopted
<1>3. OnePlace(d)'
  BY <1>1, <1>2 DEF OnePlace, Untold
<1>4. RecordThere(d)'
  BY <1>1, <1>2 DEF RecordThere
<1>5. CallerServed(d)'
  BY <1>1, <1>2 DEF CallerServed, Looking
<1>6. HandlerTold(d)'
  BY <1>1, <1>2 DEF HandlerTold
<1> QED BY <1>3, <1>4, <1>5, <1>6 DEF DialRight

-----------------------------------------------------------------------------
(***************************************************************************)
(* The result of a dial, and what the seal waits for                       *)
(***************************************************************************)

\* What ResolveConnect makes of the operation of dial d, and that it touches no other.
LEMMA ResolveEffect ==
  ASSUME Types, NEW d \in Dial, NEW old \in Op, NEW conn \in BOOLEAN, released' \subseteq Dial,
         Resolve(d, old, conn)
  PROVE  /\ op' \in [Dial -> Op] /\ table' \subseteq Dial /\ asked' \subseteq Dial
         /\ dialWoken' \subseteq Dial
         /\ \A e \in Dial \ {d} : /\ op'[e] = op[e] /\ (e \in table' <=> e \in table)
                                  /\ (e \in asked' <=> e \in asked)
                                  /\ (e \in dialWoken' <=> e \in dialWoken)
         /\ asked \subseteq asked' /\ dialWoken \subseteq dialWoken' /\ table' \subseteq table
         /\ d \in table /\ dialPc[d] = "parked" => d \in dialWoken'
         /\ d \in asked' \ asked => conn
         /\ conn /\ ~(d \in table /\ Takes(d)) => d \in asked'
         /\ d \in table => /\ op'[d].done /\ op'[d].held = old.held /\ op'[d].abandoned = old.abandoned
                           /\ op'[d].delivering = old.delivering
                           /\ op'[d].waiting => old.waiting
                           /\ old.waiting /\ ~raw => op'[d].waiting
                           /\ ~old.done => op'[d].conn = (conn /\ Takes(d))
                           /\ d \notin table' => Erasable(op'[d], released', d)
         /\ d \notin table => op' = op
<1> DEFINE now == IF old.done THEN old
                  ELSE [old EXCEPT !.done = TRUE, !.conn = conn /\ Takes(d), !.waiting = @ /\ ~raw]
<1>1. raw \in BOOLEAN /\ op[d] \in Op /\ Takes(d) \in BOOLEAN
  BY DEF Types, Takes, Op
<1>2. /\ now \in Op /\ now.done /\ now.held = old.held /\ now.abandoned = old.abandoned
      /\ now.delivering = old.delivering
      /\ now.waiting => old.waiting
      /\ old.waiting /\ ~raw => now.waiting
      /\ ~old.done => now.conn = (conn /\ Takes(d))
  BY <1>1 DEF Op
<1>3. /\ op' = IF d \in table THEN [op EXCEPT ![d] = now] ELSE op
      /\ asked' = IF conn /\ ~(d \in table /\ Takes(d)) THEN asked \cup {d} ELSE asked
      /\ dialWoken' = IF d \in table /\ dialPc[d] = "parked" THEN dialWoken \cup {d} ELSE dialWoken
      /\ table' = IF d \in table /\ Erasable(now, released', d) THEN table \ {d} ELSE table
  BY DEF Resolve
<1> HIDE DEF now
<1>4. /\ op' \in [Dial -> Op] /\ (d \in table => op'[d] = now) /\ (d \notin table => op' = op)
      /\ \A e \in Dial \ {d} : op'[e] = op[e]
  BY <1>2, <1>3 DEF Types
<1>5. /\ table' \subseteq Dial /\ asked' \subseteq Dial /\ dialWoken' \subseteq Dial
      /\ asked \subseteq asked' /\ dialWoken \subseteq dialWoken' /\ table' \subseteq table
      /\ \A e \in Dial \ {d} : /\ (e \in table' <=> e \in table)
                               /\ (e \in asked' <=> e \in asked)
                               /\ (e \in dialWoken' <=> e \in dialWoken)
  BY <1>3 DEF Types
<1>6. /\ d \in table /\ dialPc[d] = "parked" => d \in dialWoken'
      /\ d \in asked' \ asked => conn
      /\ conn /\ ~(d \in table /\ Takes(d)) => d \in asked'
      /\ d \in table /\ d \notin table' => Erasable(now, released', d)
  BY <1>3
<1> QED BY <1>2, <1>4, <1>5, <1>6

LEMMA WaitsFinite ==
  ASSUME EngineDialConstants
  PROVE  /\ IsFiniteSet(Dial) /\ Cardinality(Dial) \in Nat
         /\ IsFiniteSet(Waits) /\ Cardinality(Waits) \in Nat /\ Cardinality(Waits) <= Cardinality(Dial)
         /\ \A d \in Dial : d \notin Waits => Cardinality(Waits) + 1 <= Cardinality(Dial)
<1>1. IsFiniteSet(Dial) /\ Waits \subseteq Dial
  BY DEF EngineDialConstants, Waits
<1>2. /\ IsFiniteSet(Waits) /\ Cardinality(Waits) \in Nat /\ Cardinality(Dial) \in Nat
      /\ Cardinality(Waits) <= Cardinality(Dial)
  BY <1>1, FS_Subset, FS_CardinalityType
<1>3. ASSUME NEW d \in Dial, d \notin Waits PROVE Cardinality(Waits) + 1 <= Cardinality(Dial)
  <2>1. Waits \cup {d} \subseteq Dial /\ Cardinality(Waits \cup {d}) = Cardinality(Waits) + 1
    BY <1>1, <1>2, <1>3, FS_AddElement
  <2> QED BY <1>1, <1>2, <2>1, FS_Subset
<1> QED BY <1>1, <1>2, <1>3

\* The waits are as they were, or one has begun, or one has ended.
LEMMA WaitsMove ==
  ASSUME EngineDialConstants, pend \in [Dial -> {"no", "waiting", "canceled"}]
  PROVE  /\ (\A d \in Dial : pend'[d] # "no" <=> pend[d] # "no") => Cardinality(Waits') = Cardinality(Waits)
         /\ \A d \in Dial : pend[d] = "no" /\ pend' = [pend EXCEPT ![d] = "waiting"]
              => Cardinality(Waits') = Cardinality(Waits) + 1
         /\ \A d \in Dial : pend[d] # "no" /\ pend' = [pend EXCEPT ![d] = "no"]
              => Cardinality(Waits') = Cardinality(Waits) - 1
<1>1. IsFiniteSet(Waits) /\ Cardinality(Waits) \in Nat
  BY WaitsFinite
<1>2. (\A d \in Dial : pend'[d] # "no" <=> pend[d] # "no") => Waits' = Waits
  BY DEF Waits
<1>3. ASSUME NEW d \in Dial, pend[d] = "no", pend' = [pend EXCEPT ![d] = "waiting"]
      PROVE  Cardinality(Waits') = Cardinality(Waits) + 1
  <2>1. d \notin Waits /\ Waits' = Waits \cup {d}
    BY <1>3 DEF Waits
  <2> QED BY <1>1, <2>1, FS_AddElement
<1>4. ASSUME NEW d \in Dial, pend[d] # "no", pend' = [pend EXCEPT ![d] = "no"]
      PROVE  Cardinality(Waits') = Cardinality(Waits) - 1
  <2>1. d \in Waits /\ Waits' = Waits \ {d}
    BY <1>4 DEF Waits
  <2> QED BY <1>1, <2>1, FS_RemoveElement
<1> QED BY <1>2, <1>3, <1>4

\* Who is counted when one callback is left: nobody else waits, and nobody else is worked on.
LEMMA LastCallback ==
  ASSUME EngineDialConstants, Types, CallsCounted, dialBound, EndInOrder, calls = 1
  PROVE  /\ owner # Idle => \A e \in Dial : pend[e] = "no"
         /\ \A d, e \in Dial : pend[d] # "no" /\ pend[e] # "no" => d = e
<1>1. IsFiniteSet(Waits) /\ Cardinality(Waits) \in Nat
  BY WaitsFinite
<1>2. calls = Cardinality(Waits) + IF owner = Idle THEN 0 ELSE 1
  BY DEF CallsCounted, EndInOrder
<1>3. ASSUME owner # Idle PROVE \A e \in Dial : pend[e] = "no"
  <2>1. Cardinality(Waits) = 0
    BY <1>1, <1>2, <1>3
  <2>2. Waits = {}
    BY <1>1, <2>1, FS_EmptySet
  <2> QED BY <2>2 DEF Waits
<1>4. ASSUME NEW d \in Dial, NEW e \in Dial, pend[d] # "no", pend[e] # "no", d # e PROVE FALSE
  <2>1. Cardinality(Waits \ {d}) = Cardinality(Waits) - 1 /\ IsFiniteSet(Waits \ {d})
    BY <1>1, <1>4, FS_RemoveElement DEF Waits
  <2>2. Cardinality(Waits \ {d}) = 0
    <3>1. Cardinality(Waits) <= 1
      BY <1>1, <1>2
    <3>2. Cardinality(Waits \ {d}) \in Nat
      BY <2>1, FS_CardinalityType
    <3> QED BY <1>1, <2>1, <3>1, <3>2
  <2>3. Waits \ {d} = {}
    BY <2>1, <2>2, FS_EmptySet
  <2> QED BY <1>4, <2>3 DEF Waits
<1> QED BY <1>3, <1>4

\* A callback that is finished is counted out; if it was the last one and the seal waits, no other
\* dial is on its way.
LEMMA CallbackFinished ==
  ASSUME EngineDialConstants, DialInv, NEW d \in Dial, dialBound, FinishCallback, ctl' = ctl,
         \/ Owned(d) /\ owner' = Idle /\ pend' = pend
         \/ owner = Idle /\ owner' = Idle /\ pend[d] # "no" /\ pend' = [pend EXCEPT ![d] = "no"]
  PROVE  /\ CallsCounted' /\ calls' \in Nat /\ sealDone' \in BOOLEAN /\ onZero' \in BOOLEAN
         /\ sealDone' \/ onZero' => shut
         /\ sealDone' => \/ sealDone
                         \/ \A e \in Dial \ {d} : dialBound /\ ~Queued(e) /\ ~Owned(e) /\ pend[e] = "no"
<1> USE DEF DialInv
<1>1. /\ calls' = IF calls = 0 THEN 0 ELSE calls - 1
      /\ sealDone' = (sealDone \/ (calls = 1 /\ onZero))
      /\ onZero' = (onZero /\ calls # 1)
      /\ calls \in Nat /\ sealDone \in BOOLEAN /\ onZero \in BOOLEAN
  BY DEF FinishCallback, Types
<1>2. sealDone \/ onZero => shut
  BY DEF EndInOrder
<1>3. /\ Cardinality(Waits) \in Nat /\ Cardinality(Dial) \in Nat
      /\ calls = Cardinality(Waits) + IF owner = Idle THEN 0 ELSE 1
      /\ ctl \notin {"settleRecords", "done"} /\ calls <= Cardinality(Dial) /\ (sealDone => calls = 0)
  BY WaitsFinite DEF CallsCounted, EndInOrder
<1>4. calls > 0 /\ calls - 1 = Cardinality(Waits') + IF owner' = Idle THEN 0 ELSE 1
  <2>1. CASE Owned(d) /\ owner' = Idle /\ pend' = pend
    <3>1. Waits' = Waits /\ owner # Idle
      BY <2>1 DEF Waits, Owned
    <3> QED BY <1>3, <2>1, <3>1
  <2>2. CASE owner = Idle /\ owner' = Idle /\ pend[d] # "no" /\ pend' = [pend EXCEPT ![d] = "no"]
    <3>1. Cardinality(Waits') = Cardinality(Waits) - 1
      BY <2>2, WaitsMove DEF Types
    <3>2. Cardinality(Waits) # 0
      <4>1. d \in Waits /\ IsFiniteSet(Waits)
        BY <2>2, WaitsFinite DEF Waits
      <4> QED BY <4>1, FS_EmptySet
    <3> QED BY <1>3, <2>2, <3>1, <3>2
  <2> QED BY <2>1, <2>2
<1>5. CallsCounted'
  <2>1. ctl' \notin {"settleRecords", "done"} =>
          calls' = Cardinality(Waits') + IF owner' = Idle THEN 0 ELSE 1
    BY <1>1, <1>4
  <2>2. calls' <= Cardinality(Dial) /\ (sealDone' => calls' = 0)
    BY <1>1, <1>3, <1>4
  <2> QED BY <2>1, <2>2 DEF CallsCounted
<1>6. ASSUME sealDone', ~sealDone, NEW e \in Dial \ {d}
      PROVE  dialBound /\ ~Queued(e) /\ ~Owned(e) /\ pend[e] = "no"
  <2>1. calls = 1 /\ shut
    BY <1>1, <1>2, <1>6
  <2>2. ~Queued(e)
    BY <2>1 DEF Queued, Begin, TasksInOrder
  <2>3. ~Owned(e) /\ pend[e] = "no"
    <3>1. /\ owner # Idle => \A x \in Dial : pend[x] = "no"
          /\ \A x, y \in Dial : pend[x] # "no" /\ pend[y] # "no" => x = y
      BY <2>1, LastCallback
    <3> QED BY <1>6, <3>1 DEF Owned
  <2> QED BY <2>2, <2>3
<1> QED BY <1>1, <1>2, <1>3, <1>4, <1>5, <1>6

\* The end stays in order under the steps of callers and owner.
LEMMA EndKept ==
  ASSUME EndInOrder, UNCHANGED <<dialBound, shut, dialPhase, ctl, closer, dialSealed>>,
         sealDone' \/ onZero' => shut,
         dialBound \/ UNCHANGED <<dialTasks, owner, pend, fd>>
  PROVE  EndInOrder'
  BY DEF EndInOrder

LEMMA CountKept ==
  ASSUME EngineDialConstants, Types, CallsCounted, UNCHANGED <<calls, sealDone, owner, ctl>>,
         \A e \in Dial : pend'[e] # "no" <=> pend[e] # "no"
  PROVE  CallsCounted'
<1>1. Cardinality(Waits') = Cardinality(Waits)
  BY WaitsMove DEF Types
<1> QED BY <1>1 DEF CallsCounted

\* A dial that failed: released and resolved, and a handler is told.
LEMMA FailedDial ==
  ASSUME Types, Types', NEW d \in Dial, DialRight(d), dialPc[d] \notin Early, Untold(d),
         UNCHANGED <<raw, dialPc, result, ctl, dialBound>>,
         ~raw => d \in released', raw => told'[d] = 1,
         pend'[d] = "no", fd'[d] \in {"none", "closed"}, ~Queued(d)', ~Owned(d)',
         Resolve(d, op[d], FALSE)
  PROVE  DialRight(d)'
<1>1. OnePlace(d) /\ RecordThere(d) /\ CallerServed(d) /\ HandlerTold(d)
  BY DEF DialRight
<1>2. /\ op[d] \in Op /\ raw \in BOOLEAN /\ dialPc[d] \in Place
      /\ table' \subseteq table
      /\ d \in table /\ dialPc[d] = "parked" => d \in dialWoken'
      /\ d \in table => /\ op'[d].done /\ op'[d].held = op[d].held /\ op'[d].abandoned = op[d].abandoned
                        /\ op'[d].waiting => op[d].waiting
                        /\ op[d].waiting /\ ~raw => op'[d].waiting
                        /\ d \notin table' => op'[d].done /\ ~op'[d].waiting
      /\ d \notin table => op' = op
  <2>1. op[d] \in Op /\ raw \in BOOLEAN /\ dialPc[d] \in Place /\ released' \subseteq Dial /\ FALSE \in BOOLEAN
    BY DEF Types
  <2> QED BY <2>1, ResolveEffect, Zenon DEF Erasable
<1>3. OnePlace(d)'
  BY <1>2 DEF OnePlace, Adopted, Owned
<1>4. RecordThere(d)'
  BY <1>2 DEF RecordThere, Early
<1>5. CallerServed(d)'
  BY <1>1, <1>2 DEF CallerServed, Looking
<1>6. HandlerTold(d)'
  BY <1>1, <1>2 DEF HandlerTold
<1> QED BY <1>3, <1>4, <1>5, <1>6 DEF DialRight

\* A step in which one dial fails, whatever it was waiting for.
LEMMA FailingStep ==
  ASSUME Types, Types', NEW d \in Dial, \A e \in Dial : DialRight(e), ctl # "done",
         Queued(d) \/ Owned(d) \/ pend[d] # "no",
         UNCHANGED <<raw, dialPc, result, ctl, dialBound, dialSealed>>,
         released' = released \cup {d} \/ Released(d), ~raw => d \in released',
         TellHandler(d), Resolve(d, op[d], FALSE),
         pend'[d] = "no", ~Queued(d)', ~Owned(d)',
         fd'[d] = "closed" \/ (fd' = fd /\ fd[d] = "none"),
         \A e \in Dial \ {d} :
           /\ fd'[e] = fd[e] /\ pend'[e] = pend[e] /\ (Queued(e)' <=> Queued(e))
           /\ (Owned(e)' <=> Owned(e)) /\ (Owned(e) => owner' = owner),
         sealDone' => \/ sealDone
                      \/ \A e \in Dial \ {d} : dialBound /\ ~Queued(e) /\ ~Owned(e) /\ pend[e] = "no"
  PROVE  \A e \in Dial : DialRight(e)'
<1>1. /\ dialPc[d] \notin Early /\ Untold(d) /\ told[d] = 0
      /\ released' \in {released, released \cup {d}}
      /\ released' \subseteq Dial
  BY DEF DialRight, OnePlace, Untold, Released, Types
<1>2. /\ \A e \in Dial \ {d} : /\ op'[e] = op[e] /\ (e \in table' <=> e \in table)
                               /\ (e \in asked' <=> e \in asked)
                               /\ (e \in dialWoken' <=> e \in dialWoken)
      /\ asked \subseteq asked' /\ dialWoken \subseteq dialWoken'
  <2>1. op[d] \in Op /\ FALSE \in BOOLEAN
    BY DEF Types
  <2> QED BY <1>1, <2>1, ResolveEffect, Zenon
<1>3. /\ raw => told'[d] = 1
      /\ \A e \in Dial \ {d} : told'[e] = told[e]
  BY <1>1 DEF TellHandler, Types
<1>4. DialRight(d)'
  <2>1. fd'[d] \in {"none", "closed"}
    OBVIOUS
  <2> QED BY <1>1, <1>3, <2>1, FailedDial
<1>5. ASSUME NEW e \in Dial \ {d} PROVE DialRight(e)'
  <2>1. Apart(e)
    BY <1>1, <1>2, <1>3 DEF Apart
  <2> QED BY <2>1, ApartKeeps
<1> QED BY <1>4, <1>5

\* Where the owner is.
LEMMA OwnerBusy ==
  ASSUME Types
  PROVE  /\ owner = Idle => owner.at = "idle"
         /\ owner.at \in {"start", "authorise", "deliver"} =>
              /\ owner # Idle /\ owner.dial \in Dial /\ Owned(owner.dial)
              /\ \A e \in Dial : Owned(e) <=> e = owner.dial
  BY DEF Types, OwnerAt, Idle, Owned

LEMMA TellType ==
  ASSUME Types, NEW d \in Dial, told[d] = 0, TellHandler(d)
  PROVE  told' \in [Dial -> 0 .. 1]
  BY DEF Types, TellHandler

LEMMA FdType ==
  ASSUME Types, NEW d \in Dial, NEW v \in Descriptor, fd' = [fd EXCEPT ![d] = v]
  PROVE  /\ fd' \in [Dial -> Descriptor] /\ fd'[d] = v
         /\ \A e \in Dial \ {d} : fd'[e] = fd[e]
  BY DEF Types

-----------------------------------------------------------------------------
(***************************************************************************)
(* The steps of the owner                                                  *)
(***************************************************************************)

LEMMA BeginConnectKeeps ==
  ASSUME EngineDialConstants, DialInv, BeginConnect
  PROVE  DialInv'
<1> USE DEF DialInv
<1>1. /\ Running /\ dialTasks # <<>> /\ Head(dialTasks).do = "begin" /\ dialTasks' = Tail(dialTasks)
      /\ UNCHANGED <<raw, shut, pend, onZero, sealDone, fd, dialPc, result, dialBound, dialFailed,
                     dialPhase, dialSealed, ctl, closer, retry>>
  BY DEF BeginConnect, RunsDial, ctlVars
<1>2. /\ TasksInOrder' /\ dialTasks' \in Seq(Task) /\ Head(dialTasks) \in Task
      /\ \A e \in Dial : Queued(e) <=> Queued(e)' \/ Head(dialTasks) = Begin(e)
      /\ \A e \in Dial : Head(dialTasks) = Begin(e) => ~Queued(e)' /\ ~shut
  BY <1>1, TakenTask
<1>3. PICK d \in Dial : /\ d = Head(dialTasks).dial /\ Head(dialTasks) = Begin(d)
                        /\ \A e \in Dial : Head(dialTasks) = Begin(e) => e = d
  BY <1>1, <1>2 DEF Task, Begin
<1>4. /\ Queued(d) /\ ~Queued(d)' /\ ~shut
      /\ \A e \in Dial \ {d} : Queued(e)' <=> Queued(e)
  <2>1. Queued(d) /\ ~Queued(d)' /\ ~shut
    BY <1>2, <1>3
  <2>2. ASSUME NEW e \in Dial \ {d} PROVE Queued(e)' <=> Queued(e)
    BY <1>2, <1>3, <2>2
  <2> QED BY <2>1, <2>2
<1>5. dialBound /\ owner = Idle /\ ctl \notin {"settleRecords", "done"} /\ ~dialFailed
  BY <1>1 DEF Running, EndInOrder
<1>6. /\ dialPc[d] \notin Early /\ ~Owned(d) /\ pend[d] = "no" /\ fd[d] = "none" /\ Untold(d)
      /\ told[d] = 0
  BY <1>3, <1>4 DEF DialRight, OnePlace, Untold
<1>7. EndInOrder'
  BY <1>1, <1>5, EndKept DEF EndInOrder
<1>8. CASE shut \/ dialSealed
  <2>1. Released(d) /\ TellHandler(d) /\ Resolve(d, op[d], FALSE) /\ UNCHANGED <<owner, calls>>
    BY <1>3, <1>8 DEF BeginConnect
  <2>2. released' \subseteq Dial /\ (~raw => d \in released')
    BY <1>3, <2>1 DEF Released, Types
  <2>3. op' \in [Dial -> Op] /\ table' \subseteq Dial /\ asked' \subseteq Dial /\ dialWoken' \subseteq Dial
    BY <1>3, <2>1, <2>2, ResolveEffect DEF Types
  <2>4. Types'
    <3>1. told' \in [Dial -> 0 .. 1]
      BY <1>3, <1>6, <2>1, TellType
    <3> QED BY <1>1, <1>2, <2>1, <2>2, <2>3, <3>1 DEF Types
  <2>5. CallsCounted'
    BY <1>1, <2>1, CountKept
  <2>6. \A e \in Dial : DialRight(e)'
    <3>1. \A e \in Dial : Owned(e)' <=> Owned(e)
      BY <2>1 DEF Owned
    <3> QED BY <1>1, <1>3, <1>4, <1>5, <1>6, <2>1, <2>2, <2>4, <3>1, FailingStep
  <2> QED BY <1>2, <1>7, <2>4, <2>5, <2>6
<1>9. CASE ~shut /\ ~dialSealed
  <2>1. /\ calls' = calls + 1 /\ owner' = Busy("start", d)
        /\ UNCHANGED <<table, op, asked, released, dialWoken, told>>
    BY <1>3, <1>9 DEF BeginConnect, tableVars
  <2>2. /\ owner' \in OwnerAt /\ owner' # Idle /\ owner'.dial = d /\ owner'.at = "start"
    BY <1>3, <2>1 DEF OwnerAt, Busy, Idle
  <2>3. Types'
    BY <1>1, <1>2, <2>1, <2>2 DEF Types
  <2>4. CallsCounted'
    <3>1. Waits' = Waits
      BY <1>1 DEF Waits
    <3>2. /\ Cardinality(Waits) \in Nat /\ Cardinality(Waits) + 1 <= Cardinality(Dial)
          /\ calls = Cardinality(Waits)
      BY <1>3, <1>5, <1>6, WaitsFinite DEF CallsCounted, Waits
    <3>3. ~sealDone
      BY <1>9 DEF EndInOrder
    <3> QED BY <1>1, <2>1, <2>2, <3>1, <3>2, <3>3 DEF CallsCounted
  <2>5. ASSUME NEW e \in Dial \ {d} PROVE DialRight(e)'
    <3>1. ~Owned(e) /\ ~Owned(e)'
      BY <1>5, <2>2, <2>5 DEF Owned
    <3>2. Apart(e)
      BY <1>1, <1>4, <2>1, <3>1 DEF Apart
    <3> QED BY <2>3, <3>2, ApartKeeps
  <2>6. DialRight(d)'
    <3>1. Owned(d)' /\ ~Adopted(d)'
      BY <2>2 DEF Owned, Adopted
    <3>2. OnePlace(d) /\ RecordThere(d) /\ CallerServed(d) /\ HandlerTold(d)
      BY <1>3 DEF DialRight
    <3>3. OnePlace(d)'
      BY <1>1, <1>4, <1>6, <2>1, <2>2, <3>1, <3>2 DEF OnePlace, Untold
    <3>4. RecordThere(d)'
      BY <1>1, <1>4, <2>1, <3>2 DEF RecordThere
    <3>5. CallerServed(d)'
      BY <1>1, <1>6, <2>1, <3>1, <3>2 DEF CallerServed
    <3>6. HandlerTold(d)'
      BY <1>1, <1>6, <2>1, <3>1, <3>2 DEF HandlerTold
    <3> QED BY <3>3, <3>4, <3>5, <3>6 DEF DialRight
  <2> QED BY <1>2, <1>3, <1>7, <2>3, <2>4, <2>5, <2>6
<1> QED BY <1>8, <1>9

\* Every failure that finishes a callback.
LEMMA FailedCallback ==
  ASSUME EngineDialConstants, DialInv, NEW d \in Dial, dialBound, FinishCallback,
         \/ Owned(d) /\ owner' = Idle /\ pend' = pend
         \/ owner = Idle /\ owner' = Idle /\ pend[d] # "no" /\ pend' = [pend EXCEPT ![d] = "no"],
         released' = released \cup {d} \/ Released(d), TellHandler(d), Resolve(d, op[d], FALSE),
         fd' \in [Dial -> Descriptor], \A e \in Dial \ {d} : fd'[e] = fd[e],
         fd'[d] = "closed" \/ (fd' = fd /\ fd[d] = "none"),
         UNCHANGED <<raw, shut, dialPc, result, dialTasks, dialBound, dialFailed, dialPhase,
                     dialSealed, ctl, closer, retry>>
  PROVE  DialInv'
<1> USE DEF DialInv
<1>1. /\ ctl # "done"
      /\ Owned(d) \/ pend[d] # "no"
      /\ told[d] = 0 /\ ~Queued(d)
  <2>1. OnePlace(d)
    BY DEF DialRight
  <2> QED BY <2>1 DEF EndInOrder, OnePlace, Untold
<1>2. /\ pend' \in [Dial -> {"no", "waiting", "canceled"}] /\ pend'[d] = "no"
      /\ \A e \in Dial \ {d} : pend'[e] = pend[e] /\ ~Owned(e)
      /\ \A e \in Dial : ~Owned(e)'
  <2>1. CASE Owned(d) /\ owner' = Idle /\ pend' = pend
    BY <2>1 DEF Types, Owned, DialRight, OnePlace
  <2>2. CASE owner = Idle /\ owner' = Idle /\ pend[d] # "no" /\ pend' = [pend EXCEPT ![d] = "no"]
    BY <2>2 DEF Types, Owned
  <2> QED BY <2>1, <2>2
<1>4. /\ CallsCounted' /\ calls' \in Nat /\ sealDone' \in BOOLEAN /\ onZero' \in BOOLEAN
      /\ sealDone' \/ onZero' => shut
      /\ sealDone' => \/ sealDone
                      \/ \A e \in Dial \ {d} : dialBound /\ ~Queued(e) /\ ~Owned(e) /\ pend[e] = "no"
  BY CallbackFinished
<1>5. EndInOrder'
  BY <1>4, EndKept
<1>6. TasksInOrder' /\ \A e \in Dial : Queued(e)' <=> Queued(e)
  BY SameTasks
<1>7. released' \subseteq Dial /\ (~raw => d \in released')
  BY DEF Released, Types
<1>8. op' \in [Dial -> Op] /\ table' \subseteq Dial /\ asked' \subseteq Dial /\ dialWoken' \subseteq Dial
  <2>1. op[d] \in Op /\ FALSE \in BOOLEAN
    BY DEF Types
  <2> QED BY <1>7, <2>1, ResolveEffect
<1>9. Types'
  <2>1. told' \in [Dial -> 0 .. 1]
    BY <1>1, TellType
  <2>2. owner' \in OwnerAt
    BY DEF OwnerAt
  <2> QED BY <1>2, <1>4, <1>7, <1>8, <2>1, <2>2 DEF Types
<1>10. \A e \in Dial : DialRight(e)'
  BY <1>1, <1>2, <1>4, <1>6, <1>7, <1>9, FailingStep
<1> QED BY <1>4, <1>5, <1>6, <1>9, <1>10

LEMMA StartSealedKeeps ==
  ASSUME EngineDialConstants, DialInv, StartSealed
  PROVE  DialInv'
<1> USE DEF DialInv
<1>1. owner.at = "start"
  BY DEF StartSealed
<1>2. PICK d \in Dial : d = owner.dial /\ owner # Idle /\ Owned(d)
  BY <1>1, OwnerBusy
<1>3. dialBound /\ fd[d] = "none"
  BY <1>1, <1>2 DEF EndInOrder, DialRight, OnePlace
<1>4. /\ Released(d) /\ TellHandler(d) /\ Resolve(d, op[d], FALSE) /\ FinishCallback /\ owner' = Idle
      /\ UNCHANGED <<raw, shut, pend, fd, dialPc, result, dialTasks, dialBound, dialFailed,
                     dialPhase, dialSealed, ctl, closer, retry>>
  BY <1>2 DEF StartSealed, driverVars, ctlVars
<1>5. fd \in [Dial -> Descriptor]
  BY DEF Types
<1> QED BY <1>2, <1>3, <1>4, <1>5, FailedCallback

LEMMA StartSocketKeeps ==
  ASSUME EngineDialConstants, DialInv, StartSocket
  PROVE  DialInv'
<1> USE DEF DialInv
<1>1. owner.at = "start"
  BY DEF StartSocket
<1>2. PICK d \in Dial : /\ d = owner.dial /\ owner # Idle /\ Owned(d)
                        /\ \A e \in Dial : Owned(e) <=> e = d
  BY <1>1, OwnerBusy
<1>3. dialBound /\ ctl \notin {"settleRecords", "done"}
  BY <1>2 DEF EndInOrder
<1>4. /\ ~shut /\ ~dialSealed /\ owner' = Idle
      /\ UNCHANGED <<raw, shut, dialTasks, dialBound, dialFailed, dialPhase, dialSealed, ctl,
                     closer, retry>>
  BY DEF StartSocket, driverVars, ctlVars
<1>5. CASE Fail(d) /\ FinishCallback /\ UNCHANGED pend
  <2>1. /\ released' = released \cup {d} \/ Released(d)
        /\ TellHandler(d) /\ Resolve(d, op[d], FALSE) /\ fd' = [fd EXCEPT ![d] = "closed"]
        /\ FinishCallback /\ pend' = pend /\ UNCHANGED <<dialPc, result>>
    BY <1>5 DEF Fail
  <2>2. UNCHANGED <<raw, shut, dialPc, result, dialTasks, dialBound, dialFailed, dialPhase,
                    dialSealed, ctl, closer, retry>>
    BY <1>4, <2>1
  <2>3. /\ fd' \in [Dial -> Descriptor] /\ fd'[d] = "closed"
        /\ \A e \in Dial \ {d} : fd'[e] = fd[e]
    BY <2>1, FdType DEF Descriptor
  <2> QED BY <1>2, <1>3, <1>4, <2>1, <2>2, <2>3, FailedCallback
<1>6. CASE /\ fd' = [fd EXCEPT ![d] = "connecting"] /\ pend' = [pend EXCEPT ![d] = "waiting"]
           /\ UNCHANGED <<tableVars, asked, released, callVars, told, calls, onZero, sealDone>>
  <2>1. UNCHANGED <<table, op, asked, released, dialPc, dialWoken, result, told, calls, onZero,
                    sealDone>>
    BY <1>6 DEF tableVars, callVars
  <2>2. OnePlace(d) /\ RecordThere(d) /\ CallerServed(d) /\ HandlerTold(d)
    BY DEF DialRight
  <2>3. /\ dialPc[d] \notin Early /\ ~Queued(d) /\ pend[d] = "no" /\ fd[d] = "none" /\ Untold(d)
    BY <1>1, <1>2, <2>2 DEF OnePlace
  <2>4. /\ fd' \in [Dial -> Descriptor] /\ fd'[d] = "connecting" /\ pend'[d] = "waiting"
        /\ pend' \in [Dial -> {"no", "waiting", "canceled"}]
        /\ \A e \in Dial \ {d} : fd'[e] = fd[e] /\ pend'[e] = pend[e] /\ ~Owned(e)
        /\ \A e \in Dial : ~Owned(e)' /\ ~Adopted(e)'
    BY <1>2, <1>4, <1>6 DEF Types, Descriptor, Owned, Adopted
  <2>5. Types'
    BY <1>4, <2>1, <2>4 DEF Types, OwnerAt
  <2>6. TasksInOrder' /\ \A e \in Dial : Queued(e)' <=> Queued(e)
    BY <1>4, SameTasks
  <2>7. EndInOrder'
    BY <1>3, <1>4, <2>1, EndKept DEF EndInOrder
  <2>8. CallsCounted'
    <3>1. Cardinality(Waits') = Cardinality(Waits) + 1
      BY <1>6, <2>3, WaitsMove DEF Types
    <3>2. calls = Cardinality(Waits) + 1 /\ Cardinality(Waits) \in Nat
      BY <1>2, <1>3, WaitsFinite DEF CallsCounted
    <3> QED BY <1>4, <2>1, <3>1, <3>2 DEF CallsCounted
  <2>9. ASSUME NEW e \in Dial \ {d} PROVE DialRight(e)'
    <3>1. Apart(e)
      BY <1>4, <2>1, <2>4, <2>6, <2>9 DEF Apart
    <3> QED BY <2>5, <3>1, ApartKeeps
  <2>10. DialRight(d)'
    <3>1. OnePlace(d)'
      BY <2>1, <2>3, <2>4, <2>6 DEF OnePlace, Untold
    <3>2. RecordThere(d)'
      BY <1>2, <1>4, <2>1, <2>2, <2>3 DEF RecordThere, Early
    <3>3. CallerServed(d)'
      BY <1>4, <2>1, <2>2, <2>3, <2>4 DEF CallerServed
    <3>4. HandlerTold(d)'
      <4>1. ~sealDone
        BY <1>4 DEF EndInOrder
      <4> QED BY <1>4, <2>1, <2>2, <2>3, <2>4, <4>1 DEF HandlerTold
    <3> QED BY <3>1, <3>2, <3>3, <3>4 DEF DialRight
  <2> QED BY <2>5, <2>6, <2>7, <2>8, <2>9, <2>10
<1> QED BY <1>2, <1>5, <1>6 DEF StartSocket

LEMMA ConnectFailsKeeps ==
  ASSUME EngineDialConstants, DialInv, NEW d \in Dial, ConnectFails(d)
  PROVE  DialInv'
<1>1. /\ dialBound /\ owner = Idle /\ pend[d] # "no" /\ pend' = [pend EXCEPT ![d] = "no"]
      /\ Released(d) /\ TellHandler(d) /\ Resolve(d, op[d], FALSE) /\ FinishCallback
      /\ fd' = [fd EXCEPT ![d] = "closed"] /\ owner' = owner
      /\ UNCHANGED <<raw, shut, dialPc, result, dialTasks, dialBound, dialFailed, dialPhase,
                     dialSealed, ctl, closer, retry>>
  BY DEF ConnectFails, Fail, Running, driverVars, ctlVars
<1>2. /\ fd' \in [Dial -> Descriptor] /\ fd'[d] = "closed"
      /\ \A e \in Dial \ {d} : fd'[e] = fd[e]
  BY <1>1, FdType DEF Descriptor, DialInv
<1> QED BY <1>1, <1>2, FailedCallback

LEMMA AdoptKeeps ==
  ASSUME EngineDialConstants, DialInv, NEW d \in Dial, AdoptDial(d)
  PROVE  DialInv'
<1> USE DEF DialInv
<1>1. /\ dialBound /\ owner = Idle /\ pend[d] = "waiting" /\ ~shut /\ ~dialSealed
      /\ pend' = [pend EXCEPT ![d] = "no"] /\ fd' = [fd EXCEPT ![d] = "conn"]
      /\ op' = IF d \in table THEN [op EXCEPT ![d].delivering = TRUE, ![d].held = FALSE] ELSE op
      /\ owner' = Busy("authorise", d)
      /\ UNCHANGED <<raw, table, shut, calls, onZero, sealDone, asked, released, dialPc, dialWoken,
                     result, dialTasks,
                     dialBound, dialFailed, dialPhase, dialSealed, ctl, closer, told, retry>>
  BY DEF AdoptDial, Running, driverVars, ctlVars, callVars
<1>2. OnePlace(d) /\ RecordThere(d) /\ CallerServed(d) /\ HandlerTold(d)
  BY DEF DialRight
<1>3. /\ dialPc[d] \notin Early /\ ~Queued(d) /\ Untold(d) /\ fd[d] = "connecting"
      /\ d \in table /\ ~op[d].done
  BY <1>1, <1>2 DEF OnePlace, RecordThere
<1>4. /\ owner' \in OwnerAt /\ owner' # Idle /\ owner'.at = "authorise" /\ owner'.dial = d
  BY <1>1 DEF OwnerAt, Busy, Idle
<1>5. /\ \A e \in Dial \ {d} : ~Owned(e) /\ ~Owned(e)'
      /\ Owned(d)' /\ Adopted(d)'
  BY <1>1, <1>4 DEF Owned, Adopted
<1>6. /\ fd' \in [Dial -> Descriptor] /\ pend' \in [Dial -> {"no", "waiting", "canceled"}]
      /\ fd'[d] = "conn" /\ pend'[d] = "no"
      /\ \A e \in Dial \ {d} : fd'[e] = fd[e] /\ pend'[e] = pend[e]
  BY <1>1 DEF Types, Descriptor
<1>7. /\ op' \in [Dial -> Op] /\ \A e \in Dial \ {d} : op'[e] = op[e]
      /\ op'[d].delivering /\ ~op'[d].held /\ op'[d].done = op[d].done /\ op'[d].waiting = op[d].waiting
      /\ op'[d].abandoned = op[d].abandoned
  <2>1. op \in [Dial -> Op] /\ op[d] \in Op
    BY DEF Types
  <2> DEFINE now == [op[d] EXCEPT !.delivering = TRUE, !.held = FALSE]
  <2>2. /\ now \in Op /\ now.delivering /\ ~now.held /\ now.done = op[d].done
        /\ now.waiting = op[d].waiting /\ now.abandoned = op[d].abandoned
    BY <2>1 DEF Op
  <2>3. op' = [op EXCEPT ![d] = now]
    BY <1>1, <1>3, <2>1 DEF Op
  <2> HIDE DEF now
  <2> QED BY <2>1, <2>2, <2>3
<1>8. Types'
  BY <1>1, <1>4, <1>6, <1>7 DEF Types
<1>9. TasksInOrder' /\ \A e \in Dial : Queued(e)' <=> Queued(e)
  BY <1>1, SameTasks
<1>10. EndInOrder'
  BY <1>1, EndKept DEF EndInOrder
<1>11. CallsCounted'
  <2>1. Cardinality(Waits') = Cardinality(Waits) - 1
    BY <1>1, WaitsMove DEF Types
  <2>2. Cardinality(Waits) \in Nat
    BY WaitsFinite
  <2> QED BY <1>1, <1>4, <2>1, <2>2 DEF CallsCounted
<1>12. ASSUME NEW e \in Dial \ {d} PROVE DialRight(e)'
  <2>1. Apart(e)
    BY <1>1, <1>5, <1>6, <1>7, <1>9, <1>12 DEF Apart
  <2> QED BY <1>8, <2>1, ApartKeeps
<1>13. DialRight(d)'
  <2>1. OnePlace(d)'
    BY <1>1, <1>3, <1>4, <1>5, <1>6, <1>7, <1>9 DEF OnePlace, Untold
  <2>2. RecordThere(d)'
    BY <1>1, <1>3, <1>7 DEF RecordThere, Early
  <2>3. CallerServed(d)'
    BY <1>1, <1>2, <1>3, <1>5, <1>6, <1>7 DEF CallerServed
  <2>4. HandlerTold(d)'
    BY <1>1, <1>2, <1>3, <1>5, <1>6, <1>7 DEF HandlerTold
  <2> QED BY <2>1, <2>2, <2>3, <2>4 DEF DialRight
<1> QED BY <1>8, <1>9, <1>10, <1>11, <1>12, <1>13

LEMMA AuthoriseKeeps ==
  ASSUME EngineDialConstants, DialInv, AuthoriseDial
  PROVE  DialInv'
<1> USE DEF DialInv
<1>1. owner.at = "authorise"
  BY DEF AuthoriseDial
<1>2. PICK d \in Dial : /\ d = owner.dial /\ owner # Idle /\ Owned(d)
                        /\ \A e \in Dial : Owned(e) <=> e = d
  BY <1>1, OwnerBusy
<1>3. /\ dialBound /\ UNCHANGED <<raw, shut, pend, dialPc, result, dialTasks, dialBound,
                                  dialFailed, dialPhase, dialSealed, ctl, closer, retry>>
  BY <1>2 DEF EndInOrder, AuthoriseDial, driverVars, ctlVars
<1>4. CASE dialSealed
  <2>1. /\ fd' = [fd EXCEPT ![d] = "closed"] /\ released' = released \cup {d}
        /\ TellHandler(d) /\ Resolve(d, op[d], FALSE) /\ FinishCallback /\ owner' = Idle
    BY <1>2, <1>4 DEF AuthoriseDial
  <2>2. /\ fd' \in [Dial -> Descriptor] /\ fd'[d] = "closed"
        /\ \A e \in Dial \ {d} : fd'[e] = fd[e]
    BY <2>1, FdType DEF Descriptor
  <2> QED BY <1>2, <1>3, <2>1, <2>2, FailedCallback
<1>5. CASE ~dialSealed
  <2>1. /\ owner' = Busy("deliver", d)
        /\ UNCHANGED <<fd, released, told, table, op, asked, dialWoken, calls, onZero, sealDone>>
    BY <1>2, <1>5 DEF AuthoriseDial, tableVars
  <2>2. owner' \in OwnerAt /\ owner' # Idle /\ owner'.at = "deliver" /\ owner'.dial = d
    BY <2>1 DEF OwnerAt, Busy, Idle
  <2>3. Types'
    BY <1>3, <2>1, <2>2 DEF Types
  <2>4. TasksInOrder' /\ \A e \in Dial : Queued(e)' <=> Queued(e)
    BY <1>3, SameTasks
  <2>5. EndInOrder'
    BY <1>3, <2>1, EndKept DEF EndInOrder
  <2>6. CallsCounted'
    BY <1>2, <1>3, <2>1, <2>2 DEF CallsCounted, Waits
  <2>7. ASSUME NEW e \in Dial \ {d} PROVE DialRight(e)'
    <3>1. ~Owned(e) /\ ~Owned(e)'
      BY <1>2, <2>2 DEF Owned
    <3>2. Apart(e)
      BY <1>3, <2>1, <2>4, <3>1 DEF Apart
    <3> QED BY <2>3, <3>2, ApartKeeps
  <2>8. DialRight(d)'
    <3>1. Owned(d)' /\ Adopted(d)' /\ Adopted(d)
      BY <1>1, <1>2, <2>2 DEF Owned, Adopted
    <3>2. OnePlace(d) /\ RecordThere(d) /\ CallerServed(d) /\ HandlerTold(d)
      BY DEF DialRight
    <3>3. OnePlace(d)'
      BY <1>1, <1>2, <1>3, <2>1, <2>2, <2>4, <3>1, <3>2 DEF OnePlace, Untold
    <3>4. RecordThere(d)'
      BY <1>2, <1>3, <2>1, <2>4, <3>1, <3>2 DEF RecordThere
    <3>5. CallerServed(d)'
      BY <1>3, <2>1, <3>1, <3>2 DEF CallerServed
    <3>6. HandlerTold(d)'
      BY <1>2, <1>3, <2>1, <2>4, <3>1, <3>2 DEF HandlerTold
    <3> QED BY <3>3, <3>4, <3>5, <3>6 DEF DialRight
  <2> QED BY <2>3, <2>4, <2>5, <2>6, <2>7, <2>8
<1> QED BY <1>4, <1>5

\* The connection goes to who takes it, or is shut down.
LEMMA DeliverKeeps ==
  ASSUME EngineDialConstants, DialInv, Deliver
  PROVE  DialInv'
<1> USE DEF DialInv
<1>1. owner.at = "deliver"
  BY DEF Deliver
<1>2. PICK d \in Dial : /\ d = owner.dial /\ owner # Idle /\ Owned(d)
                        /\ \A e \in Dial : Owned(e) <=> e = d
  BY <1>1, OwnerBusy
<1>3. OnePlace(d) /\ RecordThere(d) /\ CallerServed(d) /\ HandlerTold(d) /\ Adopted(d)
  BY <1>1, <1>2 DEF DialRight, Adopted
<1>4. /\ d \in table /\ ~op[d].done /\ ~op[d].held
      /\ dialPc[d] \notin Early /\ ~Queued(d) /\ pend[d] = "no" /\ fd[d] = "conn" /\ Untold(d)
  BY <1>1, <1>3 DEF OnePlace, Adopted, Owned
<1>5. /\ dialBound /\ owner' = Idle /\ FinishCallback /\ Resolve(d, op[d], TRUE)
      /\ fd' = (IF Takes(d) THEN fd ELSE [fd EXCEPT ![d] = "closed"])
      /\ released' = (IF Takes(d) THEN released ELSE released \cup {d})
      /\ told' = (IF raw /\ Takes(d) THEN [told EXCEPT ![d] = @ + 1] ELSE told)
      /\ UNCHANGED <<raw, shut, pend, dialPc, result, dialTasks, dialBound, dialFailed, dialPhase,
                     dialSealed, ctl, closer, retry>>
  BY <1>2, <1>4 DEF EndInOrder, Deliver, driverVars, ctlVars
<1>6. /\ CallsCounted' /\ calls' \in Nat /\ sealDone' \in BOOLEAN /\ onZero' \in BOOLEAN
      /\ sealDone' \/ onZero' => shut
      /\ sealDone' => \/ sealDone
                      \/ \A e \in Dial \ {d} : dialBound /\ ~Queued(e) /\ ~Owned(e) /\ pend[e] = "no"
  BY <1>2, <1>5, CallbackFinished
<1>7. EndInOrder'
  BY <1>5, <1>6, EndKept
<1>8. TasksInOrder' /\ \A e \in Dial : Queued(e)' <=> Queued(e)
  BY <1>5, SameTasks
<1>9. /\ released' \subseteq Dial /\ fd' \in [Dial -> Descriptor] /\ told' \in [Dial -> 0 .. 1]
      /\ \A e \in Dial \ {d} : /\ fd'[e] = fd[e] /\ told'[e] = told[e]
                               /\ (e \in released' <=> e \in released)
      /\ Takes(d) => fd'[d] = "conn" /\ (raw => told'[d] = 1)
      /\ ~Takes(d) => fd'[d] = "closed" /\ d \in released'
  BY <1>4, <1>5 DEF Types, Descriptor, Untold
<1>10. /\ op' \in [Dial -> Op] /\ table' \subseteq Dial /\ asked' \subseteq Dial
       /\ dialWoken' \subseteq Dial
       /\ \A e \in Dial \ {d} : /\ op'[e] = op[e] /\ (e \in table' <=> e \in table)
                                /\ (e \in asked' <=> e \in asked)
                                /\ (e \in dialWoken' <=> e \in dialWoken)
       /\ asked \subseteq asked' /\ dialWoken \subseteq dialWoken' /\ table' \subseteq table
       /\ dialPc[d] = "parked" => d \in dialWoken'
       /\ ~Takes(d) => d \in asked'
       /\ op'[d].done /\ ~op'[d].held /\ op'[d].abandoned = op[d].abandoned
       /\ op'[d].waiting => op[d].waiting
       /\ op[d].waiting /\ ~raw => op'[d].waiting
       /\ op'[d].conn = (TRUE /\ Takes(d))
       /\ d \notin table' => ~op'[d].waiting
  <2>1. op[d] \in Op /\ TRUE \in BOOLEAN
    BY DEF Types
  <2> QED BY <1>4, <1>5, <1>9, <2>1, ResolveEffect DEF Erasable
<1>11. Types'
  BY <1>5, <1>6, <1>9, <1>10 DEF Types, OwnerAt
<1>12. ASSUME NEW e \in Dial \ {d} PROVE DialRight(e)'
  <2>1. ~Owned(e) /\ ~Owned(e)'
    BY <1>2, <1>5, <1>12 DEF Owned
  <2>2. Apart(e)
    BY <1>5, <1>6, <1>8, <1>9, <1>10, <1>12, <2>1 DEF Apart
  <2> QED BY <1>11, <2>2, ApartKeeps
<1>13. DialRight(d)'
  <2>1. ~Owned(d)' /\ ~Adopted(d)'
    BY <1>5 DEF Owned, Adopted
  <2>2. /\ op[d] \in Op /\ raw \in BOOLEAN /\ dialPc[d] \in Place /\ Takes(d) \in BOOLEAN
        /\ Takes(d) <=> ~(op[d].abandoned /\ ~op[d].waiting /\ ~raw)
    BY <1>4 DEF Types, Takes
  <2>3. OnePlace(d)'
    BY <1>4, <1>5, <1>8, <1>9, <2>1, <2>2 DEF OnePlace, Untold
  <2>4. RecordThere(d)'
    BY <1>4, <1>5, <1>8, <2>1 DEF RecordThere, Early
  <2>5. CallerServed(d)'
    <3>1. ~raw /\ Takes(d) => dialPc[d] \in Looking \cup {"abandon"}
      BY <1>3, <1>4, <2>2 DEF CallerServed, Place, Early, Looking
    <3>2. fd'[d] = "conn" => Takes(d)
      BY <1>9
    <3>3. ~raw => /\ dialPc[d] # "accepted"
                  /\ dialPc[d] \in Looking => d \in table' /\ op'[d].waiting
                  /\ dialPc[d] # "post"
      BY <1>3, <1>4, <1>10 DEF CallerServed, Early
    <3>4. d \in released' \/ fd'[d] = "conn"
      BY <1>9, <2>2
    <3>5. ctl' # "done"
      BY <1>5 DEF EndInOrder
    <3> QED BY <1>4, <1>5, <1>9, <1>10, <2>1, <2>2, <3>1, <3>2, <3>3, <3>4, <3>5 DEF CallerServed
  <2>6. HandlerTold(d)'
    BY <1>3, <1>4, <1>5, <1>9, <1>10, <2>1, <2>2 DEF HandlerTold
  <2> QED BY <2>3, <2>4, <2>5, <2>6 DEF DialRight
<1> QED BY <1>6, <1>7, <1>8, <1>11, <1>12, <1>13

\* A connection is closed by the owner, or by the end.
LEMMA ClosedKeeps ==
  ASSUME Types, Types', NEW d \in Dial, DialRight(d), fd[d] = "conn", fd'[d] = "closed",
         d \in released', owner = Idle, owner' = Idle, pend'[d] = "no",
         raw' = raw, dialPc' = dialPc, op' = op, told' = told, result' = result, table' = table,
         dialWoken' = dialWoken,
         dialSealed => dialSealed', dialBound' => dialBound, ctl' # "done", Queued(d)' <=> Queued(d),
         sealDone' => sealDone \/ (dialBound /\ ~Queued(d) /\ pend[d] = "no")
  PROVE  DialRight(d)'
<1>1. OnePlace(d) /\ RecordThere(d) /\ CallerServed(d) /\ HandlerTold(d)
  BY DEF DialRight
<1>2. /\ ~Owned(d)' /\ ~Adopted(d)' /\ ~Owned(d) /\ ~Adopted(d)
      /\ dialPc[d] \notin Early /\ ~Queued(d)
  BY <1>1 DEF Owned, Adopted, OnePlace
<1>3. OnePlace(d)'
  BY <1>2 DEF OnePlace
<1>4. RecordThere(d)'
  BY <1>2 DEF RecordThere, Early
<1>5. CallerServed(d)'
  BY <1>1, <1>2 DEF CallerServed
<1>6. HandlerTold(d)'
  BY <1>1, <1>2 DEF HandlerTold, OnePlace
<1> QED BY <1>3, <1>4, <1>5, <1>6 DEF DialRight

LEMMA CloseConnKeeps ==
  ASSUME EngineDialConstants, DialInv, NEW d \in Dial, CloseConn(d)
  PROVE  DialInv'
<1> USE DEF DialInv
<1>1. /\ dialBound /\ owner = Idle /\ fd[d] = "conn"
      /\ fd' = [fd EXCEPT ![d] = "closed"] /\ released' = released \cup {d}
      /\ UNCHANGED <<raw, table, op, shut, pend, calls, onZero, sealDone, owner, asked, dialPc,
                     dialWoken, result,
                     dialTasks, dialBound, dialFailed, dialPhase, dialSealed, ctl, closer, told,
                     retry>>
  BY DEF CloseConn, Running, tableVars, dialOwnerVars, callVars, driverVars, ctlVars
<1>2. /\ fd' \in [Dial -> Descriptor] /\ fd'[d] = "closed"
      /\ \A e \in Dial \ {d} : fd'[e] = fd[e]
  BY <1>1, FdType DEF Descriptor
<1>3. Types'
  BY <1>1, <1>2 DEF Types
<1>4. TasksInOrder' /\ \A e \in Dial : Queued(e)' <=> Queued(e)
  BY <1>1, SameTasks
<1>5. EndInOrder' /\ ctl # "done"
  BY <1>1, EndKept DEF EndInOrder
<1>6. CallsCounted'
  BY <1>1, CountKept
<1>7. ASSUME NEW e \in Dial \ {d} PROVE DialRight(e)'
  <2>1. Apart(e)
    BY <1>1, <1>2, <1>4, <1>7 DEF Apart, Owned
  <2> QED BY <1>3, <2>1, ApartKeeps
<1>8. DialRight(d)'
  <2>1. pend[d] = "no" /\ DialRight(d)
    BY <1>1 DEF DialRight, OnePlace
  <2> QED BY <1>1, <1>2, <1>3, <1>4, <1>5, <2>1, ClosedKeeps
<1> QED BY <1>3, <1>4, <1>5, <1>6, <1>7, <1>8

\* The waits that are canceled stay among the pending connects.
LEMMA CanceledKeeps ==
  ASSUME EngineDialConstants, DialInv, NEW S \in SUBSET Dial, Canceled(S), dialTasks # <<>>,
         dialTasks' = Tail(dialTasks), Head(dialTasks).do \in {"cancel", "cancelAll"}, dialBound,
         UNCHANGED <<raw, table, op, shut, calls, onZero, sealDone, owner, fd, asked, released,
                     dialPc, dialWoken,
                     result, dialBound, dialFailed, dialPhase, dialSealed, ctl, closer, told,
                     retry>>
  PROVE  DialInv'
<1> USE DEF DialInv
<1>1. /\ pend' \in [Dial -> {"no", "waiting", "canceled"}]
      /\ \A e \in Dial : pend'[e] = "no" <=> pend[e] = "no"
  BY DEF Canceled, Types
<1>2. /\ TasksInOrder' /\ dialTasks' \in Seq(Task)
      /\ \A e \in Dial : Queued(e)' <=> Queued(e)
  <2>1. \A e \in Dial : Head(dialTasks) # Begin(e)
    BY DEF Begin
  <2> QED BY <2>1, TakenTask
<1>3. Types'
  BY <1>1, <1>2 DEF Types
<1>4. EndInOrder'
  BY EndKept DEF EndInOrder
<1>5. CallsCounted'
  BY <1>1, CountKept
<1>6. ASSUME NEW e \in Dial PROVE DialRight(e)'
  <2>1. Apart(e)
    BY <1>1, <1>2 DEF Apart, Owned
  <2> QED BY <1>3, <2>1, ApartKeeps
<1> QED BY <1>2, <1>3, <1>4, <1>5, <1>6

LEMMA CancelConnectKeeps ==
  ASSUME EngineDialConstants, DialInv, CancelConnect
  PROVE  DialInv'
<1>1. /\ dialBound /\ dialTasks # <<>> /\ Head(dialTasks).do = "cancel" /\ dialTasks' = Tail(dialTasks)
      /\ Canceled({Head(dialTasks).dial})
      /\ UNCHANGED <<raw, table, op, shut, calls, onZero, sealDone, owner, fd, asked, released,
                     dialPc, dialWoken,
                     result, dialBound, dialFailed, dialPhase, dialSealed, ctl, closer, told,
                     retry>>
  BY DEF CancelConnect, RunsDial, Running, tableVars, fdVars, callVars, ctlVars
<1>2. Head(dialTasks).dial \in Dial
  <2>1. Head(dialTasks) \in Task
    BY <1>1, IndicesOfTail DEF DialInv, Types
  <2> QED BY <1>1, <2>1 DEF Task
<1>3. {Head(dialTasks).dial} \in SUBSET Dial
  BY <1>2
<1> QED BY <1>1, <1>3, CanceledKeeps

LEMMA CancelAllRequestedKeeps ==
  ASSUME EngineDialConstants, DialInv, CancelAllRequested
  PROVE  DialInv'
<1>1. /\ dialBound /\ dialTasks # <<>> /\ Head(dialTasks).do = "cancelAll"
      /\ dialTasks' = Tail(dialTasks)
      /\ Canceled({d \in table : op[d].cancel})
      /\ UNCHANGED <<raw, table, op, shut, calls, onZero, sealDone, owner, fd, asked, released,
                     dialPc, dialWoken,
                     result, dialBound, dialFailed, dialPhase, dialSealed, ctl, closer, told,
                     retry>>
  BY DEF CancelAllRequested, RunsDial, Running, tableVars, fdVars, callVars, ctlVars
<1>2. {d \in table : op[d].cancel} \in SUBSET Dial
  BY DEF DialInv, Types
<1> QED BY <1>1, <1>2, CanceledKeeps

\* Every connection is closed, every wait canceled, and no start is left to come.
LEMMA SealOwnerKeeps ==
  ASSUME EngineDialConstants, DialInv, SealOwner
  PROVE  DialInv'
<1> DEFINE open == {d \in Dial : fd[d] = "conn"}
<1> USE DEF DialInv
<1>1. /\ dialBound /\ owner = Idle /\ dialTasks # <<>> /\ Head(dialTasks).do = "seal"
      /\ dialTasks' = Tail(dialTasks)
      /\ shut' = TRUE /\ Canceled(Dial)
      /\ fd' = [d \in Dial |-> IF d \in open THEN "closed" ELSE fd[d]]
      /\ released' = released \cup open
      /\ sealDone' = (sealDone \/ calls = 0) /\ onZero' = (calls > 0)
      /\ UNCHANGED <<raw, table, op, calls, owner, asked, dialPc, dialWoken, result, dialBound,
                     dialFailed, dialPhase, dialSealed,
                     ctl, closer, told, retry>>
  BY DEF SealOwner, RunsDial, Running, tableVars, callVars, ctlVars
<1>2. /\ pend' \in [Dial -> {"no", "waiting", "canceled"}]
      /\ \A e \in Dial : pend'[e] = "no" <=> pend[e] = "no"
  BY <1>1 DEF Canceled, Types
<1>3. /\ TasksInOrder' /\ dialTasks' \in Seq(Task)
      /\ \A e \in Dial : ~Queued(e)' /\ ~Queued(e)
  <2>1. /\ TasksInOrder' /\ dialTasks' \in Seq(Task)
        /\ \A d \in Dial : Queued(d) <=> Queued(d)' \/ Head(dialTasks) = Begin(d)
        /\ Head(dialTasks).do = "seal" => \A d \in Dial : ~Queued(d)
    BY <1>1, TakenTask
  <2> QED BY <1>1, <2>1
<1>4. dialSealed
  <2>1. Head(dialTasks) = dialTasks[1] /\ 1 \in 1 .. Len(dialTasks)
    BY <1>1, IndicesOfTail DEF Types
  <2> QED BY <1>1, <2>1 DEF TasksInOrder
<1>5. /\ fd' \in [Dial -> Descriptor]
      /\ \A e \in Dial : fd'[e] = IF fd[e] = "conn" THEN "closed" ELSE fd[e]
      /\ \A e \in Dial : fd[e] # "conn" => (e \in released' <=> e \in released)
      /\ \A e \in Dial : fd[e] = "conn" => e \in released'
      /\ released' \subseteq Dial
  BY <1>1 DEF Types, Descriptor
<1> HIDE DEF open
<1>6. Types'
  BY <1>1, <1>2, <1>3, <1>5 DEF Types
<1>7. EndInOrder' /\ ctl # "done"
  BY <1>1, <1>4, <1>5 DEF EndInOrder
<1>8. CallsCounted'
  <2>1. Cardinality(Waits') = Cardinality(Waits)
    BY <1>2, WaitsMove DEF Types
  <2> QED BY <1>1, <2>1 DEF CallsCounted
<1>9. sealDone' => sealDone \/ \A e \in Dial : pend[e] = "no"
  <2>1. ASSUME calls = 0 PROVE \A e \in Dial : pend[e] = "no"
    <3>1. Cardinality(Waits) = 0 /\ IsFiniteSet(Waits)
      BY <1>1, <1>7, <2>1, WaitsFinite DEF CallsCounted, EndInOrder
    <3>2. Waits = {}
      BY <3>1, FS_EmptySet
    <3> QED BY <3>2 DEF Waits
  <2> QED BY <1>1, <2>1
<1>10. ASSUME NEW e \in Dial PROVE DialRight(e)'
  <2>1. CASE fd[e] = "conn"
    <3>1. pend[e] = "no"
      BY <2>1 DEF DialRight, OnePlace
    <3> QED BY <1>1, <1>2, <1>3, <1>5, <1>6, <1>7, <2>1, <3>1, ClosedKeeps
  <2>2. CASE fd[e] # "conn"
    <3>1. Apart(e)
      BY <1>1, <1>2, <1>3, <1>5, <1>9, <2>2 DEF Apart, Owned
    <3> QED BY <1>6, <3>1, ApartKeeps
  <2> QED BY <2>1, <2>2
<1> QED BY <1>3, <1>6, <1>7, <1>8, <1>10

-----------------------------------------------------------------------------
(***************************************************************************)
(* The steps of the callers                                                *)
(***************************************************************************)

\* The parts of the invariant that a caller's step leaves as they are.
LEMMA EndAndCountKept ==
  ASSUME EngineDialConstants, DialInv, dialBound \/ dialTasks' = dialTasks,
         UNCHANGED <<shut, pend, calls, onZero, sealDone, owner, fd, dialBound, dialPhase,
                     dialSealed, ctl, closer>>
  PROVE  EndInOrder' /\ CallsCounted'
<1> USE DEF DialInv
<1>1. EndInOrder'
  BY EndKept DEF EndInOrder
<1>2. CallsCounted'
  BY CountKept
<1> QED BY <1>1, <1>2

\* A step of one caller, which leaves the owner where it is.
LEMMA DialCallerStep ==
  ASSUME EngineDialConstants, DialInv, NEW d \in Dial, Types', DialRight(d)',
         UNCHANGED <<raw, shut, pend, calls, onZero, sealDone, owner, fd, dialTasks, dialBound,
                     dialPhase, dialSealed, ctl,
                     closer, told>>,
         \A e \in Dial \ {d} :
           /\ dialPc'[e] = dialPc[e] /\ op'[e] = op[e] /\ result'[e] = result[e]
           /\ (e \in released' <=> e \in released) /\ (e \in asked => e \in asked')
           /\ (e \in dialWoken => e \in dialWoken') /\ (e \in table' => e \in table)
           /\ (e \in table /\ e \notin table' => Erasable(op[e], released, e))
  PROVE  DialInv'
<1> USE DEF DialInv
<1>1. EndInOrder' /\ CallsCounted'
  BY EndAndCountKept
<1>2. TasksInOrder' /\ \A e \in Dial : Queued(e)' <=> Queued(e)
  BY SameTasks
<1>3. ASSUME NEW e \in Dial \ {d} PROVE DialRight(e)'
  <2>1. Apart(e)
    BY <1>2, <1>3 DEF Apart, Owned
  <2> QED BY <2>1, ApartKeeps
<1> QED BY <1>1, <1>2, <1>3

LEMMA SubmitKeeps ==
  ASSUME EngineDialConstants, DialInv, NEW d \in Dial, SubmitDial(d)
  PROVE  DialInv'
<1> USE DEF DialInv
<1>1. /\ dialPc[d] = "idle" /\ dialPc' = [dialPc EXCEPT ![d] = dialPc'[d]]
      /\ result' = [result EXCEPT ![d] = result'[d]]
      /\ \/ dialPc'[d] = "done" /\ result'[d] = "error" /\ Released(d)
         \/ dialPc'[d] = "insert" /\ result'[d] = result[d] /\ released' = released
      /\ UNCHANGED <<raw, table, op, shut, pend, calls, onZero, sealDone, owner, fd, asked,
                     dialWoken, dialTasks, dialBound,
                     dialFailed, dialPhase, dialSealed, ctl, closer, told, retry>>
  BY DEF SubmitDial, Reject, Types, tableVars, dialOwnerVars, driverVars, ctlVars
<1>2. OnePlace(d) /\ RecordThere(d) /\ CallerServed(d) /\ HandlerTold(d)
  BY DEF DialRight
<1>3. /\ Types'
      /\ \A e \in Dial \ {d} : dialPc'[e] = dialPc[e] /\ result'[e] = result[e] /\ (e \in released' <=> e \in released)
      /\ released \subseteq released' /\ (d \in released' \ released => dialPc'[d] = "done")
  BY <1>1 DEF Types, Released, Place
<1>4. /\ \A e \in Dial : Queued(e)' <=> Queued(e)
      /\ ~Queued(d) /\ ~Owned(d) /\ ~Owned(d)' /\ ~Adopted(d)' /\ pend[d] = "no" /\ fd[d] = "none"
      /\ d \notin table
  BY <1>1, <1>2, SameTasks DEF OnePlace, RecordThere, Early, Owned, Adopted
<1>5. DialRight(d)'
  <2>1. OnePlace(d)'
    BY <1>1, <1>2, <1>3, <1>4 DEF OnePlace, Early
  <2>2. RecordThere(d)'
    BY <1>1, <1>4 DEF RecordThere
  <2>3. CallerServed(d)'
    BY <1>1, <1>2, <1>3, <1>4 DEF CallerServed, Early, Looking, Released
  <2>4. HandlerTold(d)'
    BY <1>1, <1>2, <1>4 DEF HandlerTold, Early
  <2> QED BY <2>1, <2>2, <2>3, <2>4 DEF DialRight
<1> QED BY <1>1, <1>3, <1>5, DialCallerStep

LEMMA InsertKeeps ==
  ASSUME EngineDialConstants, DialInv, NEW d \in Dial, Insert(d)
  PROVE  DialInv'
<1> DEFINE kept == {e \in table : ~Erasable(op[e], released, e)}
<1> USE DEF DialInv
<1>1. /\ dialPc[d] = "insert"
      /\ \/ table' = kept /\ op' = op /\ Reject(d) /\ Released(d)
         \/ /\ table' = kept \cup {d} /\ op' = [op EXCEPT ![d] = Fresh]
            /\ dialPc' = [dialPc EXCEPT ![d] = "post"] /\ result' = result /\ released' = released
      /\ UNCHANGED <<raw, shut, pend, calls, onZero, sealDone, owner, fd, asked, dialWoken,
                     dialTasks, dialBound,
                     dialFailed, dialPhase, dialSealed, ctl, closer, told, retry>>
  BY DEF Insert, dialOwnerVars, driverVars, ctlVars
<1>2. OnePlace(d) /\ RecordThere(d) /\ CallerServed(d) /\ HandlerTold(d)
  BY DEF DialRight
<1>3. /\ Fresh \in Op /\ ~Fresh.done /\ Fresh.waiting = ~raw /\ Fresh.held = ~raw
  BY DEF Fresh, Op, Types
<1>4. /\ kept \subseteq table
      /\ \A e \in table : e \in kept \/ Erasable(op[e], released, e)
  OBVIOUS
<1> HIDE DEF kept
<1>5. /\ Types' /\ released \subseteq released'
      /\ \A e \in Dial \ {d} : /\ dialPc'[e] = dialPc[e] /\ result'[e] = result[e] /\ op'[e] = op[e]
                               /\ (e \in released' <=> e \in released) /\ (e \in table' <=> e \in kept)
      /\ \/ /\ dialPc'[d] = "done" /\ d \notin table' /\ (~raw => d \in released') /\ op' = op
         \/ /\ dialPc'[d] = "post" /\ d \in table' /\ op'[d] = Fresh /\ released' = released
  <2>1. CASE table' = kept /\ op' = op /\ Reject(d) /\ Released(d)
    <3>1. d \notin table
      BY <1>1, <1>2 DEF RecordThere
    <3> QED BY <1>1, <1>4, <2>1, <3>1 DEF Types, Reject, Released, Place
  <2>2. CASE /\ table' = kept \cup {d} /\ op' = [op EXCEPT ![d] = Fresh]
             /\ dialPc' = [dialPc EXCEPT ![d] = "post"] /\ result' = result /\ released' = released
    BY <1>1, <1>3, <1>4, <2>2 DEF Types, Place
  <2> QED BY <1>1, <2>1, <2>2
<1>6. /\ \A e \in Dial : Queued(e)' <=> Queued(e)
      /\ ~Queued(d) /\ ~Owned(d) /\ ~Owned(d)' /\ ~Adopted(d)' /\ pend[d] = "no" /\ fd[d] = "none"
      /\ told[d] = 0 /\ (d \in released => ctl = "done")
  BY <1>1, <1>2, SameTasks DEF OnePlace, Early, Owned, Adopted
<1>7. DialRight(d)'
  <2>1. OnePlace(d)'
    BY <1>1, <1>5, <1>6 DEF OnePlace, Early
  <2>2. RecordThere(d)'
    BY <1>1, <1>3, <1>5, <1>6 DEF RecordThere
  <2>3. CallerServed(d)'
    BY <1>1, <1>3, <1>5, <1>6 DEF CallerServed, Early, Looking
  <2>4. HandlerTold(d)'
    BY <1>1, <1>2, <1>3, <1>5, <1>6 DEF HandlerTold, Early
  <2> QED BY <2>1, <2>2, <2>3, <2>4 DEF DialRight
<1> QED BY <1>1, <1>4, <1>5, <1>7, DialCallerStep

LEMMA PostKeeps ==
  ASSUME EngineDialConstants, DialInv, NEW d \in Dial, Post(d)
  PROVE  DialInv'
<1> USE DEF DialInv
<1>1. /\ dialPc[d] = "post"
      /\ UNCHANGED <<raw, shut, pend, calls, onZero, sealDone, owner, fd, dialBound, dialFailed,
                     dialPhase, dialSealed, ctl,
                     closer, told, retry>>
  BY DEF Post, dialOwnerVars, ctlVars
<1>2. OnePlace(d) /\ RecordThere(d) /\ CallerServed(d) /\ HandlerTold(d)
  BY DEF DialRight
<1>3. /\ ~Queued(d) /\ ~Owned(d) /\ ~Owned(d)' /\ ~Adopted(d)' /\ pend[d] = "no" /\ fd[d] = "none"
      /\ told[d] = 0 /\ (d \in released => ctl = "done")
  BY <1>1, <1>2 DEF OnePlace, Early, Owned, Adopted
<1>4. CASE /\ OpenForDials /\ dialTasks' = Append(dialTasks, Begin(d))
           /\ dialPc' = [dialPc EXCEPT ![d] = IF raw THEN "accepted" ELSE "look"]
           /\ UNCHANGED <<table, op, asked, released, dialWoken, result>>
  <2>1. dialBound /\ ~dialSealed /\ ~shut /\ ctl # "done" /\ ~sealDone
    BY <1>4 DEF OpenForDials, EndInOrder
  <2>2. Begin(d) \in Task /\ Begin(d).do = "begin" /\ Begin(d).dial = d /\ \A e \in Dial \ {d} : Begin(e) # Begin(d)
    BY DEF Begin, Task
  <2>3. /\ TasksInOrder' /\ dialTasks' \in Seq(Task)
        /\ Queued(d)' /\ \A e \in Dial \ {d} : Queued(e)' <=> Queued(e)
    <3>1. /\ TasksInOrder' /\ dialTasks' \in Seq(Task)
          /\ \A e \in Dial : Queued(e)' <=> Queued(e) \/ Begin(d) = Begin(e)
      BY <1>1, <1>3, <1>4, <2>1, <2>2, PostedTask
    <3> QED BY <2>2, <3>1
  <2>4. /\ Types' /\ \A e \in Dial \ {d} : dialPc'[e] = dialPc[e]
        /\ dialPc'[d] = IF raw THEN "accepted" ELSE "look"
    BY <1>1, <1>4, <2>3 DEF Types, Place
  <2>5. EndInOrder' /\ CallsCounted'
    BY <1>1, <2>1, EndAndCountKept
  <2>6. ASSUME NEW e \in Dial \ {d} PROVE DialRight(e)'
    <3>1. Apart(e)
      BY <1>1, <1>4, <2>3, <2>4 DEF Apart, Owned
    <3> QED BY <2>4, <3>1, ApartKeeps
  <2>7. DialRight(d)'
    <3>1. OnePlace(d)'
      BY <1>1, <1>3, <1>4, <2>1, <2>4 DEF OnePlace, Untold, Early
    <3>2. RecordThere(d)'
      BY <1>1, <1>2, <1>4, <2>4 DEF RecordThere
    <3>3. CallerServed(d)'
      BY <1>1, <1>2, <1>3, <1>4, <2>1, <2>4 DEF CallerServed, Looking
    <3>4. HandlerTold(d)'
      BY <1>1, <1>2, <1>3, <1>4, <2>1, <2>3, <2>4 DEF HandlerTold
    <3> QED BY <3>1, <3>2, <3>3, <3>4 DEF DialRight
  <2> QED BY <2>3, <2>4, <2>5, <2>6, <2>7
<1>5. CASE /\ Released(d) /\ Resolve(d, [op[d] EXCEPT !.waiting = FALSE], FALSE)
           /\ Reject(d) /\ dialTasks' = dialTasks
  <2> DEFINE old == [op[d] EXCEPT !.waiting = FALSE]
  <2>1. old \in Op /\ old.held = op[d].held /\ op[d] \in Op /\ FALSE \in BOOLEAN
    BY DEF Types, Op
  <2>2. Resolve(d, old, FALSE)
    BY <1>5
  <2> HIDE DEF old
  <2>3. /\ released' \subseteq Dial /\ (~raw => d \in released')
        /\ \A e \in Dial \ {d} : e \in released' <=> e \in released
    BY <1>5 DEF Released, Types
  <2>4. /\ op' \in [Dial -> Op] /\ table' \subseteq Dial /\ asked' \subseteq Dial
        /\ dialWoken' \subseteq Dial
        /\ \A e \in Dial \ {d} : /\ op'[e] = op[e] /\ (e \in table' <=> e \in table)
                                 /\ (e \in asked' <=> e \in asked)
                                 /\ (e \in dialWoken' <=> e \in dialWoken)
        /\ table' \subseteq table
        /\ d \in table => op'[d].done /\ op'[d].held = old.held
        /\ d \notin table => op' = op
    BY <2>1, <2>2, <2>3, ResolveEffect
  <2>5. /\ Types' /\ dialPc'[d] = "done"
        /\ \A e \in Dial \ {d} : dialPc'[e] = dialPc[e] /\ result'[e] = result[e]
    <3>1. Reject(d) /\ dialTasks' = dialTasks
      BY <1>5
    <3>2. /\ dialPc' \in [Dial -> Place] /\ result' \in [Dial -> {"none", "conn", "error"}]
          /\ dialPc'[d] = "done"
          /\ \A e \in Dial \ {d} : dialPc'[e] = dialPc[e] /\ result'[e] = result[e]
      BY <3>1 DEF Types, Place, Reject
    <3> QED BY <1>1, <2>3, <2>4, <3>1, <3>2 DEF Types
  <2>6. \A e \in Dial : Queued(e)' <=> Queued(e)
    BY <1>1, <1>5, SameTasks
  <2>7. DialRight(d)'
    <3>1. OnePlace(d)'
      BY <1>1, <1>3, <2>5, <2>6 DEF OnePlace, Early
    <3>2. RecordThere(d)'
      BY <1>1, <1>3, <2>5, <2>6 DEF RecordThere
    <3>3. CallerServed(d)'
      BY <1>1, <1>2, <1>3, <2>1, <2>3, <2>4, <2>5 DEF CallerServed, Looking
    <3>4. HandlerTold(d)'
      BY <1>1, <1>2, <1>3, <2>1, <2>4, <2>5 DEF HandlerTold
    <3> QED BY <3>1, <3>2, <3>3, <3>4 DEF DialRight
  <2> QED BY <1>1, <1>5, <2>3, <2>4, <2>5, <2>7, DialCallerStep
<1> QED BY <1>4, <1>5 DEF Post, Begin, tableVars

\* The caller goes on from where it looks for its result to where it looks again.
LEMMA MovingKeeps ==
  ASSUME EngineDialConstants, DialInv, NEW d \in Dial, NEW p \in Looking, dialPc[d] \in Looking,
         p = "parked" => ~op[d].done, dialPc' = [dialPc EXCEPT ![d] = p],
         UNCHANGED <<raw, table, op, shut, pend, calls, onZero, sealDone, owner, fd, asked,
                     released, dialWoken,
                     result, dialTasks, dialBound, dialFailed, dialPhase, dialSealed, ctl, closer,
                     told, retry>>
  PROVE  DialInv'
<1> USE DEF DialInv
<1>1. OnePlace(d) /\ RecordThere(d) /\ CallerServed(d) /\ HandlerTold(d)
  BY DEF DialRight
<1>2. Types' /\ dialPc'[d] = p /\ \A e \in Dial \ {d} : dialPc'[e] = dialPc[e]
  BY DEF Types, Looking, Place
<1>3. \A e \in Dial : Queued(e)' <=> Queued(e)
  BY SameTasks
<1>4. DialRight(d)'
  <2>1. (Owned(d)' <=> Owned(d)) /\ (Adopted(d)' <=> Adopted(d)) /\ ~raw
    BY <1>1 DEF Owned, Adopted, HandlerTold, Looking, Early
  <2>2. OnePlace(d)'
    BY <1>1, <1>2, <1>3, <2>1 DEF OnePlace, Untold, Early, Looking
  <2>3. RecordThere(d)'
    BY <1>1, <1>2, <1>3, <2>1 DEF RecordThere, Looking
  <2>4. CallerServed(d)'
    BY <1>1, <1>2, <2>1 DEF CallerServed, Early, Looking
  <2>5. HandlerTold(d)'
    BY <2>1 DEF HandlerTold
  <2> QED BY <2>2, <2>3, <2>4, <2>5 DEF DialRight
<1> QED BY <1>2, <1>4, DialCallerStep

LEMMA WaitingKeeps ==
  ASSUME EngineDialConstants, DialInv, NEW d \in Dial, ParkDial(d) \/ ResumeDial(d) \/ EndWait(d)
  PROVE  DialInv'
<1>1. UNCHANGED <<raw, table, op, shut, pend, calls, onZero, sealDone, owner, fd, asked, released,
                  dialWoken,
                  result, dialTasks, dialBound, dialFailed, dialPhase, dialSealed, ctl, closer,
                  told, retry>>
  BY DEF ParkDial, ResumeDial, EndWait, tableVars, dialOwnerVars, fdVars, driverVars, ctlVars
<1>2. /\ dialPc[d] \in Looking
      /\ \E p \in Looking : /\ dialPc' = [dialPc EXCEPT ![d] = p]
                            /\ p = "parked" => ~op[d].done
  BY DEF ParkDial, ResumeDial, EndWait, Looking
<1> QED BY <1>1, <1>2, MovingKeeps

\* The caller looks for its result in the table, and leaves with what is there.
LEMMA LookKeeps ==
  ASSUME EngineDialConstants, DialInv, NEW d \in Dial, LookForResult(d)
  PROVE  DialInv'
<1> USE DEF DialInv
<1>1. /\ dialPc[d] = "look" /\ dialWoken' = dialWoken \ {d}
      /\ UNCHANGED <<raw, shut, pend, calls, onZero, sealDone, owner, fd, asked, released,
                     dialTasks, dialBound,
                     dialFailed, dialPhase, dialSealed, ctl, closer, told, retry>>
  BY DEF LookForResult, dialOwnerVars, fdVars, driverVars, ctlVars
<1>2. OnePlace(d) /\ RecordThere(d) /\ CallerServed(d) /\ HandlerTold(d)
  BY DEF DialRight
<1>3. ~raw /\ d \in table /\ op[d].waiting /\ op[d] \in Op
  BY <1>1, <1>2 DEF HandlerTold, CallerServed, Early, Looking, Types
<1> DEFINE o == [op[d] EXCEPT !.waiting = ~op[d].done, !.abandoned = FALSE]
<1>4. /\ op' = [op EXCEPT ![d] = o] /\ table' = IF Erasable(o, released, d) THEN table \ {d} ELSE table
      /\ dialPc' = [dialPc EXCEPT ![d] = IF o.done THEN "done" ELSE "park"]
      /\ result' = [result EXCEPT ![d] = IF o.done THEN IF o.conn THEN "conn" ELSE "error" ELSE "none"]
  BY <1>3 DEF LookForResult, Erased
<1>5. /\ o \in Op /\ o.done = op[d].done /\ o.waiting = ~op[d].done /\ o.held = op[d].held
      /\ o.delivering = op[d].delivering /\ o.conn = op[d].conn
  BY <1>3 DEF Op
<1> HIDE DEF o
<1>6. /\ Types' /\ op'[d] = o
      /\ dialPc'[d] = (IF op[d].done THEN "done" ELSE "park")
      /\ op[d].done => result'[d] = IF op[d].conn THEN "conn" ELSE "error"
      /\ \A e \in Dial \ {d} : /\ dialPc'[e] = dialPc[e] /\ result'[e] = result[e] /\ op'[e] = op[e]
                               /\ (e \in table' <=> e \in table)
      /\ d \notin table' => op[d].done /\ (~op[d].held \/ d \in released)
  BY <1>1, <1>3, <1>4, <1>5 DEF Types, Place, Erasable
<1>7. DialRight(d)'
  <2>1. /\ (Owned(d)' <=> Owned(d)) /\ (Adopted(d)' <=> Adopted(d))
        /\ (Queued(d)' <=> Queued(d))
    BY <1>1, SameTasks DEF Owned, Adopted
  <2>2. OnePlace(d)'
    BY <1>1, <1>2, <1>5, <1>6, <2>1 DEF OnePlace, Untold, Early
  <2>3. RecordThere(d)'
    BY <1>1, <1>2, <1>5, <1>6, <2>1 DEF RecordThere
  <2>4. CallerServed(d)'
    BY <1>1, <1>2, <1>5, <1>6, <2>1 DEF CallerServed, Early, Looking
  <2>5. HandlerTold(d)'
    BY <1>1, <1>3 DEF HandlerTold
  <2> QED BY <2>2, <2>3, <2>4, <2>5 DEF DialRight
<1> QED BY <1>1, <1>6, <1>7, DialCallerStep

\* A wait that ended: a result that is there is recycled.
LEMMA SettleEndedKeeps ==
  ASSUME EngineDialConstants, DialInv, NEW d \in Dial, SettleEnded(d)
  PROVE  DialInv'
<1> USE DEF DialInv
<1> DEFINE o == [op[d] EXCEPT !.waiting = FALSE]
<1>1. /\ dialPc[d] = "ended" /\ op' = [op EXCEPT ![d] = o] /\ dialWoken' = dialWoken \ {d}
      /\ asked' = IF o.done /\ o.conn THEN asked \cup {d} ELSE asked
      /\ \/ /\ o.done /\ table' = (IF Erasable(o, released, d) THEN table \ {d} ELSE table)
            /\ dialPc' = [dialPc EXCEPT ![d] = "done"] /\ result' = [result EXCEPT ![d] = "error"]
         \/ ~o.done /\ dialPc' = [dialPc EXCEPT ![d] = "abandon"] /\ table' = table /\ result' = result
      /\ UNCHANGED <<raw, shut, pend, calls, onZero, sealDone, owner, fd, released, dialTasks,
                     dialBound,
                     dialFailed, dialPhase, dialSealed, ctl, closer, told, retry>>
  BY DEF SettleEnded, Recycle, Erased, Reject, dialOwnerVars, driverVars, ctlVars
<1>2. OnePlace(d) /\ RecordThere(d) /\ CallerServed(d) /\ HandlerTold(d)
  BY DEF DialRight
<1>3. ~raw /\ d \in table /\ op[d] \in Op
  BY <1>1, <1>2 DEF HandlerTold, CallerServed, Early, Looking, Types
<1>4. /\ o \in Op /\ o.done = op[d].done /\ ~o.waiting /\ o.held = op[d].held
      /\ o.delivering = op[d].delivering /\ o.conn = op[d].conn
  BY <1>3 DEF Op
<1> HIDE DEF o
<1>5. /\ Types' /\ op'[d] = o
      /\ dialPc'[d] = (IF op[d].done THEN "done" ELSE "abandon")
      /\ op[d].done /\ op[d].conn => d \in asked'
      /\ d \in asked => d \in asked'
      /\ \A e \in Dial \ {d} : /\ dialPc'[e] = dialPc[e] /\ result'[e] = result[e] /\ op'[e] = op[e]
                               /\ (e \in table' <=> e \in table) /\ (e \in asked' <=> e \in asked)
      /\ d \notin table' => op[d].done /\ (~op[d].held \/ d \in released)
  BY <1>1, <1>3, <1>4 DEF Types, Place, Erasable
<1>6. DialRight(d)'
  <2>1. /\ (Owned(d)' <=> Owned(d)) /\ (Adopted(d)' <=> Adopted(d))
        /\ (Queued(d)' <=> Queued(d))
    BY <1>1, SameTasks DEF Owned, Adopted
  <2>2. OnePlace(d)'
    BY <1>1, <1>2, <1>4, <1>5, <2>1 DEF OnePlace, Untold, Early
  <2>3. RecordThere(d)'
    BY <1>1, <1>2, <1>4, <1>5, <2>1 DEF RecordThere
  <2>4. CallerServed(d)'
    BY <1>1, <1>2, <1>4, <1>5, <2>1 DEF CallerServed, Early, Looking
  <2>5. HandlerTold(d)'
    BY <1>1, <1>3 DEF HandlerTold
  <2> QED BY <2>2, <2>3, <2>4, <2>5 DEF DialRight
<1> QED BY <1>1, <1>5, <1>6, DialCallerStep

\* Who gives up looks once more, and otherwise leaves a sign.
LEMMA AbandonKeeps ==
  ASSUME EngineDialConstants, DialInv, NEW d \in Dial, Abandon(d)
  PROVE  DialInv'
<1> USE DEF DialInv
<1> DEFINE o == [op[d] EXCEPT !.waiting = FALSE, !.abandoned = ~op[d].done, !.cancel = @ \/ dialPc[d] = "abandon"]
<1>1. /\ dialPc[d] \in {"abandon", "forsake"} /\ op' = [op EXCEPT ![d] = o]
      /\ asked' = IF o.done /\ o.conn THEN asked \cup {d} ELSE asked
      /\ table' = IF o.done /\ o.conn /\ Erasable(o, released, d) THEN table \ {d} ELSE table
      /\ \/ dialPc' = [dialPc EXCEPT ![d] = "interrupt"] /\ result' = result
         \/ dialPc' = [dialPc EXCEPT ![d] = "done"] /\ result' = [result EXCEPT ![d] = "error"]
      /\ UNCHANGED <<raw, shut, pend, calls, onZero, sealDone, owner, fd, released, dialWoken,
                     dialTasks, dialBound,
                     dialFailed, dialPhase, dialSealed, ctl, closer, told, retry>>
  BY DEF Abandon, Recycle, Erased, Reject, dialOwnerVars, driverVars, ctlVars
<1>2. OnePlace(d) /\ RecordThere(d) /\ CallerServed(d) /\ HandlerTold(d)
  BY DEF DialRight
<1>3. ~raw /\ op[d] \in Op
  BY <1>1, <1>2 DEF HandlerTold, Early, Types
<1>4. /\ o \in Op /\ o.done = op[d].done /\ ~o.waiting /\ o.held = op[d].held
      /\ o.delivering = op[d].delivering /\ o.conn = op[d].conn /\ o.abandoned = ~op[d].done
  BY <1>3 DEF Op
<1> HIDE DEF o
<1>5. /\ Types' /\ op'[d] = o /\ dialPc'[d] \in {"interrupt", "done"}
      /\ op[d].done /\ op[d].conn => d \in asked'
      /\ d \in asked => d \in asked'
      /\ d \in table' => d \in table
      /\ \A e \in Dial \ {d} : /\ dialPc'[e] = dialPc[e] /\ result'[e] = result[e] /\ op'[e] = op[e]
                               /\ (e \in table' <=> e \in table) /\ (e \in asked' <=> e \in asked)
      /\ d \in table /\ d \notin table' => op[d].done /\ (~op[d].held \/ d \in released)
  BY <1>1, <1>3, <1>4 DEF Types, Place, Erasable
<1>6. DialRight(d)'
  <2>1. /\ (Owned(d)' <=> Owned(d)) /\ (Adopted(d)' <=> Adopted(d))
        /\ (Queued(d)' <=> Queued(d))
    BY <1>1, SameTasks DEF Owned, Adopted
  <2>2. OnePlace(d)'
    BY <1>1, <1>2, <1>4, <1>5, <2>1 DEF OnePlace, Untold, Early
  <2>3. RecordThere(d)'
    BY <1>1, <1>2, <1>4, <1>5, <2>1 DEF RecordThere
  <2>4. CallerServed(d)'
    BY <1>1, <1>2, <1>4, <1>5, <2>1 DEF CallerServed, Early, Looking
  <2>5. HandlerTold(d)'
    BY <1>1, <1>3 DEF HandlerTold
  <2> QED BY <2>2, <2>3, <2>4, <2>5 DEF DialRight
<1> QED BY <1>1, <1>5, <1>6, DialCallerStep

LEMMA InterruptKeeps ==
  ASSUME EngineDialConstants, DialInv, NEW d \in Dial, Interrupt(d)
  PROVE  DialInv'
<1> USE DEF DialInv
<1>1. /\ dialPc[d] = "interrupt" /\ dialPc' = [dialPc EXCEPT ![d] = "done"]
      /\ result' = [result EXCEPT ![d] = "error"]
      /\ \/ dialBound /\ dialTasks' = Append(dialTasks, [do |-> "cancel", dial |-> d]) /\ retry' = retry
         \/ retry' = TRUE /\ dialTasks' = dialTasks
      /\ UNCHANGED <<raw, table, op, shut, pend, calls, onZero, sealDone, owner, fd, asked,
                     released, dialWoken,
                     dialBound, dialFailed, dialPhase, dialSealed, ctl, closer, told>>
  BY DEF Interrupt, OpenForDials, Reject, tableVars, dialOwnerVars, fdVars, ctlVars
<1>2. OnePlace(d) /\ RecordThere(d) /\ CallerServed(d) /\ HandlerTold(d)
  BY DEF DialRight
<1>3. /\ TasksInOrder' /\ dialTasks' \in Seq(Task)
      /\ \A e \in Dial : Queued(e)' <=> Queued(e)
  <2>1. CASE dialTasks' = dialTasks
    BY <1>1, <2>1, SameTasks DEF Types
  <2>2. CASE dialTasks' = Append(dialTasks, [do |-> "cancel", dial |-> d])
    <3> DEFINE t == [do |-> "cancel", dial |-> d]
    <3>1. t \in Task /\ t.do = "cancel" /\ \A e \in Dial : t # Begin(e)
      BY DEF Task, Begin
    <3>2. dialTasks' = Append(dialTasks, t)
      BY <2>2
    <3> HIDE DEF t
    <3>3. /\ TasksInOrder' /\ dialTasks' \in Seq(Task)
          /\ \A e \in Dial : Queued(e)' <=> Queued(e) \/ t = Begin(e)
      BY <1>1, <3>1, <3>2, PostedTask
    <3> QED BY <3>1, <3>3
  <2> QED BY <1>1, <2>1, <2>2
<1>4. EndInOrder' /\ CallsCounted'
  BY <1>1, EndAndCountKept
<1>5. Types' /\ dialPc'[d] = "done" /\ \A e \in Dial \ {d} : dialPc'[e] = dialPc[e] /\ result'[e] = result[e]
  <2>1. /\ dialPc' \in [Dial -> Place] /\ result' \in [Dial -> {"none", "conn", "error"}]
        /\ dialPc'[d] = "done"
        /\ \A e \in Dial \ {d} : dialPc'[e] = dialPc[e] /\ result'[e] = result[e]
    BY <1>1 DEF Types, Place
  <2>2. retry' \in BOOLEAN
    BY <1>1 DEF Types
  <2> QED BY <1>1, <1>3, <2>1, <2>2 DEF Types
<1>6. ASSUME NEW e \in Dial \ {d} PROVE DialRight(e)'
  <2>1. Apart(e)
    BY <1>1, <1>3, <1>5, <1>6 DEF Apart, Owned
  <2> QED BY <1>5, <2>1, ApartKeeps
<1>7. DialRight(d)'
  <2>1. (Owned(d)' <=> Owned(d)) /\ (Adopted(d)' <=> Adopted(d)) /\ ~raw
    BY <1>1, <1>2 DEF Owned, Adopted, HandlerTold, Early
  <2>2. OnePlace(d)'
    BY <1>1, <1>2, <1>3, <1>5, <2>1 DEF OnePlace, Untold, Early
  <2>3. RecordThere(d)'
    BY <1>1, <1>2, <1>3, <1>5, <2>1 DEF RecordThere
  <2>4. CallerServed(d)'
    BY <1>1, <1>2, <1>5, <2>1 DEF CallerServed, Early, Looking
  <2>5. HandlerTold(d)'
    BY <1>1, <2>1 DEF HandlerTold
  <2> QED BY <2>2, <2>3, <2>4, <2>5 DEF DialRight
<1> QED BY <1>3, <1>4, <1>5, <1>6, <1>7

LEMMA UserCloseKeeps ==
  ASSUME EngineDialConstants, DialInv, NEW d \in Dial, UserClose(d)
  PROVE  DialInv'
<1> USE DEF DialInv
<1>1. /\ asked' = asked \cup {d}
      /\ UNCHANGED <<raw, table, op, shut, pend, calls, onZero, sealDone, owner, fd, released,
                     dialPc, dialWoken, result,
                     dialTasks, dialBound, dialFailed, dialPhase, dialSealed, ctl, closer, told,
                     retry>>
  BY DEF UserClose, tableVars, dialOwnerVars, callVars, driverVars, ctlVars
<1>2. Types'
  BY <1>1 DEF Types
<1>3. TasksInOrder' /\ \A e \in Dial : Queued(e)' <=> Queued(e)
  BY <1>1, SameTasks
<1>4. EndInOrder' /\ CallsCounted'
  BY <1>1, EndAndCountKept
<1>5. ASSUME NEW e \in Dial PROVE DialRight(e)'
  <2>1. Apart(e)
    BY <1>1, <1>3 DEF Apart, Owned
  <2> QED BY <1>2, <2>1, ApartKeeps
<1> QED BY <1>2, <1>3, <1>4, <1>5

-----------------------------------------------------------------------------
(***************************************************************************)
(* The steps of the end                                                    *)
(***************************************************************************)

\* A step of the end that does nothing to a dial.
LEMMA ControlStep ==
  ASSUME Types, Types', \A e \in Dial : DialRight(e),
         UNCHANGED <<raw, table, op, pend, sealDone, owner, fd, asked, released, dialPc, dialWoken,
                     result, told>>,
         dialSealed => dialSealed', dialBound' => dialBound, ctl' = "done" <=> ctl = "done",
         \A e \in Dial : (Queued(e)' => Queued(e)) /\ (dialBound' /\ Queued(e) => Queued(e)')
  PROVE  \A e \in Dial : DialRight(e)'
<1> SUFFICES ASSUME NEW e \in Dial PROVE DialRight(e)'
  OBVIOUS
<1>1. Apart(e)
  BY DEF Apart, Owned
<1> QED BY <1>1, ApartKeeps

\* The seal ends every dial that the owner is not delivering, and wakes who waits for it.
LEMMA SettlingKeeps ==
  ASSUME Types, \A e \in Dial : DialRight(e), TasksInOrder, SettleTable, dialSealed,
         UNCHANGED <<raw, dialSealed, shut, table, pend, calls, onZero, sealDone, owner, fd, asked,
                     released, dialPc, result,
                     dialTasks, dialBound, dialFailed, told, retry>>,
         dialPhase' \in {"Running", "Closing", "Stopped"}, ctl' \in CtlPlace, closer' \in {"idle",
         "settle", "done"},
         ctl' = "done" <=> ctl = "done"
  PROVE  Types' /\ TasksInOrder' /\ \A e \in Dial : DialRight(e)'
<1> DEFINE ended == {d \in table : ~op[d].done /\ ~op[d].delivering}
<1>1. /\ op' = [d \in Dial |-> IF d \in ended THEN [op[d] EXCEPT !.done = TRUE] ELSE op[d]]
      /\ dialWoken' = dialWoken \cup {d \in ended : dialPc[d] = "parked"}
  BY DEF SettleTable
<1>2. ASSUME NEW d \in Dial
      PROVE  /\ op[d] \in Op /\ op'[d] \in Op /\ op'[d].waiting = op[d].waiting
             /\ op'[d].held = op[d].held
             /\ op'[d].conn = op[d].conn /\ op'[d].abandoned = op[d].abandoned
             /\ op'[d].delivering = op[d].delivering
             /\ op[d].done => op'[d].done
             /\ op[d].delivering => op'[d].done = op[d].done
             /\ dialPc[d] = "parked" /\ d \notin dialWoken' => op'[d].done = op[d].done
  <2>1. op[d] \in Op
    BY DEF Types
  <2> DEFINE now == [op[d] EXCEPT !.done = TRUE]
  <2>2. /\ now \in Op /\ now.done /\ now.waiting = op[d].waiting /\ now.held = op[d].held
        /\ now.conn = op[d].conn
        /\ now.abandoned = op[d].abandoned /\ now.delivering = op[d].delivering
    BY <2>1 DEF Op
  <2>3. op'[d] = IF d \in ended THEN now ELSE op[d]
    BY <1>1
  <2>4. /\ d \in ended => ~op[d].delivering
        /\ d \in ended /\ dialPc[d] = "parked" => d \in dialWoken'
    BY <1>1
  <2> HIDE DEF now, ended
  <2> QED BY <2>1, <2>2, <2>3, <2>4
<1>3. op' \in [Dial -> Op] /\ dialWoken' \subseteq Dial /\ dialWoken \subseteq dialWoken'
  <2>1. ended \subseteq Dial /\ dialWoken \subseteq Dial
    BY DEF Types
  <2> HIDE DEF ended
  <2>2. DOMAIN op' = Dial /\ op' = [d \in Dial |-> op'[d]]
    BY <1>1
  <2> QED BY <1>1, <1>2, <2>1, <2>2
<1> HIDE DEF ended
<1>4. Types'
  BY <1>3 DEF Types
<1>5. TasksInOrder' /\ \A e \in Dial : Queued(e)' <=> Queued(e)
  BY SameTasks
<1>6. ASSUME NEW d \in Dial PROVE DialRight(d)'
  <2>1. OnePlace(d) /\ RecordThere(d) /\ CallerServed(d) /\ HandlerTold(d)
    BY DEF DialRight
  <2>2. (Owned(d)' <=> Owned(d)) /\ (Adopted(d)' <=> Adopted(d))
    BY DEF Owned, Adopted
  <2>3. OnePlace(d)'
    BY <1>2, <1>5, <2>1, <2>2 DEF OnePlace, Untold
  <2>4. RecordThere(d)'
    BY <2>1 DEF RecordThere
  <2>5. CallerServed(d)'
    BY <1>2, <1>3, <2>1, <2>2 DEF CallerServed
  <2>6. HandlerTold(d)'
    BY <1>2, <1>5, <2>1, <2>2 DEF HandlerTold
  <2> QED BY <2>3, <2>4, <2>5, <2>6 DEF DialRight
<1> QED BY <1>4, <1>5, <1>6

LEMMA RequestCloseKeeps ==
  ASSUME EngineDialConstants, DialInv, RequestCloseDials
  PROVE  DialInv'
<1> USE DEF DialInv
<1>1. UNCHANGED <<raw, dialPhase, ctl, table, shut, pend, calls, onZero, sealDone, owner, fd,
                  asked, released, dialPc,
                  result, dialTasks, dialBound, dialFailed, told, retry>>
  BY DEF RequestCloseDials, dialOwnerVars, fdVars, driverVars
<1>2. CASE dialSealed' = TRUE /\ closer' = "settle" /\ UNCHANGED <<op, dialWoken>>
  <2>1. Types'
    BY <1>1, <1>2 DEF Types
  <2>2. TasksInOrder' /\ \A e \in Dial : Queued(e)' <=> Queued(e)
    BY <1>1, <1>2, SameTasks
  <2>3. EndInOrder' /\ CallsCounted'
    BY <1>1, <1>2, CountKept DEF EndInOrder
  <2>4. \A e \in Dial : DialRight(e)'
    BY <1>1, <1>2, <2>1, <2>2, ControlStep
  <2> QED BY <2>1, <2>2, <2>3, <2>4
<1>3. CASE closer = "settle" /\ SettleTable /\ closer' = "done" /\ dialSealed' = dialSealed
  <2>1. dialSealed
    BY <1>3 DEF EndInOrder
  <2>2. dialPhase' \in {"Running", "Closing", "Stopped"} /\ ctl' \in CtlPlace /\ closer' \in {"idle", "settle", "done"}
    BY <1>1, <1>3 DEF Types
  <2>3. Types' /\ TasksInOrder' /\ \A e \in Dial : DialRight(e)'
    BY <1>1, <1>3, <2>1, <2>2, SettlingKeeps
  <2>4. EndInOrder' /\ CallsCounted'
    BY <1>1, <1>3, <2>1, CountKept DEF EndInOrder
  <2> QED BY <2>3, <2>4
<1> QED BY <1>2, <1>3 DEF RequestCloseDials

\* The control thread on its way: nothing is done to a dial.
LEMMA LeavingKeeps ==
  ASSUME EngineDialConstants, DialInv, DialDriverFails \/ LeaveDialLoop \/ AwaitSeal
  PROVE  DialInv'
<1> USE DEF DialInv
<1>1. /\ UNCHANGED <<raw, table, op, shut, pend, calls, onZero, sealDone, owner, fd, asked,
                     released, dialPc, dialWoken,
                     result, dialTasks, dialBound, told, retry>>
      /\ dialSealed => dialSealed'
      /\ \/ dialFailed' = TRUE /\ UNCHANGED <<dialPhase, dialSealed, ctl, closer>>
         \/ /\ ctl = "loop" /\ ctl' = "settle" /\ dialPhase' = "Closing" /\ dialSealed' = TRUE
            /\ closer' = closer /\ dialFailed' = dialFailed
         \/ ctl = "await" /\ ctl' = "unbind" /\ UNCHANGED <<dialPhase, dialSealed, closer,
                                                            dialFailed>>
  BY DEF DialDriverFails, LeaveDialLoop, AwaitSeal, tableVars, dialOwnerVars, fdVars, callVars,
      driverVars, ctlVars
<1>2. Types'
  <2>1. /\ dialFailed' \in BOOLEAN /\ dialSealed' \in BOOLEAN /\ ctl' \in CtlPlace /\ closer' = closer
        /\ dialPhase' \in {"Running", "Closing", "Stopped"}
    BY <1>1 DEF Types, CtlPlace
  <2> QED BY <1>1, <2>1 DEF Types
<1>3. TasksInOrder' /\ \A e \in Dial : Queued(e)' <=> Queued(e)
  BY <1>1, SameTasks
<1>4. EndInOrder'
  BY <1>1 DEF EndInOrder
<1>5. CallsCounted'
  BY <1>1 DEF CallsCounted, Waits
<1>6. \A e \in Dial : DialRight(e)'
  <2>1. ctl' = "done" <=> ctl = "done"
    BY <1>1
  <2> QED BY <1>1, <1>2, <1>3, <2>1, ControlStep
<1> QED BY <1>2, <1>3, <1>4, <1>5, <1>6

LEMMA SettleByRunKeeps ==
  ASSUME EngineDialConstants, DialInv, SettleByRun
  PROVE  DialInv'
<1> USE DEF DialInv
<1>1. /\ ctl = "settle" /\ SettleTable /\ ctl' \in {"unbind", "post"}
      /\ UNCHANGED <<raw, dialPhase, dialSealed, closer, table, shut, pend, calls, onZero,
                     sealDone, owner, fd, asked,
                     released, dialPc, result, dialTasks, dialBound, dialFailed, told, retry>>
  BY DEF SettleByRun, dialOwnerVars, fdVars, driverVars
<1>2. dialSealed
  BY <1>1 DEF EndInOrder
<1>3. Types' /\ TasksInOrder' /\ \A e \in Dial : DialRight(e)'
  <2>1. /\ dialPhase' \in {"Running", "Closing", "Stopped"} /\ ctl' \in CtlPlace
        /\ closer' \in {"idle", "settle", "done"} /\ (ctl' = "done" <=> ctl = "done")
    BY <1>1 DEF Types, CtlPlace
  <2> QED BY <1>1, <1>2, <2>1, SettlingKeeps
<1>4. EndInOrder'
  BY <1>1 DEF EndInOrder
<1>5. CallsCounted'
  BY <1>1 DEF CallsCounted, Waits
<1> QED BY <1>3, <1>4, <1>5

\* The control thread posts: the cancellation of what was given up, and the seal.
LEMMA PostingKeeps ==
  ASSUME EngineDialConstants, DialInv, RetryCancel \/ PostSeal
  PROVE  DialInv'
<1> USE DEF DialInv
<1>1. PICK t \in Task :
        /\ t.do \in {"cancelAll", "seal"} /\ dialTasks' = Append(dialTasks, t)
        /\ t.do = "seal" => ctl # "loop"
        /\ UNCHANGED <<raw, dialPhase, dialSealed, closer, table, op, shut, pend, calls, onZero,
                       sealDone, owner, fd, asked,
                       released, dialPc, dialWoken, result, dialBound, dialFailed, told>>
        /\ \/ ctl' = ctl /\ retry' = FALSE /\ ctl = "loop"
           \/ ctl = "post" /\ ctl' = "await" /\ retry' = retry
  <2>1. CASE RetryCancel
    <3>1. [do |-> "cancelAll"] \in Task
      BY DEF Task
    <3> QED BY <2>1, <3>1 DEF RetryCancel, tableVars, dialOwnerVars, fdVars, callVars, ctlVars
  <2>2. CASE PostSeal
    <3>1. [do |-> "seal"] \in Task
      BY DEF Task
    <3> QED BY <2>2, <3>1 DEF PostSeal, tableVars, dialOwnerVars, fdVars, callVars
  <2> QED BY <2>1, <2>2
<1>2. /\ TasksInOrder' /\ dialTasks' \in Seq(Task)
      /\ \A e \in Dial : Queued(e)' <=> Queued(e)
  <2>1. /\ t.do = "seal" => dialSealed
        /\ \A e \in Dial : t # Begin(e)
    BY <1>1 DEF EndInOrder, Begin
  <2>2. /\ TasksInOrder' /\ dialTasks' \in Seq(Task)
        /\ \A e \in Dial : Queued(e)' <=> Queued(e) \/ t = Begin(e)
    BY <1>1, <2>1, PostedTask
  <2> QED BY <2>1, <2>2
<1>3. Types'
  <2>1. ctl' \in CtlPlace /\ retry' \in BOOLEAN
    BY <1>1 DEF Types, CtlPlace
  <2> QED BY <1>1, <1>2, <2>1 DEF Types
<1>4. EndInOrder'
  BY <1>1 DEF EndInOrder
<1>5. CallsCounted'
  BY <1>1 DEF CallsCounted, Waits
<1>6. \A e \in Dial : DialRight(e)'
  <2>1. ctl' = "done" <=> ctl = "done"
    BY <1>1
  <2> QED BY <1>1, <1>2, <1>3, <2>1, ControlStep
<1> QED BY <1>2, <1>3, <1>4, <1>5, <1>6

LEMMA UnbindKeeps ==
  ASSUME EngineDialConstants, DialInv, UnbindDials
  PROVE  DialInv'
<1> USE DEF DialInv
<1>1. /\ ctl = "unbind" /\ owner = Idle /\ dialBound' = FALSE /\ dialTasks' = <<>> /\ ctl' = "finalize"
      /\ UNCHANGED <<raw, dialPhase, dialSealed, closer, table, op, shut, pend, calls, onZero,
                     sealDone, owner, fd, asked,
                     released, dialPc, dialWoken, result, dialFailed, told, retry>>
  BY DEF UnbindDials, tableVars, dialOwnerVars, fdVars, callVars
<1>2. dialTasks' \in Seq(Task) /\ Len(dialTasks') = 0 /\ TasksInOrder' /\ \A e \in Dial : ~Queued(e)'
  BY <1>1 DEF TasksInOrder, Queued
<1>3. Types'
  BY <1>1, <1>2 DEF Types, CtlPlace
<1>4. EndInOrder'
  BY <1>1 DEF EndInOrder
<1>5. CallsCounted'
  BY <1>1 DEF CallsCounted, Waits
<1>6. \A e \in Dial : DialRight(e)'
  <2>1. ctl' = "done" <=> ctl = "done"
    BY <1>1
  <2> QED BY <1>1, <1>2, <1>3, <2>1, ControlStep
<1> QED BY <1>2, <1>3, <1>4, <1>5, <1>6

\* The descriptors that are left are closed, with nothing of the owner running any more.
LEMMA FinalizeKeeps ==
  ASSUME EngineDialConstants, DialInv, FinalizeDials
  PROVE  DialInv'
<1> USE DEF DialInv
<1>1. /\ ctl = "finalize" /\ ctl' = "settleRecords" /\ shut' = TRUE
      /\ fd' = [d \in Dial |-> IF fd[d] \in {"connecting", "conn"} THEN "closed" ELSE fd[d]]
      /\ pend' = [d \in Dial |-> "no"] /\ released' = released \cup {d \in Dial : fd[d] = "conn"}
      /\ UNCHANGED <<raw, dialPhase, dialSealed, closer, table, op, calls, onZero, sealDone, owner,
                     asked, dialPc, dialWoken, result,
                     dialTasks, dialBound, dialFailed, told, retry>>
  BY DEF FinalizeDials, tableVars, callVars, driverVars
<1>2. ~dialBound /\ dialTasks = <<>> /\ owner = Idle /\ dialSealed
  BY <1>1 DEF EndInOrder
<1>3. Len(dialTasks') = 0 /\ TasksInOrder' /\ \A e \in Dial : ~Queued(e)'
  BY <1>1, <1>2 DEF TasksInOrder, Queued
<1>4. /\ fd' \in [Dial -> Descriptor] /\ pend' \in [Dial -> {"no", "waiting", "canceled"}]
      /\ released' \subseteq Dial
      /\ \A e \in Dial : /\ pend'[e] = "no" /\ fd'[e] \in {"none", "closed"}
                         /\ fd[e] = "none" => fd'[e] = "none"
                         /\ e \in released' <=> e \in released \/ fd[e] = "conn"
  BY <1>1 DEF Types, Descriptor
<1>5. Types'
  BY <1>1, <1>4 DEF Types, CtlPlace
<1>6. EndInOrder'
  BY <1>1, <1>2, <1>4 DEF EndInOrder
<1>7. CallsCounted'
  BY <1>1 DEF CallsCounted
<1>8. ASSUME NEW d \in Dial PROVE DialRight(d)'
  <2>1. OnePlace(d) /\ RecordThere(d) /\ CallerServed(d) /\ HandlerTold(d)
    BY DEF DialRight
  <2>2. ~Owned(d)' /\ ~Adopted(d)'
    BY <1>1, <1>2 DEF Owned, Adopted
  <2>3. OnePlace(d)'
    BY <1>1, <1>3, <1>4, <2>1, <2>2 DEF OnePlace
  <2>4. RecordThere(d)'
    BY <1>1, <1>2, <2>1 DEF RecordThere
  <2>5. CallerServed(d)'
    BY <1>1, <1>4, <2>1 DEF CallerServed
  <2>6. HandlerTold(d)'
    BY <1>1, <1>2, <1>4, <2>1 DEF HandlerTold
  <2> QED BY <2>3, <2>4, <2>5, <2>6 DEF DialRight
<1> QED BY <1>3, <1>5, <1>6, <1>7, <1>8

\* Every record that is left says released: no descriptor is open.
LEMMA SettleRecordsKeeps ==
  ASSUME EngineDialConstants, DialInv, SettleRecords
  PROVE  DialInv'
<1> USE DEF DialInv
<1>1. /\ ctl = "settleRecords" /\ ctl' = "done" /\ dialPhase' = "Stopped"
      /\ released' = released \cup {d \in table : op[d].held}
      /\ table' = {d \in table : ~op[d].done \/ op[d].waiting}
      /\ UNCHANGED <<raw, dialSealed, closer, op, shut, pend, calls, onZero, sealDone, owner, fd,
                     asked, dialPc, dialWoken, result,
                     dialTasks, dialBound, dialFailed, told, retry>>
  BY DEF SettleRecords, dialOwnerVars, callVars, driverVars
<1>2. /\ ~dialBound /\ dialTasks = <<>> /\ owner = Idle /\ dialSealed
      /\ \A d \in Dial : pend[d] = "no" /\ fd[d] \in {"none", "closed"}
  BY <1>1 DEF EndInOrder
<1>3. Len(dialTasks') = 0 /\ TasksInOrder' /\ \A e \in Dial : ~Queued(e)'
  BY <1>1, <1>2 DEF TasksInOrder, Queued
<1>4. Types'
  BY <1>1 DEF Types, CtlPlace
<1>5. EndInOrder'
  BY <1>1, <1>2 DEF EndInOrder
<1>6. CallsCounted'
  BY <1>1 DEF CallsCounted
<1>7. ASSUME NEW d \in Dial PROVE DialRight(d)'
  <2>1. OnePlace(d) /\ RecordThere(d) /\ CallerServed(d) /\ HandlerTold(d)
    BY DEF DialRight
  <2>2. ~Owned(d)' /\ ~Adopted(d)'
    BY <1>1, <1>2 DEF Owned, Adopted
  <2>3. OnePlace(d)'
    BY <1>1, <1>2, <1>3, <2>1, <2>2 DEF OnePlace
  <2>4. RecordThere(d)'
    BY <1>1, <1>2, <2>1 DEF RecordThere
  <2>5. CallerServed(d)'
    BY <1>1, <1>2, <2>1 DEF CallerServed
  <2>6. HandlerTold(d)'
    BY <1>1, <1>2, <2>1 DEF HandlerTold
  <2> QED BY <2>3, <2>4, <2>5, <2>6 DEF DialRight
<1> QED BY <1>3, <1>4, <1>5, <1>6, <1>7

-----------------------------------------------------------------------------
(***************************************************************************)
(* The theorems                                                            *)
(***************************************************************************)

LEMMA DialInitially ==
  ASSUME EngineDialConstants, DialInit
  PROVE  DialInv
<1>1. Types
  <2>1. Fresh \in Op
    BY DEF DialInit, Fresh, Op
  <2>2. dialTasks \in Seq(Task) /\ owner \in OwnerAt
    BY DEF DialInit, OwnerAt
  <2>3. /\ op \in [Dial -> Op] /\ pend \in [Dial -> {"no", "waiting", "canceled"}]
        /\ fd \in [Dial -> Descriptor] /\ told \in [Dial -> 0 .. 1] /\ dialPc \in [Dial -> Place]
        /\ result \in [Dial -> {"none", "conn", "error"}]
    BY <2>1 DEF DialInit, Descriptor, Place
  <2> QED BY <2>2, <2>3 DEF DialInit, Types, CtlPlace
<1>2. Len(dialTasks) = 0 /\ \A d \in Dial : ~Queued(d) /\ ~Owned(d) /\ ~Adopted(d)
  BY DEF DialInit, Queued, Owned, Adopted
<1>3. EndInOrder
  BY DEF DialInit, EndInOrder
<1>4. TasksInOrder
  BY <1>2 DEF TasksInOrder
<1>5. CallsCounted
  <2>1. Waits = {} /\ Cardinality(Dial) \in Nat
    BY WaitsFinite DEF DialInit, Waits
  <2>2. Cardinality(Waits) = 0
    BY <2>1, FS_EmptySet
  <2> QED BY <2>1, <2>2 DEF DialInit, CallsCounted
<1>6. ASSUME NEW d \in Dial PROVE DialRight(d)
  <2>1. op[d].held = ~raw /\ op[d].waiting = ~raw /\ ~op[d].done
    BY DEF DialInit, Fresh
  <2>2. OnePlace(d)
    BY <1>2 DEF DialInit, OnePlace, Early
  <2>3. RecordThere(d)
    BY <1>2 DEF DialInit, RecordThere
  <2>4. CallerServed(d)
    BY <2>1 DEF DialInit, CallerServed, Early, Looking
  <2>5. HandlerTold(d)
    BY <2>1 DEF DialInit, HandlerTold, Early
  <2> QED BY <2>2, <2>3, <2>4, <2>5 DEF DialRight
<1> QED BY <1>1, <1>3, <1>4, <1>5, <1>6 DEF DialInv

\* A step in which nothing moves.
LEMMA DialStutters ==
  ASSUME EngineDialConstants, DialInv, UNCHANGED dialVars
  PROVE  DialInv'
<1> USE DEF DialInv
<1>1. UNCHANGED <<raw, dialPhase, dialSealed, table, op, dialTasks, dialBound, dialFailed, shut,
                  pend, calls, onZero, sealDone, owner,
                  fd, asked, released, told, dialPc, dialWoken, result, retry, ctl, closer>>
  BY DEF dialVars, tableVars, dialOwnerVars, fdVars, callVars, driverVars, ctlVars
<1>2. Types'
  BY <1>1 DEF Types
<1>3. TasksInOrder' /\ \A e \in Dial : Queued(e)' <=> Queued(e)
  BY <1>1, SameTasks
<1>4. EndInOrder' /\ CallsCounted'
  BY <1>1, EndAndCountKept
<1>5. \A e \in Dial : DialRight(e)'
  BY <1>1, <1>2, <1>3, ControlStep
<1> QED BY <1>2, <1>3, <1>4, <1>5

LEMMA DialStep ==
  ASSUME EngineDialConstants, DialInv, [DialNext]_dialVars
  PROVE  DialInv'
<1>1. CASE \E d \in Dial : DialCaller(d)
  <2>1. PICK d \in Dial : DialCaller(d)
    BY <1>1
  <2>2. CASE SubmitDial(d) \/ Insert(d) \/ Post(d)
    BY <2>2, SubmitKeeps, InsertKeeps, PostKeeps
  <2>3. CASE LookForResult(d) \/ SettleEnded(d) \/ Abandon(d)
    BY <2>3, LookKeeps, SettleEndedKeeps, AbandonKeeps
  <2>4. CASE ParkDial(d) \/ ResumeDial(d) \/ EndWait(d)
    BY <2>4, WaitingKeeps
  <2>5. CASE Interrupt(d) \/ UserClose(d)
    BY <2>5, InterruptKeeps, UserCloseKeeps
  <2> QED BY <2>1, <2>2, <2>3, <2>4, <2>5 DEF DialCaller
<1>2. CASE OwnerSteps
  <2>1. CASE BeginConnect \/ StartSealed \/ StartSocket
    BY <2>1, BeginConnectKeeps, StartSealedKeeps, StartSocketKeeps
  <2>2. CASE AuthoriseDial \/ Deliver
    BY <2>2, AuthoriseKeeps, DeliverKeeps
  <2>3. CASE CancelConnect \/ CancelAllRequested \/ SealOwner
    BY <2>3, CancelConnectKeeps, CancelAllRequestedKeeps, SealOwnerKeeps
  <2>4. CASE \E d \in Dial : ConnectFails(d) \/ AdoptDial(d) \/ CloseConn(d)
    BY <2>4, ConnectFailsKeeps, AdoptKeeps, CloseConnKeeps
  <2> QED BY <1>2, <2>1, <2>2, <2>3, <2>4 DEF OwnerSteps
<1>3. CASE Control
  <2>1. CASE RetryCancel \/ PostSeal
    BY <2>1, PostingKeeps
  <2>2. CASE LeaveDialLoop \/ AwaitSeal
    BY <2>2, LeavingKeeps
  <2>3. CASE SettleByRun \/ UnbindDials
    BY <2>3, SettleByRunKeeps, UnbindKeeps
  <2>4. CASE FinalizeDials \/ SettleRecords
    BY <2>4, FinalizeKeeps, SettleRecordsKeeps
  <2> QED BY <1>3, <2>1, <2>2, <2>3, <2>4 DEF Control
<1>4. CASE RequestCloseDials
  BY <1>4, RequestCloseKeeps
<1>5. CASE DialDriverFails
  BY <1>5, LeavingKeeps
<1>6. CASE UNCHANGED dialVars
  BY <1>6, DialStutters
<1> QED BY <1>1, <1>2, <1>3, <1>4, <1>5, <1>6 DEF DialNext

\* The inductive invariant of the connect operations: every dial is in one place of the owner's or in
\* none, its record is there while it can still connect, and who waits for it is served
\* (CoDial, BeginConnectOnOwner, ResolveConnect).
THEOREM DialAlways ==
  ASSUME EngineDialConstants
  PROVE  DialSpec => []DialInv
<1>1. DialInit => DialInv
  BY DialInitially
<1>2. DialInv /\ [DialNext]_dialVars => DialInv'
  BY DialStep
<1> QED BY <1>1, <1>2, PTL DEF DialSpec

\* Receipts, callbacks and the seal tell the same of every dial, for any number of dials: a receipt that
\* says released is right, at Stopped it says so, and the seal waits for exactly the callbacks
\* that are still to come (MarkReclaimReleased, FinalizeControl, FinishConnectCallback).
THEOREM DialsEndExactly ==
  ASSUME EngineDialConstants
  PROVE  DialSpec => []DialExact
<1>1. ASSUME DialInv PROVE DialTypeOK
  <2>1. 0 .. Cardinality(Dial) \subseteq Nat /\ Cardinality(Dial) \in Nat
    BY WaitsFinite
  <2> QED BY <1>1, <2>1 DEF DialInv, Types, CallsCounted, DialTypeOK
<1>2. ASSUME DialInv PROVE ReceiptExact
  <2>1. ASSUME NEW d \in Dial, d \in released PROVE fd[d] \in {"none", "closed"}
    <3>1. fd[d] \in Descriptor /\ OnePlace(d)
      BY <1>2 DEF DialInv, Types, DialRight
    <3> QED BY <2>1, <3>1 DEF OnePlace, Untold, Descriptor
  <2>2. ASSUME dialPhase = "Stopped", NEW d \in Dial
        PROVE  /\ fd[d] \in {"none", "closed"}
               /\ ~raw /\ dialPc[d] \notin {"idle", "insert", "post"} => d \in released
    <3>1. ctl = "done" /\ fd[d] \in {"none", "closed"} /\ CallerServed(d)
      BY <1>2, <2>2 DEF DialInv, EndInOrder, DialRight
    <3> QED BY <3>1 DEF CallerServed, Early
  <2>3. released \subseteq Dial
    BY <1>2 DEF DialInv, Types
  <2> QED BY <2>1, <2>2, <2>3 DEF ReceiptExact
<1>3. ASSUME DialInv PROVE SealExact
  <2>1. EndInOrder /\ CallsCounted /\ raw \in BOOLEAN
    BY <1>3 DEF DialInv, Types
  <2>2. dialBound => calls = Cardinality({d \in Dial : pend[d] # "no"}) + IF owner = Idle THEN 0 ELSE 1
    BY <2>1 DEF EndInOrder, CallsCounted, Waits
  <2>3. \A d \in Dial : raw /\ sealDone /\ dialPc[d] = "accepted" => told[d] = 1
    BY <1>3 DEF DialInv, DialRight, HandlerTold
  <2> QED BY <2>1, <2>2, <2>3 DEF SealExact, CallsCounted
<1>4. DialInv => DialExact
  BY <1>1, <1>2, <1>3 DEF DialExact
<1> QED BY <1>4, DialAlways, PTL

\* A connected descriptor has a receiver, for any number of dials, whatever the caller, the owner and
\* the seal do meanwhile (CoWaitConnect against ResolveConnect and SealService).
THEOREM DialsFindReceivers ==
  ASSUME EngineDialConstants
  PROVE  DialSpec => []NoOrphan
<1>1. ASSUME DialInv, NEW d \in Dial
      PROVE  /\ fd[d] = "conn" /\ owner = Idle /\ d \notin asked =>
                  IF raw THEN told[d] = 1 ELSE dialPc[d] # "done" \/ result[d] = "conn"
             /\ told[d] <= 1
             /\ dialPc[d] = "parked" /\ d \notin dialWoken => ~op[d].done
  <2>1. CallerServed(d) /\ HandlerTold(d) /\ told[d] \in 0 .. 1 /\ raw \in BOOLEAN
    BY <1>1 DEF DialInv, DialRight, Types
  <2>2. owner = Idle => ~Adopted(d)
    BY DEF Adopted
  <2>3. dialPc[d] = "parked" => ~raw
    BY <2>1 DEF HandlerTold, Early
  <2> QED BY <2>1, <2>2, <2>3 DEF CallerServed, HandlerTold, Looking
<1>2. DialInv => NoOrphan
  BY <1>1 DEF NoOrphan
<1> QED BY <1>2, DialAlways, PTL
=============================================================================
