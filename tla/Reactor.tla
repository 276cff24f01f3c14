------------------------------- MODULE Reactor -------------------------------
(***************************************************************************)
(* The connections of one reactor: the registry that owns them, the        *)
(* intrusive dirty list through which other threads ask the owner to pump  *)
(* one, and the ways a connection leaves: RemoveConn, SealServiceOnOwner   *)
(* and FinalizeControl.                                                    *)
(*                                                                         *)
(* The list holds raw pointers.  A connection lives as long as the         *)
(* registry or an actor inside a call holds it; the threads get hold of it *)
(* through a weak pointer.                                                 *)
(***************************************************************************)
EXTENDS Naturals, Sequences, FiniteSets, SequencesExt

CONSTANTS
  Conn,        \* connections the reactor may adopt
  Thread,      \* threads that write, read or close
  ReactorOwner,       \* the thread of the reactor
  None

\* What the parameters have to be; assumed wherever they are given values.
ReactorConstants ==
  /\ ReactorOwner \notin Thread /\ None \notin Conn
  /\ IsFiniteSet(Conn)

Actor == Thread \cup {ReactorOwner}

VARIABLES
  adopted,     \* connections created so far
  registered,  \* the keys of m_conns
  connCount,   \* conn_count of the engine
  list,        \* the dirty list from m_dirty_head to m_dirty_tail
  queued,      \* connections with m_dirty_queued
  implSealed,  \* service_sealed of the engine
  sealed,      \* m_sealed of the reactor
  reactorClosed,      \* connections with m_closed
  work,        \* connections with something for the owner to do
  mark,        \* the MarkDirty every actor is in
  reactorOpc,         \* where the owner is
  cur,         \* the connection it is busy with
  then         \* where ShutdownOwner or a pump returns to

listVars  == <<list, queued>>
regVars   == <<adopted, registered, connCount>>
sealVars  == <<implSealed, sealed>>
reactorOwnVars   == <<reactorOpc, cur, then>>
reactorVars == <<regVars, listVars, sealVars, reactorClosed, work, mark, reactorOwnVars>>

NoMark == [pc |-> "idle", conn |-> None]
Marking(pc, c) == [pc |-> pc, conn |-> c]

ReactorInit ==
  /\ adopted = {} /\ registered = {} /\ connCount = 0
  /\ list = <<>> /\ queued = {}
  /\ implSealed = FALSE /\ sealed = FALSE
  /\ reactorClosed = {} /\ work = {}
  /\ mark = [a \in Actor |-> NoMark]
  /\ reactorOpc = "idle" /\ cur = None /\ then = "idle"

Held(c) == (cur = c /\ reactorOpc # "find") \/ \E a \in Actor : mark[a].conn = c
Alive(c) == c \in registered \/ Held(c)

-----------------------------------------------------------------------------
(***************************************************************************)
(* MarkDirty, in three steps: the early checks, the compare-exchange of    *)
(* m_dirty_queued, and the linking under m_dirty_mutex and m_mutex.        *)
(***************************************************************************)
markRest == <<regVars, sealVars, reactorClosed, work, reactorOwnVars>>

\* A thread does something the owner must see (a write, room in the ring, a
\* close) and wakes it.
Ask(t, c) ==
  /\ mark[t].pc = "idle" /\ c \in adopted /\ Alive(c)
  /\ work' = work \cup {c}
  /\ mark' = [mark EXCEPT ![t] = Marking("check", c)]
  /\ UNCHANGED <<regVars, listVars, sealVars, reactorClosed, reactorOwnVars>>

MarkCheck(a) ==
  /\ mark[a].pc = "check"
  /\ mark' = [mark EXCEPT ![a] = IF sealed \/ implSealed THEN NoMark
                                 ELSE Marking("exchange", mark[a].conn)]
  /\ UNCHANGED <<listVars, markRest>>

MarkExchange(a) ==
  LET c == mark[a].conn IN
  /\ mark[a].pc = "exchange"
  /\ queued' = queued \cup {c}
  /\ mark' = [mark EXCEPT ![a] = IF c \in queued THEN NoMark ELSE Marking("link", c)]
  /\ UNCHANGED <<list, markRest>>

\* Slip: a refused node keeps its flag.
MarkLinkKeepsFlag(a) ==
  LET c == mark[a].conn IN
  /\ mark[a].pc = "link"
  /\ list' = IF ~sealed /\ c \in registered THEN Append(list, c) ELSE list
  /\ mark' = [mark EXCEPT ![a] = NoMark]
  /\ UNCHANGED <<queued, markRest>>

MarkLink(a) ==
  LET c == mark[a].conn IN
  /\ mark[a].pc = "link"
  /\ IF ~sealed /\ c \in registered
     THEN list' = Append(list, c) /\ UNCHANGED queued
     ELSE queued' = queued \ {c} /\ UNCHANGED list
  /\ mark' = [mark EXCEPT ![a] = NoMark]
  /\ UNCHANGED markRest

-----------------------------------------------------------------------------
(***************************************************************************)
(* The owner: adopting, pumping, removing.                                 *)
(***************************************************************************)
OwnerFree == mark[ReactorOwner].pc = "idle"

\* Slip: counted by the acceptor and by the owner.
AdoptCountsTwice(c) ==
  /\ reactorOpc = "idle" /\ OwnerFree /\ ~sealed /\ ~implSealed /\ c \notin adopted
  /\ adopted' = adopted \cup {c} /\ registered' = registered \cup {c}
  /\ connCount' = connCount + 2
  /\ reactorOpc' = "core" /\ cur' = c /\ then' = "idle"
  /\ UNCHANGED <<listVars, sealVars, reactorClosed, work, mark>>

\* AdoptFdOnOwner; it ends in StartOwner, which pumps the connection but does
\* not look at it again afterwards.
Adopt(c) ==
  /\ reactorOpc = "idle" /\ OwnerFree /\ ~sealed /\ ~implSealed /\ c \notin adopted
  /\ adopted' = adopted \cup {c} /\ registered' = registered \cup {c}
  /\ connCount' = connCount + 1
  /\ reactorOpc' = "core" /\ cur' = c /\ then' = "idle"
  /\ UNCHANGED <<listVars, sealVars, reactorClosed, work, mark>>

\* The service was sealed while the connection was being built: CancelControl
\* and, for an accepted one, RemoveConn.
AdoptSealed(c) ==
  /\ reactorOpc = "idle" /\ OwnerFree /\ ~sealed /\ implSealed /\ c \notin adopted
  /\ adopted' = adopted \cup {c} /\ registered' = registered \cup {c}
  /\ connCount' = connCount + 1
  /\ reactorOpc' = "shut" /\ cur' = c /\ then' \in {"after", "idle"}
  /\ UNCHANGED <<listVars, sealVars, reactorClosed, work, mark>>

\* PumpOwner of the reactor: unlink the head, then look it up.
Pop ==
  /\ reactorOpc = "idle" /\ OwnerFree /\ list # <<>>
  /\ list' = Tail(list) /\ queued' = queued \ {Head(list)}
  /\ cur' = Head(list) /\ reactorOpc' = "find" /\ then' = "after"
  /\ UNCHANGED <<regVars, sealVars, reactorClosed, work, mark>>

Find ==
  /\ reactorOpc = "find"
  /\ reactorOpc' = IF cur \in registered THEN "core" ELSE "idle"
  /\ cur' = IF cur \in registered THEN cur ELSE None
  /\ UNCHANGED <<regVars, listVars, sealVars, reactorClosed, work, mark, then>>

\* PumpOwner of the connection: nothing for a closed one, shut it down or
\* serve it and, with a spent budget, ask for another turn.
Return == reactorOpc' = then /\ cur' = IF then = "idle" THEN None ELSE cur

Serve ==
  /\ reactorOpc = "core"
  /\ Return
  /\ \/ /\ work' = IF cur \in reactorClosed THEN work ELSE work \ {cur}
        /\ UNCHANGED mark
     \/ /\ cur \notin reactorClosed
        /\ mark' = [mark EXCEPT ![ReactorOwner] = Marking("check", cur)]
        /\ work' = work \cup {cur}
  /\ UNCHANGED <<regVars, listVars, sealVars, reactorClosed, then>>

ServeCloses ==
  /\ reactorOpc = "core" /\ cur \notin reactorClosed
  /\ reactorOpc' = "shut"
  /\ UNCHANGED <<regVars, listVars, sealVars, reactorClosed, work, mark, cur, then>>

\* An armed wait fails: ShutdownOwner from the handler.
WaitFails(c) ==
  /\ reactorOpc = "idle" /\ OwnerFree /\ c \in registered /\ c \notin reactorClosed
  /\ reactorOpc' = "shut" /\ cur' = c /\ then' = "idle"
  /\ UNCHANGED <<regVars, listVars, sealVars, reactorClosed, work, mark>>

\* Slip: closing does not ask for the turn that removes the connection.
ShutdownSilent ==
  /\ reactorOpc = "shut"
  /\ mark' = mark
  /\ reactorOpc' = "shutting"
  /\ UNCHANGED <<regVars, listVars, sealVars, reactorClosed, work, cur, then>>

\* ShutdownOwner and CancelControl: MarkClosed wakes the owner, then m_closed.
Shutdown ==
  /\ reactorOpc = "shut"
  /\ mark' = [mark EXCEPT ![ReactorOwner] = Marking("check", cur)]
  /\ reactorOpc' = "shutting"
  /\ UNCHANGED <<regVars, listVars, sealVars, reactorClosed, work, cur, then>>

ShutdownDone ==
  /\ reactorOpc = "shutting" /\ OwnerFree
  /\ reactorClosed' = reactorClosed \cup {cur} /\ work' = work \ {cur}
  /\ Return
  /\ UNCHANGED <<regVars, listVars, sealVars, mark, then>>

\* Slip: the node stays in the list when the connection goes.
RemoveConnLeavesNode(c) ==
  /\ queued' = queued \ {c} /\ UNCHANGED list
  /\ registered' = registered \ {c}
  /\ connCount' = connCount - 1

\* RemoveConn unlinks and erases in one critical section.
RemoveConn(c) ==
  /\ list' = RemoveFirst(list, c)
  /\ queued' = queued \ {c}
  /\ registered' = registered \ {c}
  /\ connCount' = connCount - 1

After ==
  /\ reactorOpc = "after" /\ OwnerFree
  /\ IF cur \in reactorClosed THEN RemoveConn(cur)
     ELSE UNCHANGED <<listVars, registered, connCount>>
  /\ reactorOpc' = "idle" /\ cur' = None
  /\ UNCHANGED <<adopted, sealVars, reactorClosed, work, mark, then>>

-----------------------------------------------------------------------------
(***************************************************************************)
(* Sealing.                                                                *)
(***************************************************************************)
Seal ==
  /\ ~implSealed
  /\ implSealed' = TRUE
  /\ UNCHANGED <<regVars, listVars, sealed, reactorClosed, work, mark, reactorOwnVars>>

UnlinkAll == list' = <<>> /\ queued' = queued \ ToSet(list)

\* SealServiceOnOwner: empty the list, set m_sealed, then end the connections
\* one by one, each erased without another look at the list.
SealUnlink ==
  /\ reactorOpc = "idle" /\ OwnerFree /\ implSealed /\ ~sealed
  /\ UnlinkAll
  /\ reactorOpc' = "sealFlag"
  /\ UNCHANGED <<regVars, sealVars, reactorClosed, work, mark, cur, then>>

SealFlag ==
  /\ reactorOpc = "sealFlag"
  /\ sealed' = TRUE
  /\ reactorOpc' = "sealNext"
  /\ UNCHANGED <<regVars, listVars, implSealed, reactorClosed, work, mark, cur, then>>

SealNext ==
  /\ reactorOpc = "sealNext"
  /\ IF registered = {} THEN reactorOpc' = "idle" /\ UNCHANGED cur
     ELSE \E c \in registered :
            cur' = c /\ reactorOpc' = IF c \in reactorClosed THEN "sealErase" ELSE "shut"
  /\ then' = "sealErase"
  /\ connCount' = IF registered = {} THEN 0 ELSE connCount
  /\ UNCHANGED <<adopted, registered, listVars, sealVars, reactorClosed, work, mark>>

SealErase ==
  /\ reactorOpc = "sealErase"
  /\ registered' = registered \ {cur}
  /\ reactorOpc' = "sealNext" /\ cur' = None
  /\ UNCHANGED <<adopted, connCount, listVars, sealVars, reactorClosed, work, mark, then>>

\* FinalizeControl, once the owner is unbound: the same from the control
\* thread, and nothing looks at the list afterwards.
FinalizeUnlink ==
  /\ reactorOpc = "idle" /\ OwnerFree /\ implSealed
  /\ UnlinkAll
  /\ reactorOpc' = "finalize"
  /\ UNCHANGED <<regVars, sealVars, reactorClosed, work, mark, cur, then>>

Finalize ==
  /\ reactorOpc = "finalize"
  /\ sealed' = TRUE
  /\ reactorClosed' = reactorClosed \cup registered /\ work' = work \ registered
  /\ registered' = {} /\ connCount' = 0
  /\ reactorOpc' = "gone"
  /\ UNCHANGED <<adopted, listVars, implSealed, mark, cur, then>>

-----------------------------------------------------------------------------
MarkStep(a) == MarkCheck(a) \/ MarkExchange(a) \/ MarkLink(a)

ReactorStep ==
  \/ Pop \/ Find \/ Serve \/ ServeCloses \/ Shutdown \/ ShutdownDone \/ After
  \/ SealUnlink \/ SealFlag \/ SealNext \/ SealErase
  \/ FinalizeUnlink \/ Finalize

ReactorNext ==
  \/ \E t \in Thread, c \in Conn : Ask(t, c)
  \/ \E a \in Actor : MarkStep(a)
  \/ \E c \in Conn : Adopt(c) \/ AdoptSealed(c) \/ WaitFails(c)
  \/ ReactorStep \/ Seal

ReactorSpec == ReactorInit /\ [][ReactorNext]_reactorVars

-----------------------------------------------------------------------------
(***************************************************************************)
(* Properties.                                                             *)
(***************************************************************************)
\* Type invariant of the registry, of the dirty list and of the calls in progress.
ReactorTypeOK ==
  /\ adopted \subseteq Conn /\ registered \subseteq adopted
  /\ connCount \in 0..Cardinality(Conn)
  /\ list \in Seq(Conn) /\ queued \subseteq Conn
  /\ implSealed \in BOOLEAN /\ sealed \in BOOLEAN
  /\ reactorClosed \subseteq adopted /\ work \subseteq adopted
  /\ mark \in [Actor -> [pc : {"idle", "check", "exchange", "link"},
                         conn : Conn \cup {None}]]
  /\ reactorOpc \in {"idle", "find", "core", "shut", "shutting", "after", "sealFlag",
              "sealNext", "sealErase", "finalize", "gone"}
  /\ cur \in Conn \cup {None} /\ then \in {"idle", "after", "sealErase"}

\* m_dirty_queued is exact for registered connections: it is set for the linked
\* ones and for those one actor is about to link, so no node is linked twice
\* (which would make the intrusive list a cycle) and none is barred for ever.
QueuedExact ==
  /\ \A i, j \in DOMAIN list : list[i] = list[j] => i = j
  /\ \A c \in registered :
       LET linkers == { a \in Actor : mark[a] = Marking("link", c) } IN
       c \in queued <=> \/ c \in ToSet(list) /\ linkers = {}
                        \/ c \notin ToSet(list) /\ Cardinality(linkers) = 1

\* Until the service is sealed the list never holds a connection that is not
\* in the registry ("a late Wake must not link the raw pointer of a destroyed
\* core", MarkDirty; "unlinked and erased in one lock domain", RemoveConn),
\* and conn_count is the number of connections in it.
RegistryExact ==
  ~implSealed => ToSet(list) \subseteq registered /\ connCount = Cardinality(registered)

\* The list, its flags, the registry and its count agree.
ListsExact == ReactorTypeOK /\ QueuedExact /\ RegistryExact

\* Comments of MarkDirty and of SealServiceOnOwner: no raw node of the list is
\* ever left dangling while somebody may still walk the list.
LinkedAlive == reactorOpc # "gone" => \A c \in ToSet(list) : Alive(c)

\* No lost wake: what a thread left for the owner to do, and a closed
\* connection that still has to be removed, always has a turn on its way.
TurnComing(c) ==
  \/ c \in ToSet(list)
  \/ \E a \in Actor : mark[a].conn = c
  \/ cur = c /\ reactorOpc \in {"find", "core", "shut", "shutting", "after"}
NoLostTurn ==
  ~implSealed => \A c \in registered \cap (work \cup reactorClosed) : TurnComing(c)
=============================================================================
