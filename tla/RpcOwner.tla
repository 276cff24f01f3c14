------------------------------ MODULE RpcOwner ------------------------------
(***************************************************************************)
(* The owner of RPC links and the server that shares it: concurrent calls  *)
(* that find or dial a link, simultaneous dialling with its election,      *)
(* quotas, inbound links from Accept to the ledger, the exit of a link's   *)
(* tasks, the return of its quota, and sealing owner and server.           *)
(*                                                                         *)
(* One step is one critical section of owner->mu or server->mu, with the   *)
(* calls on a connection that follow it.  Kill is one step.                *)
(***************************************************************************)
EXTENDS Integers, FiniteSets, SequencesExt, Lists

CONSTANTS
  Caller,            \* coroutines in Call or Send
  Endpoint,          \* dial keys
  Peer, PeerOf(_),   \* identities, and who answers at an endpoint
  Greater,           \* the peers whose identity is greater than the local one
  Link,              \* connections, each used once
  None,
  MaxSessions, MaxConnections

\* None is no connection, and whoever answers at an endpoint has an identity.
ASSUME OwnerConstants ==
  /\ None \notin Link /\ MaxSessions \in Nat
  /\ \A e \in Endpoint : PeerOf(e) \in Peer

VARIABLES
  link,                     \* of each connection: see NewLink
  byIdentity, byEndpoint,   \* the registry
  establishing,             \* the record of each key: [open, reserved, conn]
  closed, shut,             \* the owner; Shutdown not called, waiting, or returned
  ops,                      \* active_ops
  at, got, tries,           \* a caller: where it is and its key, its link, its attempts
  ledger, handshakes,       \* links and handshakes of the server
  sealed,                   \* closed of the server
  serve,                    \* ServeInbound of each connection: where it is
  other,                    \* the link that InstallSession found: to be killed, or the winner
  toKill, toClose           \* what a Seal under way has still to kill or to close

linkVars  == <<link, byIdentity, byEndpoint>>
ownVars   == <<closed, shut>>
callVars  == <<ops, at, got, tries, establishing>>
srvVars   == <<ledger, handshakes, sealed, serve>>
sealVars  == <<other, toKill, toClose>>
vars == <<linkVars, ownVars, callVars, srvVars, sealVars>>

NoRecord == [open |-> FALSE, reserved |-> FALSE, conn |-> None]

\* used: the connection exists.  closing, released: requested to close, and
\* physically gone.  quota, resp, tasks: quota_held, responsibilities, and
\* the reader and writer that run.  due: steps left until both are submitted.
NewLink == [used |-> FALSE, peer |-> None, outbound |-> FALSE, installed |-> FALSE,
            dead |-> FALSE, closing |-> FALSE, released |-> FALSE, quota |-> FALSE,
            resp |-> 0, tasks |-> 0, due |-> 3]

Init ==
  /\ link = [l \in Link |-> NewLink]
  /\ byIdentity = [p \in Peer |-> None] /\ byEndpoint = [e \in Endpoint |-> None]
  /\ establishing = [e \in Endpoint |-> NoRecord]
  /\ closed = FALSE /\ shut = "no" /\ ops = {}
  /\ at = [c \in Caller |-> <<"idle", None>>]
  /\ got = [c \in Caller |-> None] /\ tries = [c \in Caller |-> 0]
  /\ ledger = <<>> /\ handshakes = {} /\ sealed = FALSE
  /\ serve = [l \in Link |-> "none"]
  /\ other = [l \in Link |-> None] /\ toKill = {} /\ toClose = {}

-----------------------------------------------------------------------------
(* Links. *)

\* ReleasedLocked for the links of S: quota and registry entries go back when
\* the connection is physically gone.  E: keys that are erased besides.
Drive(lk, S, E) ==
  LET R == { l \in S : lk[l].released /\ lk[l].quota } IN
  /\ link' = [l \in Link |-> IF l \in R THEN [lk[l] EXCEPT !.quota = FALSE] ELSE lk[l]]
  /\ byIdentity' = [p \in Peer |-> IF byIdentity[p] \in R THEN None ELSE byIdentity[p]]
  /\ byEndpoint' = [e \in Endpoint |-> IF byEndpoint[e] \in R \/ e \in E THEN None
                                        ELSE byEndpoint[e]]

\* ExitDone: whoever brings the count to zero looks whether to release.
ExitDone(lk, l) ==
  LET left == [lk EXCEPT ![l].resp = @ - 1] IN
  Drive(left, IF left[l].resp = 0 THEN {l} ELSE {}, {})

RequestClose(lk, S) == [l \in Link |-> IF l \in S THEN [lk[l] EXCEPT !.closing = TRUE] ELSE lk[l]]

Kill(l) ==
  IF link[l].dead THEN UNCHANGED linkVars
  ELSE ExitDone([link EXCEPT ![l].dead = TRUE, ![l].closing = TRUE], l)

\* A task submitted by Submit ends; the reader kills a link whose connection
\* has ended.
TaskEnds(l) ==
  /\ link[l].tasks > 0
  /\ \/ /\ ~link[l].dead /\ link[l].closing /\ Kill(l)
     \/ /\ link[l].dead /\ ExitDone([link EXCEPT ![l].tasks = @ - 1], l)
  /\ UNCHANGED <<ownVars, callVars, srvVars, sealVars>>

\* The peer ends the connection.  (Before Publish: as if right after it, or as
\* a handshake that fails.)
Breaks(l) ==
  /\ link[l].installed /\ ~link[l].closing
  /\ link' = RequestClose(link, {l})
  /\ UNCHANGED <<byIdentity, byEndpoint, ownVars, callVars, srvVars, sealVars>>

\* The engine has released the connection: of interest while it holds a place.
Released(l) ==
  /\ link[l].closing /\ link[l].quota /\ ~link[l].released
  /\ link' = [link EXCEPT ![l].released = TRUE]
  /\ UNCHANGED <<byIdentity, byEndpoint, ownVars, callVars, srvVars, sealVars>>

Occupied == Cardinality({ p \in Peer : byIdentity[p] # None })
            + Cardinality({ e \in Endpoint : establishing[e].reserved })

\* InstallSession under owner->mu: what becomes of connection l.  A link to a
\* peer that has one already is elected by direction alone.
Elected(l) == (link[l].peer \in Greater) = link[l].outbound
Winner(l)  == byIdentity[link[l].peer]

InstallFails(l, own) ==
  \/ closed
  \/ Winner(l) = None /\ Occupied - (IF own THEN 1 ELSE 0) >= MaxSessions

InstallLoses(l) == ~closed /\ Winner(l) # None /\ ~Elected(l)

\* Slip: the loser of the election is published as well.
PublishBoth(l) ==
  /\ link' = [link EXCEPT ![l].installed = TRUE, ![l].quota = TRUE]
  /\ byIdentity' = [byIdentity EXCEPT ![link[l].peer] = IF @ = None THEN l ELSE @]

Publish(l) ==
  /\ link' = [link EXCEPT ![l].installed = TRUE, ![l].quota = TRUE]
  /\ byIdentity' = [byIdentity EXCEPT ![link[l].peer] = l]

\* The endpoints of the link that is replaced now lead to the winner.
TakeOver(l, e) ==
  byEndpoint' = [x \in Endpoint |->
                   IF x = e \/ (Winner(l) # None /\ byEndpoint[x] = Winner(l)) THEN l
                   ELSE byEndpoint[x]]

\* The link is made ready: the responsibility for its connection is counted, then reader
\* and writer are submitted one after the other, each with its own; they run at once.
CountConnection(l) ==
  /\ link[l].due = 3
  /\ link' = [link EXCEPT ![l].due = 2, ![l].resp = @ + 1]
  /\ UNCHANGED <<byIdentity, byEndpoint>>

Submit(l) ==
  /\ link[l].due \in 1 .. 2
  /\ link' = [link EXCEPT ![l].due = @ - 1, ![l].resp = @ + 1, ![l].tasks = @ + 1]
  /\ UNCHANGED <<byIdentity, byEndpoint>>

\* A task that cannot be registered ends the link.
Unregistered(l) ==
  LET lk == [link EXCEPT ![l].due = 0] IN
  /\ link[l].due \in 1 .. 2
  /\ IF link[l].dead THEN link' = lk /\ UNCHANGED <<byIdentity, byEndpoint>>
     ELSE ExitDone([lk EXCEPT ![l].dead = TRUE, ![l].closing = TRUE], l)

-----------------------------------------------------------------------------
(* Call and Send: GetSession and EstablishOutbound. *)

Go(c, p) == at' = [at EXCEPT ![c] = <<p, at[c][2]>>]
Where(c) == at[c][1]
Key(c)   == at[c][2]

\* SessionOwnerBeginOperation: the gate that Close and Shutdown shut.
Admitted == ~closed /\ shut = "no"

\* Call or Send begins; one that is refused for its arguments is over at once.
BeginOperation(c, e) ==
  /\ Where(c) = "idle"
  /\ \/ Admitted /\ ops' = ops \cup {c}
        /\ \E p \in {"get", "end"} : at' = [at EXCEPT ![c] = <<p, e>>]
     \/ ~Admitted /\ at' = [at EXCEPT ![c] = <<"done", None>>] /\ UNCHANGED ops
  /\ UNCHANGED <<linkVars, ownVars, got, tries, establishing, srvVars, sealVars>>

\* One look at the registry: an error, a link, a record to wait for, or a new
\* record that already holds its place.
GetSession(c) ==
  LET e == Key(c)
      live == { byIdentity[p] : p \in Peer } \ {None}
      stale == byEndpoint[e] # None /\ link[byEndpoint[e]].dead
      hit == byEndpoint'[e] # None
  IN
  /\ Where(c) = "get"
  /\ IF closed
     THEN Go(c, "end") /\ UNCHANGED <<linkVars, got, establishing>>
     ELSE /\ Drive(link, live, IF stale THEN {e} ELSE {})
          /\ \/ /\ hit
                /\ got' = [got EXCEPT ![c] = byEndpoint'[e]] /\ Go(c, "use")
                /\ UNCHANGED establishing
             \/ /\ ~hit /\ establishing[e].open /\ Go(c, "wait")
                /\ UNCHANGED <<got, establishing>>
             \/ /\ ~hit /\ ~establishing[e].open
                /\ LET full == Cardinality({ p \in Peer : byIdentity'[p] # None })
                               + Cardinality({ x \in Endpoint : establishing[x].reserved })
                               >= MaxSessions IN
                   IF full
                   THEN Go(c, "end") /\ UNCHANGED <<got, establishing>>
                   ELSE /\ establishing' = [establishing EXCEPT ![e] =
                             [open |-> TRUE, reserved |-> TRUE, conn |-> None]]
                        /\ Go(c, "dial") /\ UNCHANGED got
  /\ UNCHANGED <<ownVars, ops, tries, srvVars, sealVars>>

\* Others wait for the record, each to its own deadline: see
\* FinishEstablishing for what they are told.
AwaitEstablished(c) ==
  /\ Where(c) = "told"
  /\ Go(c, IF got[c] # None /\ ~link[got[c]].dead THEN "use" ELSE "end")
  /\ UNCHANGED <<linkVars, ownVars, ops, got, tries, establishing, srvVars, sealVars>>

AwaitExpires(c) ==
  /\ Where(c) = "wait" /\ Go(c, "end")
  /\ UNCHANGED <<linkVars, ownVars, ops, got, tries, establishing, srvVars, sealVars>>

\* CoDial, and the connection put where a Seal finds it.
Dial(c) ==
  /\ Where(c) = "dial" /\ got' = [got EXCEPT ![c] = None]
  /\ \/ Go(c, "failed") /\ UNCHANGED <<link, establishing>>
     \/ \E l \in Link :
          /\ ~link[l].used
          /\ link' = [link EXCEPT ![l].used = TRUE, ![l].outbound = TRUE,
                                  ![l].peer = PeerOf(Key(c)), ![l].closing = closed]
          /\ establishing' = [establishing EXCEPT ![Key(c)].conn = l]
          /\ Go(c, IF closed THEN "failed" ELSE "shake")
  /\ UNCHANGED <<byIdentity, byEndpoint, ownVars, ops, tries, srvVars, sealVars>>

\* The checkpoint before the handshake and the handshake.
Handshake(c) ==
  LET l == establishing[Key(c)].conn IN
  /\ Where(c) = "shake"
  /\ \/ Go(c, "install") /\ UNCHANGED link
     \/ Go(c, "failed") /\ link' = RequestClose(link, {l})
  /\ UNCHANGED <<byIdentity, byEndpoint, ownVars, ops, got, tries, establishing,
                 srvVars, sealVars>>

Install(c) ==
  LET e == Key(c)
      l == establishing[e].conn
      old == Winner(l) IN
  /\ Where(c) = "install"
  /\ \/ /\ InstallFails(l, establishing[e].reserved)
        /\ link' = RequestClose(link, {l}) /\ Go(c, "failed")
        /\ UNCHANGED <<byIdentity, byEndpoint, got, establishing, other>>
     \/ /\ InstallLoses(l)
        /\ link' = [link EXCEPT ![l].dead = TRUE, ![l].closing = TRUE]
        /\ byEndpoint' = [byEndpoint EXCEPT ![e] = old]
        /\ got' = [got EXCEPT ![c] = old] /\ Go(c, "made")
        /\ UNCHANGED <<byIdentity, establishing, other>>
     \/ /\ ~InstallFails(l, establishing[e].reserved) /\ ~InstallLoses(l)
        /\ Publish(l) /\ TakeOver(l, e)
        /\ establishing' = [establishing EXCEPT ![e].reserved = @ /\ old # None]
        /\ other' = [other EXCEPT ![l] = old]
        /\ got' = [got EXCEPT ![c] = l] /\ Go(c, "spawn")
  /\ UNCHANGED <<ownVars, ops, tries, srvVars, toKill, toClose>>

\* The link that lost its place is killed before the new one has its tasks.
Evict(l) ==
  /\ link[l].installed /\ other[l] # None
  /\ Kill(other[l]) /\ other' = [other EXCEPT ![l] = None]
  /\ UNCHANGED <<ownVars, callVars, srvVars, toKill, toClose>>

Spawn(c) ==
  /\ Where(c) = "spawn" /\ other[got[c]] = None
  /\ \/ (CountConnection(got[c]) \/ Submit(got[c]))
        /\ Go(c, IF link[got[c]].due = 1 THEN "made" ELSE "spawn")
     \/ Unregistered(got[c]) /\ Go(c, "failed")
  /\ UNCHANGED <<ownVars, ops, got, tries, establishing, srvVars, sealVars>>

Waiting(e) == { w \in Caller : at[w] = <<"wait", e>> }

\* Slip: the waiters are not told.
FinishSilently(c) ==
  LET e == Key(c) IN
  /\ Where(c) \in {"made", "failed"}
  /\ establishing' = [establishing EXCEPT ![e] = NoRecord]
  /\ Go(c, IF Where(c) = "made" THEN "use" ELSE "end")
  /\ UNCHANGED <<linkVars, ownVars, ops, got, tries, srvVars, sealVars>>

\* The common end of EstablishOutbound, however it went.  The record is
\* decided once: those who wait for it will read this outcome.
FinishEstablishing(c) ==
  LET e == Key(c)
      made == Where(c) = "made" IN
  /\ Where(c) \in {"made", "failed"}
  /\ link' = IF made \/ establishing[e].conn = None THEN link
             ELSE RequestClose(link, {establishing[e].conn})
  /\ establishing' = [establishing EXCEPT ![e] = NoRecord]
  /\ got' = [w \in Caller |-> IF w \notin Waiting(e) THEN got[w]
                              ELSE IF made THEN got[c] ELSE None]
  /\ at' = [w \in Caller |-> CASE w = c -> <<IF made THEN "use" ELSE "end", e>>
                               [] w \in Waiting(e) -> <<"told", e>>
                               [] OTHER -> at[w]]
  /\ UNCHANGED <<byIdentity, byEndpoint, ownVars, ops, tries, srvVars, sealVars>>

\* A link that was fenced meanwhile is looked up once more.
Use(c) ==
  /\ Where(c) = "use"
  /\ IF link[got[c]].dead /\ tries[c] < 1
     THEN Go(c, "get") /\ tries' = [tries EXCEPT ![c] = @ + 1]
     ELSE Go(c, "end") /\ UNCHANGED tries
  /\ UNCHANGED <<linkVars, ownVars, ops, got, establishing, srvVars, sealVars>>

\* The operation ends, and with it what its call knew.
EndOperation(c) ==
  /\ Where(c) = "end" /\ at' = [at EXCEPT ![c] = <<"done", None>>] /\ ops' = ops \ {c}
  /\ got' = [got EXCEPT ![c] = None] /\ tries' = [tries EXCEPT ![c] = 0]
  /\ UNCHANGED <<linkVars, ownVars, establishing, srvVars, sealVars>>

-----------------------------------------------------------------------------
(* The server: AcceptLoop and ServeInbound. *)

ServeGo(l, p) == serve' = [serve EXCEPT ![l] = p]

\* AcceptLoop; a connection that is refused is closed at once.  (StopAccepting
\* ends the loop: here nothing forces Accept.)
Accept(l, p) ==
  /\ ~link[l].used /\ ~sealed /\ Len(ledger) + Cardinality(handshakes) < MaxConnections
  /\ handshakes' = handshakes \cup {l} /\ ServeGo(l, "shake")
  /\ link' = [link EXCEPT ![l].used = TRUE, ![l].peer = p]
  /\ UNCHANGED <<byIdentity, byEndpoint, ownVars, callVars, ledger, sealed, sealVars>>

\* The checkpoints and the handshake: the connection goes on or is given up.
ServeHandshake(l) ==
  /\ serve[l] = "shake"
  /\ \/ ServeGo(l, "check") /\ UNCHANGED <<link, handshakes>>
     \/ /\ link' = RequestClose(link, {l}) /\ handshakes' = handshakes \ {l}
        /\ ServeGo(l, "over")
  /\ UNCHANGED <<byIdentity, byEndpoint, ownVars, callVars, ledger, sealed, sealVars>>

ServeCheck(l) ==
  /\ serve[l] = "check"
  /\ IF sealed THEN handshakes' = handshakes \ {l} /\ ServeGo(l, "close")
               ELSE ServeGo(l, "install") /\ UNCHANGED handshakes
  /\ UNCHANGED <<linkVars, ownVars, callVars, ledger, sealed, sealVars>>

ServeInstall(l) ==
  LET old == Winner(l) IN
  /\ serve[l] = "install"
  /\ \/ /\ InstallFails(l, FALSE) /\ ServeGo(l, "drop")
        /\ link' = RequestClose(link, {l}) /\ UNCHANGED <<byIdentity, byEndpoint, other>>
     \/ /\ InstallLoses(l) /\ ServeGo(l, "enter") /\ other' = [other EXCEPT ![l] = old]
        /\ link' = [link EXCEPT ![l].dead = TRUE, ![l].closing = TRUE]
        /\ UNCHANGED <<byIdentity, byEndpoint>>
     \/ /\ ~InstallFails(l, FALSE) /\ ~InstallLoses(l) /\ ServeGo(l, "spawn")
        /\ Publish(l) /\ TakeOver(l, None) /\ other' = [other EXCEPT ![l] = old]
  /\ UNCHANGED <<ownVars, callVars, ledger, handshakes, sealed, toKill, toClose>>

ServeSpawn(l) ==
  /\ serve[l] = "spawn" /\ other[l] = None
  /\ \/ (CountConnection(l) \/ Submit(l))
        /\ ServeGo(l, IF link[l].due = 1 THEN "enter" ELSE "spawn")
     \/ Unregistered(l) /\ ServeGo(l, "drop")
  /\ UNCHANGED <<ownVars, callVars, ledger, handshakes, sealed, sealVars>>

\* Slip: the handshake is over before the link is in the ledger.
ServeEnterLate(l) ==
  /\ \/ /\ serve[l] = "enter" /\ handshakes' = handshakes \ {l} /\ ServeGo(l, "push")
        /\ UNCHANGED <<link, ledger>>
     \/ /\ serve[l] = "push" /\ ledger' = Append(ledger, l) /\ ServeGo(l, "over")
        /\ UNCHANGED <<link, handshakes>>
     \/ /\ serve[l] = "close" /\ link' = RequestClose(link, {l}) /\ ServeGo(l, "over")
        /\ UNCHANGED <<ledger, handshakes>>
     \/ /\ serve[l] = "drop" /\ handshakes' = handshakes \ {l} /\ ServeGo(l, "over")
        /\ UNCHANGED <<link, ledger>>
  /\ UNCHANGED <<byIdentity, byEndpoint, ownVars, callVars, sealed, sealVars>>

\* Nobody holds the link any more: its weak references have expired.
Expired(l) ==
  /\ link[l].dead /\ link[l].tasks = 0 /\ \A p \in Peer : byIdentity[p] # l
  /\ \A c \in Caller : got[c] # l

\* The end of ServeInbound.  What Install returned enters the ledger: the
\* winner of a lost election once more.
ServeEnds(l) ==
  /\ \/ /\ serve[l] = "enter" /\ handshakes' = handshakes \ {l} /\ ServeGo(l, "over")
        /\ ledger' = Without(Append(ledger, IF link[l].installed THEN l ELSE other[l]),
                             { x \in Link : Expired(x) })
        /\ UNCHANGED link
     \/ /\ serve[l] = "close" /\ link' = RequestClose(link, {l}) /\ ServeGo(l, "over")
        /\ UNCHANGED <<ledger, handshakes>>
     \/ /\ serve[l] = "drop" /\ handshakes' = handshakes \ {l} /\ ServeGo(l, "over")
        /\ UNCHANGED <<link, ledger>>
  /\ UNCHANGED <<byIdentity, byEndpoint, ownVars, callVars, sealed, sealVars>>

-----------------------------------------------------------------------------
(* Sealing: a snapshot under the mutex, then one after the other. *)

ServerSeal ==
  /\ ~sealed /\ sealed' = TRUE
  /\ toKill' = toKill \cup ToSet(ledger) /\ toClose' = toClose \cup handshakes
  /\ UNCHANGED <<linkVars, ownVars, callVars, ledger, handshakes, serve, other>>

OwnerSeal ==
  /\ ~closed /\ closed' = TRUE
  /\ toKill' = toKill \cup ({ byIdentity[p] : p \in Peer } \ {None})
  /\ toClose' = toClose \cup ({ establishing[e].conn : e \in Endpoint } \ {None})
  /\ UNCHANGED <<linkVars, shut, callVars, srvVars, other>>

KillNext(l) ==
  /\ l \in toKill /\ toKill' = toKill \ {l} /\ Kill(l)
  /\ UNCHANGED <<ownVars, callVars, srvVars, other, toClose>>

CloseNext(l) ==
  /\ l \in toClose /\ toClose' = toClose \ {l} /\ link' = RequestClose(link, {l})
  /\ UNCHANGED <<byIdentity, byEndpoint, ownVars, callVars, srvVars, other, toKill>>

\* (A Shutdown that is overtaken by Close returns an error.)
OwnerShutdown ==
  /\ \/ shut = "no" /\ ~closed /\ shut' = "waiting"
     \/ shut = "waiting" /\ ops = {} /\ shut' = "ok"
  /\ UNCHANGED <<linkVars, closed, callVars, srvVars, sealVars>>

\* WaitStopped drives the release of the links in the ledger.
SweepRelease ==
  /\ sealed /\ Drive(link, ToSet(ledger), {}) /\ link' # link
  /\ UNCHANGED <<ownVars, callVars, srvVars, sealVars>>

-----------------------------------------------------------------------------
CallStep(c) ==
  \/ GetSession(c) \/ AwaitEstablished(c) \/ Dial(c) \/ Handshake(c) \/ Install(c)
  \/ Spawn(c) \/ FinishEstablishing(c) \/ Use(c) \/ EndOperation(c)
ServeStep(l) ==
  ServeHandshake(l) \/ ServeCheck(l) \/ ServeInstall(l) \/ ServeSpawn(l) \/ ServeEnds(l)
LinkStep(l) == Evict(l) \/ TaskEnds(l) \/ Released(l) \/ KillNext(l) \/ CloseNext(l)

Next ==
  \/ \E c \in Caller : CallStep(c) \/ AwaitExpires(c) \/ \E e \in Endpoint : BeginOperation(c, e)
  \/ \E l \in Link : ServeStep(l) \/ LinkStep(l) \/ Breaks(l) \/ \E p \in Peer : Accept(l, p)
  \/ ServerSeal \/ OwnerSeal \/ OwnerShutdown \/ SweepRelease

Spec == Init /\ [][Next]_vars

-----------------------------------------------------------------------------
(* Properties. *)

TypeOK ==
  /\ \A l \in Link : link[l].resp \in -1 .. 3 /\ link[l].tasks \in 0 .. 2 /\ link[l].due \in 0 .. 3
  /\ handshakes \subseteq Link /\ ledger \in Seq(Link) /\ ops \subseteq Caller
  /\ \A p \in Peer : byIdentity[p] \in Link \cup {None}

\* A link that is to be killed by the one that replaced it or by a Seal.
Doomed(l) == l \in toKill \/ \E k \in Link : link[k].installed /\ other[k] = l

\* Installed links and dials under way stay within MaxSessions through every
\* race of dials, inbound links and elections, and two links to one peer are
\* never both left open: all but the registered one are closed or doomed.
OwnerBounded ==
  /\ TypeOK /\ Occupied <= MaxSessions
  /\ \A l \in Link : link[l].installed /\ ~link[l].closing =>
       byIdentity[link[l].peer] = l \/ Doomed(l)

\* Closing owner or server reaches every connection it answers for, wherever a
\* racing dial, handshake or installation has got to; and a Shutdown that
\* reported ok has left no operation behind.
SealReachesAll ==
  /\ closed => \A l \in Link : link[l].outbound \/ link[l].installed =>
       link[l].closing \/ l \in toClose \/ Doomed(l)
  /\ sealed => \A l \in Link : serve[l] # "none" =>
       link[l].closing \/ l \in toClose \/ Doomed(l) \/ serve[l] = "close"
  /\ shut = "ok" => ops = {}

\* Whoever waits for a dial waits for a record that is still open, with a
\* coroutine at work on it, and every place a dial has reserved belongs to one:
\* no failure, eviction or Seal leaves a waiter or a place behind.
RecordsDecided ==
  /\ \A c \in Caller : Where(c) = "wait" => establishing[Key(c)].open
  /\ \A e \in Endpoint : establishing[e].open =>
       \E c \in Caller : Key(c) = e /\ Where(c) \in
         {"dial", "shake", "install", "spawn", "made", "failed"}

\* No link, waiter or operation is left behind.
OwnerSettles == SealReachesAll /\ RecordsDecided
=============================================================================
