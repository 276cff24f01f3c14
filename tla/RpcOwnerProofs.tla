---------------------------- MODULE RpcOwnerProofs ----------------------------
(***************************************************************************)
(* The owner of RPC links, its server, its checkpoints and the admission   *)
(* of requests, for every number of callers, endpoints, peers, links and   *)
(* requests.  What is installed and being dialled stays within MaxSessions,*)
(* at most one link to a peer is open that nobody has undertaken to kill,  *)
(* sealing reaches every connection, and nobody waits for a dial that      *)
(* nobody makes.  The counter of admitted requests is the number of leases *)
(* held, no request is answered twice, and a drain that reported success   *)
(* is final.  A registration to throw once throws at most once.            *)
(*                                                                         *)
(* Most steps of the owner only age the links (Ages): they close, die and  *)
(* leave the registry, but keep their peer and direction.  One lemma for   *)
(* each part of the invariant says what it needs besides; the others are   *)
(* the steps that open a connection or install it.                         *)
(***************************************************************************)
EXTENDS RpcOwner, RpcAdmission, RpcHooks, ListProofs

Place == {"idle", "get", "end", "done", "use", "wait", "told", "dial", "shake", "install",
          "spawn", "made", "failed"}
AtWork == {"dial", "shake", "install", "spawn", "made", "failed"}
Stage == {"none", "shake", "check", "install", "spawn", "enter", "drop", "close", "over"}
AtHand == {"shake", "check", "install", "spawn", "enter", "drop"}

LinkState == [used : BOOLEAN, peer : Peer \cup {None}, outbound : BOOLEAN, installed : BOOLEAN,
              dead : BOOLEAN, closing : BOOLEAN, released : BOOLEAN, quota : BOOLEAN,
              resp : -1 .. 3, tasks : 0 .. 2, due : 0 .. 3]
Record == [open : BOOLEAN, reserved : BOOLEAN, conn : Link \cup {None}]

LinkTypes ==
  /\ link \in [Link -> LinkState]
  /\ byIdentity \in [Peer -> Link \cup {None}] /\ byEndpoint \in [Endpoint -> Link \cup {None}]
CallTypes ==
  /\ establishing \in [Endpoint -> Record] /\ ops \subseteq Caller
  /\ at \in [Caller -> Place \X (Endpoint \cup {None})]
  /\ got \in [Caller -> Link \cup {None}]
ServeTypes ==
  /\ ledger \in Seq(Link) /\ handshakes \subseteq Link
  /\ serve \in [Link -> Stage] /\ other \in [Link -> Link \cup {None}]
  /\ toKill \subseteq Link /\ toClose \subseteq Link
  /\ closed \in BOOLEAN /\ sealed \in BOOLEAN /\ shut \in {"no", "waiting", "ok"}

\* A link has a responsibility for its connection once that is counted, and one for each task
\* that runs, of which its end gives one back; a link that is dead or released has been asked
\* to close.
Counted(r) == (IF r.due < 3 THEN 1 ELSE 0) + r.tasks
Sound(r) ==
  /\ r.used => r.peer \in Peer
  /\ ~r.used => ~r.outbound /\ ~r.installed /\ ~r.dead /\ ~r.released
  /\ r.quota => r.installed
  /\ r.dead \/ r.released => r.closing
  /\ ~r.installed => r.resp = 0 /\ r.tasks = 0 /\ r.due = 3
  /\ r.installed => r.resp \in {Counted(r) - 1, Counted(r)} /\ (~r.dead => r.resp = Counted(r))
  /\ r.tasks + r.due <= IF r.due = 3 THEN 3 ELSE 2
Sounds == \A l \in Link : Sound(link[l])

\* A task of it, or both, are still to be submitted.
Unborn(r) == r.due > 0

InRegistry == { p \in Peer : byIdentity[p] # None }
Reserved == { e \in Endpoint : establishing[e].reserved }
Registered ==
  /\ \A p \in Peer : byIdentity[p] # None =>
       link[byIdentity[p]].installed /\ link[byIdentity[p]].peer = p
  /\ IsFiniteSet(InRegistry) /\ IsFiniteSet(Reserved)
  /\ Cardinality(InRegistry) + Cardinality(Reserved) <= MaxSessions

\* What is killed has been installed.
Targets ==
  /\ \A l \in toKill \cup ToSet(ledger) : link[l].installed
  /\ \A l \in Link : other[l] # None => link[other[l]].installed

OneOpen ==
  \A l \in Link : link[l].installed /\ ~link[l].closing =>
    byIdentity[link[l].peer] = l \/ Doomed(l)

\* A caller in EstablishOutbound has its open record, and that of its connection what the
\* caller's place says.
WorkerFits(w, e, g, est, lk) ==
  /\ w \in AtWork \cup {"get", "wait", "told", "use"} => e \in Endpoint
  /\ w \in AtWork \cup {"wait"} => est[e].open
  /\ w = "dial" => est[e].conn = None
  /\ w \in {"shake", "install"} => est[e].conn # None /\ ~lk[est[e].conn].installed
  /\ w = "spawn" => /\ est[e].conn # None /\ g = est[e].conn
                    /\ lk[g].installed /\ Unborn(lk[g])
  /\ w = "made" => est[e].conn # None /\ (lk[est[e].conn].installed \/ lk[est[e].conn].closing)
Worker(c) == WorkerFits(Where(c), Key(c), got[c], establishing, link)
Workers == \A c \in Caller : Worker(c)
OneWorker ==
  /\ \A c, d \in Caller : Where(c) \in AtWork /\ Where(d) \in AtWork /\ Key(c) = Key(d) => c = d
  /\ \A e \in Endpoint : establishing[e].open =>
       \E c \in Caller : Key(c) = e /\ Where(c) \in AtWork

\* Every connection that is dialled is in the one record a Seal finds it by, until it is
\* installed or closed.
Dialled ==
  /\ \A e \in Endpoint : establishing[e].conn # None =>
       establishing[e].open /\ link[establishing[e].conn].outbound
  /\ \A e, f \in Endpoint :
       establishing[e].conn = establishing[f].conn /\ establishing[e].conn # None => e = f
  /\ \A l \in Link : link[l].outbound /\ ~link[l].installed /\ ~link[l].closing =>
       \E e \in Endpoint : establishing[e].conn = l

\* A connection that is served is among the handshakes or in the ledger, or closed.
ServeFits(l) ==
  /\ serve[l] # "none" => link[l].used /\ ~link[l].outbound
  /\ serve[l] \in AtHand => l \in handshakes
  /\ serve[l] \in {"shake", "check", "install"} => ~link[l].installed
  /\ serve[l] = "spawn" => link[l].installed /\ Unborn(link[l])
  /\ serve[l] = "enter" => link[l].installed \/ (link[l].closing /\ other[l] # None)
  /\ serve[l] = "drop" => link[l].closing
  /\ serve[l] = "over" => link[l].closing \/ l \in ToSet(ledger)
  /\ serve[l] = "close" => sealed
Serving == \A l \in Link : ServeFits(l)

Reached(l) == link[l].closing \/ l \in toClose \/ Doomed(l)
OwnerReaches == closed => \A l \in Link : link[l].outbound \/ link[l].installed => Reached(l)
ServerReaches ==
  sealed => \A l \in Link : serve[l] # "none" => Reached(l) \/ serve[l] = "close"
Quiescent == shut = "ok" => ops = {}

\* The inductive invariant.
OwnerInv ==
  /\ LinkTypes /\ CallTypes /\ ServeTypes /\ Sounds
  /\ Registered /\ Targets /\ OneOpen
  /\ Workers /\ OneWorker /\ Dialled
  /\ Serving /\ OwnerReaches /\ ServerReaches /\ Quiescent

-----------------------------------------------------------------------------
(***************************************************************************)
(* How links age.  In S are the links whose tasks the step may spawn, in N *)
(* the connections it opens.                                               *)
(***************************************************************************)

SameLink(r, q) ==
  /\ q.used = r.used /\ q.peer = r.peer /\ q.outbound = r.outbound /\ q.installed = r.installed
  /\ r.closing => q.closing
Opened(r, q) == ~r.used /\ q.used /\ ~q.installed

Grows(lk, S, N) ==
  /\ lk \in [Link -> LinkState]
  /\ \A l \in Link :
       /\ Sound(lk[l])
       /\ l \in S \/ (Unborn(link[l]) => Unborn(lk[l]))
       /\ l \notin N => SameLink(link[l], lk[l])
       /\ l \in N => Opened(link[l], lk[l])

Leaves(p) == byIdentity'[p] = None /\ link'[byIdentity[p]].closing
Ages(S, N) ==
  /\ Grows(link', S, N)
  /\ byIdentity' \in [Peer -> Link \cup {None}] /\ byEndpoint' \in [Endpoint -> Link \cup {None}]
  /\ \A p \in Peer : byIdentity'[p] = byIdentity[p] \/ Leaves(p)

LEMMA DriveAges ==
  ASSUME OwnerConstants, LinkTypes, NEW lk, NEW S \in SUBSET Link, NEW E, NEW X, NEW N,
         Grows(lk, X, N), Drive(lk, S, E)
  PROVE  Ages(X, N)
<1> DEFINE R == { l \in S : lk[l].released /\ lk[l].quota }
<1>1. /\ link' = [l \in Link |-> IF l \in R THEN [lk[l] EXCEPT !.quota = FALSE] ELSE lk[l]]
      /\ byIdentity' = [p \in Peer |-> IF byIdentity[p] \in R THEN None ELSE byIdentity[p]]
      /\ byEndpoint' = [e \in Endpoint |-> IF byEndpoint[e] \in R \/ e \in E THEN None
                                        ELSE byEndpoint[e]]
  BY Zenon DEF Drive
<1>2. R \subseteq Link /\ \A l \in R : lk[l].released
  OBVIOUS
<1> HIDE DEF R
<1>3. lk \in [Link -> LinkState]
  BY DEF Grows
<1>4. ASSUME NEW l \in Link
      PROVE  /\ link'[l] \in LinkState /\ Sound(link'[l])
             /\ l \in X \/ (Unborn(link[l]) => Unborn(link'[l]))
             /\ l \notin N => SameLink(link[l], link'[l])
             /\ l \in N => Opened(link[l], link'[l])
             /\ lk[l].closing => link'[l].closing
  <2>1. /\ lk[l] \in LinkState /\ Sound(lk[l])
        /\ l \in X \/ (Unborn(link[l]) => Unborn(lk[l]))
        /\ l \notin N => SameLink(link[l], lk[l])
        /\ l \in N => Opened(link[l], lk[l])
    BY <1>3 DEF Grows
  <2>2. link'[l] = lk[l] \/ link'[l] = [lk[l] EXCEPT !.quota = FALSE]
    BY <1>1, Zenon
  <2> HIDE DEF Grows
  <2>3. CASE link'[l] = [lk[l] EXCEPT !.quota = FALSE]
    <3> DEFINE r == lk[l]
               q == [r EXCEPT !.quota = FALSE]
    <3>1. r \in LinkState
      BY <2>1
    <3> HIDE DEF r
    <3>2. /\ q \in LinkState /\ ~q.quota
          /\ q.used = r.used /\ q.peer = r.peer /\ q.outbound = r.outbound
          /\ q.installed = r.installed /\ q.dead = r.dead /\ q.closing = r.closing
          /\ q.released = r.released /\ q.resp = r.resp /\ q.tasks = r.tasks /\ q.due = r.due
      BY <3>1 DEF LinkState
    <3>3. link'[l] = q
      BY <2>3 DEF r
    <3>4. Sound(r) /\ (l \in X \/ (Unborn(link[l]) => Unborn(r)))
          /\ (l \notin N => SameLink(link[l], r)) /\ (l \in N => Opened(link[l], r))
      BY <2>1 DEF r
    <3> HIDE DEF q
    <3>5. Sound(q)
      BY <3>2, <3>4 DEF Sound, Counted
    <3>6. (l \in X \/ (Unborn(link[l]) => Unborn(q)))
          /\ (l \notin N => SameLink(link[l], q)) /\ (l \in N => Opened(link[l], q))
      BY <3>2, <3>4 DEF Unborn, SameLink, Opened
    <3> QED BY <3>2, <3>3, <3>5, <3>6 DEF r
  <2> QED BY <2>1, <2>2, <2>3
<1>5. link' = [l \in Link |-> link'[l]]
  BY <1>1
<1>6. Grows(link', X, N)
  BY <1>4, <1>5 DEF Grows
<1>7. ASSUME NEW p \in Peer PROVE byIdentity'[p] = byIdentity[p] \/ Leaves(p)
  <2>1. CASE byIdentity[p] \in R
    <3>1. byIdentity[p] \in Link /\ lk[byIdentity[p]].released /\ byIdentity'[p] = None
      BY <1>1, <1>2, <2>1
    <3>2. lk[byIdentity[p]].closing
      BY <3>1 DEF Grows, Sound
    <3> QED BY <3>1, <3>2, <1>4 DEF Leaves
  <2>2. CASE byIdentity[p] \notin R
    BY <1>1, <2>2
  <2> QED BY <2>1, <2>2
<1>8. byIdentity' \in [Peer -> Link \cup {None}] /\ byEndpoint' \in [Endpoint -> Link \cup {None}]
  BY <1>1 DEF LinkTypes
<1> QED BY <1>6, <1>7, <1>8 DEF Ages

\* One link changes and the registry does not.
LEMMA OneAges ==
  ASSUME LinkTypes, Sounds, NEW l \in Link, NEW q \in LinkState, NEW X,
         link' = [link EXCEPT ![l] = q], UNCHANGED <<byIdentity, byEndpoint>>,
         Sound(q), l \in X \/ (Unborn(link[l]) => Unborn(q)), SameLink(link[l], q)
  PROVE  Ages(X, {})
<1>1. link' \in [Link -> LinkState] /\ link'[l] = q /\ \A k \in Link : k # l => link'[k] = link[k]
  BY DEF LinkTypes
<1>2. ASSUME NEW k \in Link
      PROVE  /\ Sound(link'[k]) /\ SameLink(link[k], link'[k])
             /\ k \in X \/ (Unborn(link[k]) => Unborn(link'[k]))
  <2>1. CASE k = l
    BY <1>1, <2>1
  <2>2. CASE k # l
    <3>1. link'[k] = link[k] /\ Sound(link[k])
      BY <1>1, <2>2 DEF Sounds
    <3> QED BY <3>1 DEF SameLink
  <2> QED BY <2>1, <2>2
<1>3. Grows(link', X, {})
  BY <1>1, <1>2 DEF Grows
<1> QED BY <1>3, Zenon DEF Ages, LinkTypes

LEMMA StayAges ==
  ASSUME LinkTypes, Sounds, UNCHANGED linkVars PROVE Ages({}, {})
<1>1. link' = link /\ byIdentity' = byIdentity /\ byEndpoint' = byEndpoint
  BY DEF linkVars
<1>2. Grows(link, {}, {})
  BY DEF Grows, LinkTypes, Sounds, SameLink
<1> QED BY <1>1, <1>2 DEF Ages, LinkTypes

\* What a record becomes when the link is asked to close, or fenced as well.
LEMMA ClosingRecord ==
  ASSUME NEW r \in LinkState, Sound(r), NEW q, q = [r EXCEPT !.closing = TRUE]
  PROVE  /\ q \in LinkState /\ Sound(q) /\ SameLink(r, q) /\ (Unborn(r) => Unborn(q))
         /\ q.closing
<1>1. /\ q \in LinkState
      /\ q.used = r.used /\ q.peer = r.peer /\ q.outbound = r.outbound
      /\ q.installed = r.installed /\ q.dead = r.dead /\ q.closing
      /\ q.released = r.released /\ q.resp = r.resp /\ q.tasks = r.tasks /\ q.due = r.due /\ q.quota = r.quota
  BY DEF LinkState
<1> QED BY <1>1 DEF Sound, Counted, SameLink, Unborn

LEMMA RequestCloseAges ==
  ASSUME LinkTypes, Sounds, NEW S, link' = RequestClose(link, S),
         UNCHANGED <<byIdentity, byEndpoint>>
  PROVE  Ages({}, {}) /\ \A l \in Link : l \in S => link'[l].closing
<1>1. link' = [l \in Link |-> IF l \in S THEN [link[l] EXCEPT !.closing = TRUE] ELSE link[l]]
  BY Zenon DEF RequestClose
<1>2. ASSUME NEW l \in Link
      PROVE  /\ link'[l] \in LinkState /\ Sound(link'[l]) /\ SameLink(link[l], link'[l])
             /\ Unborn(link[l]) => Unborn(link'[l])
             /\ l \in S => link'[l].closing
  <2>1. link[l] \in LinkState /\ Sound(link[l])
    BY DEF LinkTypes, Sounds
  <2>2. CASE l \in S
    <3>1. link'[l] = [link[l] EXCEPT !.closing = TRUE]
      BY <1>1, <2>2
    <3> QED BY <2>1, <3>1, ClosingRecord
  <2>3. CASE l \notin S
    <3>1. link'[l] = link[l]
      BY <1>1, <2>3
    <3> QED BY <2>1, <2>3, <3>1 DEF SameLink
  <2> QED BY <2>2, <2>3
<1>3. link' = [l \in Link |-> link'[l]]
  BY <1>1
<1>4. Grows(link', {}, {})
  BY <1>2, <1>3 DEF Grows
<1>5. Ages({}, {})
  BY <1>4, Zenon DEF Ages, LinkTypes
<1> QED BY <1>2, <1>5

\* ExitDone on a link of which q is left.
LEMMA ExitDoneAges ==
  ASSUME OwnerConstants, LinkTypes, Sounds, NEW l \in Link, NEW q \in LinkState, NEW lk, NEW X,
         [lk EXCEPT ![l].resp = @ - 1] = [link EXCEPT ![l] = q], ExitDone(lk, l),
         Sound(q), l \in X \/ (Unborn(link[l]) => Unborn(q)), SameLink(link[l], q)
  PROVE  Ages(X, {}) /\ (q.closing => link'[l].closing)
<1> DEFINE left == [lk EXCEPT ![l].resp = @ - 1]
           S == IF left[l].resp = 0 THEN {l} ELSE {}
<1>1. Drive(left, S, {})
  BY Zenon DEF ExitDone
<1>2. left = [link EXCEPT ![l] = q]
  OBVIOUS
<1>3. S \in SUBSET Link
  OBVIOUS
<1> HIDE DEF left, S
<1>4. left \in [Link -> LinkState] /\ left[l] = q /\ \A k \in Link : k # l => left[k] = link[k]
  BY <1>2 DEF LinkTypes
<1>5. Grows(left, X, {})
  <2>1. ASSUME NEW k \in Link
        PROVE  /\ Sound(left[k]) /\ SameLink(link[k], left[k])
               /\ k \in X \/ (Unborn(link[k]) => Unborn(left[k]))
    <3>1. CASE k = l
      BY <1>4, <3>1
    <3>2. CASE k # l
      BY <1>4, <3>2 DEF SameLink, Sounds
    <3> QED BY <3>1, <3>2
  <2> QED BY <1>4, <2>1 DEF Grows
<1>6. Ages(X, {})
  BY <1>1, <1>3, <1>5, DriveAges
<1>7. link'[l] = left[l] \/ link'[l] = [left[l] EXCEPT !.quota = FALSE]
  BY <1>1, Zenon DEF Drive
<1>8. link'[l].closing = q.closing
  BY <1>4, <1>7 DEF LinkState
<1> QED BY <1>6, <1>8

\* Session::Kill of a link that has been installed.
LEMMA KillAges ==
  ASSUME OwnerConstants, LinkTypes, Sounds, NEW l \in Link, link[l].installed, Kill(l)
  PROVE  Ages({}, {}) /\ link'[l].closing
<1> DEFINE r == link[l]
           q == [r EXCEPT !.dead = TRUE, !.closing = TRUE, !.resp = r.resp - 1]
           lk == [link EXCEPT ![l].dead = TRUE, ![l].closing = TRUE]
<1>1. r \in LinkState /\ Sound(r) /\ link \in [Link -> LinkState]
  BY DEF LinkTypes, Sounds
<1>2. CASE r.dead
  <2>1. UNCHANGED linkVars
    BY <1>2 DEF Kill
  <2>2. link'[l] = r /\ r.closing
    BY <1>1, <1>2, <2>1 DEF Sound, linkVars
  <2> QED BY <2>1, <2>2, StayAges
<1>3. CASE ~r.dead
  <2>1. ExitDone(lk, l)
    BY <1>3 DEF Kill
  <2>2. [lk EXCEPT ![l].resp = @ - 1] = [link EXCEPT ![l] = q]
    BY <1>1 DEF LinkState
  <2> HIDE DEF lk
  <2>3. r.resp \in 0 .. 3 /\ r.tasks \in 0 .. 2 /\ r.due \in 0 .. 3
    BY <1>1, <1>3 DEF Sound, Counted, LinkState
  <2>4. /\ q \in LinkState
        /\ q.used = r.used /\ q.peer = r.peer /\ q.outbound = r.outbound
        /\ q.installed = r.installed /\ q.dead /\ q.closing
        /\ q.released = r.released /\ q.resp = r.resp - 1 /\ q.tasks = r.tasks /\ q.due = r.due
    <3> DEFINE n == r.resp - 1
               d == [r EXCEPT !.dead = TRUE, !.closing = TRUE]
    <3>1. n \in -1 .. 3
      BY <2>3
    <3>2. q = [d EXCEPT !.resp = n]
      OBVIOUS
    <3> HIDE DEF q, r, n
    <3>3. /\ d \in LinkState
          /\ d.used = r.used /\ d.peer = r.peer /\ d.outbound = r.outbound
          /\ d.installed = r.installed /\ d.dead /\ d.closing
          /\ d.released = r.released /\ d.tasks = r.tasks /\ d.due = r.due
      BY <1>1 DEF LinkState
    <3> HIDE DEF d
    <3>4. /\ q \in LinkState
          /\ q.used = d.used /\ q.peer = d.peer /\ q.outbound = d.outbound
          /\ q.installed = d.installed /\ q.dead = d.dead /\ q.closing = d.closing
          /\ q.released = d.released /\ q.resp = n /\ q.tasks = d.tasks /\ q.due = d.due
      BY <3>1, <3>2, <3>3 DEF LinkState
    <3> QED BY <3>3, <3>4 DEF n
  <2> HIDE DEF q
  <2>5. Sound(q) /\ SameLink(r, q) /\ (Unborn(r) => Unborn(q))
    <3>1. Sound(r) /\ r.installed
      BY <1>1
    <3> HIDE DEF r
    <3> QED BY <1>3, <2>3, <2>4, <3>1 DEF Sound, Counted, SameLink, Unborn
  <2>6. SameLink(link[l], q) /\ (l \in {} \/ (Unborn(link[l]) => Unborn(q)))
    BY <2>5
  <2> HIDE DEF r
  <2> QED BY <2>1, <2>2, <2>4, <2>5, <2>6, ExitDoneAges
<1> QED BY <1>2, <1>3

\* A link counts its connection, or one of its tasks is submitted.
LEMMA StartAges ==
  ASSUME OwnerConstants, LinkTypes, Sounds, NEW l \in Link, link[l].installed,
         CountConnection(l) \/ Submit(l)
  PROVE  /\ Ages({l}, {}) /\ link[l].due \in 1 .. 3 /\ link'[l].due = link[l].due - 1
<1>1. PICK r : r = link[l]
  OBVIOUS
<1>2. r \in LinkState /\ Sound(r) /\ link \in [Link -> LinkState] /\ r.installed
  BY <1>1 DEF LinkTypes, Sounds
<1>3. PICK t : t = IF r.due = 3 THEN r.tasks ELSE r.tasks + 1
  OBVIOUS
<1>4. r.due \in 1 .. 3 /\ UNCHANGED <<byIdentity, byEndpoint>>
  BY <1>1 DEF CountConnection, Submit
<1>5. /\ r.tasks \in 0 .. 2 /\ r.resp \in -1 .. 3 /\ r.dead \in BOOLEAN
      /\ r.resp \in {Counted(r) - 1, Counted(r)} /\ (~r.dead => r.resp = Counted(r))
      /\ Counted(r) = (IF r.due < 3 THEN 1 ELSE 0) + r.tasks
      /\ r.tasks + r.due <= IF r.due = 3 THEN 3 ELSE 2
  BY <1>2 DEF Sound, Counted, LinkState
<1>6. PICK m, n : m = r.resp + 1 /\ n = r.due - 1
  OBVIOUS
<1>7. /\ m \in -1 .. 3 /\ n \in 0 .. 2 /\ t \in 0 .. 2 /\ t + n <= 2
      /\ m \in {t, t + 1} /\ (~r.dead => m = 1 + t)
  <2>1. r.due \in {1, 2, 3} /\ r.tasks \in {0, 1, 2} /\ r.resp \in Int
    BY <1>4, <1>5
  <2>2. Counted(r) + 1 = 1 + t
    BY <1>3, <1>5, <2>1
  <2>3. t + n <= 2 /\ t \in 0 .. 2 /\ n \in 0 .. 2
    BY <1>3, <1>5, <1>6, <2>1
  <2>4. m \in {t, t + 1} /\ (~r.dead => m = 1 + t)
    BY <1>5, <1>6, <2>1, <2>2, <2>3
  <2> QED BY <2>3, <2>4
<1>8. PICK q : q = [r EXCEPT !.due = n, !.resp = m, !.tasks = t]
  OBVIOUS
<1>9. /\ q \in LinkState
      /\ q.used = r.used /\ q.peer = r.peer /\ q.outbound = r.outbound
      /\ q.installed = r.installed /\ q.dead = r.dead /\ q.closing = r.closing
      /\ q.released = r.released /\ q.quota = r.quota
      /\ q.resp = m /\ q.tasks = t /\ q.due = n
  <2>1. PICK b : b = [r EXCEPT !.due = n]
    OBVIOUS
  <2>2. /\ b \in LinkState /\ b.due = n
        /\ b.used = r.used /\ b.peer = r.peer /\ b.outbound = r.outbound
        /\ b.installed = r.installed /\ b.dead = r.dead /\ b.closing = r.closing
        /\ b.released = r.released /\ b.quota = r.quota
    <3>1. n \in 0 .. 3
      BY <1>7
    <3> QED BY <1>2, <2>1, <3>1 DEF LinkState
  <2>3. PICK f : f = [b EXCEPT !.resp = m]
    OBVIOUS
  <2>4. /\ f \in LinkState /\ f.due = n /\ f.resp = m
        /\ f.used = r.used /\ f.peer = r.peer /\ f.outbound = r.outbound
        /\ f.installed = r.installed /\ f.dead = r.dead /\ f.closing = r.closing
        /\ f.released = r.released /\ f.quota = r.quota
    BY <1>7, <2>2, <2>3 DEF LinkState
  <2>5. q = [f EXCEPT !.tasks = t]
    BY <1>8, <2>1, <2>3
  <2> QED BY <1>7, <2>4, <2>5 DEF LinkState
<1>10. link' = [link EXCEPT ![l] = q]
  <2>1. CASE CountConnection(l)
    <3>1. r.due = 3 /\ link' = [link EXCEPT ![l].due = 2, ![l].resp = @ + 1]
      BY <1>1, <2>1 DEF CountConnection
    <3>2. q = [r EXCEPT !.due = 2, !.resp = r.resp + 1]
      BY <1>2, <1>3, <1>6, <1>8, <3>1 DEF LinkState
    <3> QED BY <1>1, <1>2, <3>1, <3>2
  <2>2. CASE Submit(l)
    <3>1. /\ r.due # 3
          /\ link' = [link EXCEPT ![l].due = @ - 1, ![l].resp = @ + 1, ![l].tasks = @ + 1]
      BY <1>1, <2>2 DEF Submit
    <3>2. q = [r EXCEPT !.due = r.due - 1, !.resp = r.resp + 1, !.tasks = r.tasks + 1]
      BY <1>3, <1>6, <1>8, <3>1
    <3> QED BY <1>1, <1>2, <3>1, <3>2
  <2> QED BY <2>1, <2>2
<1>11. Sound(q) /\ SameLink(r, q)
  <2>1. Counted(q) = 1 + t /\ t \in Int
    BY <1>7, <1>9 DEF Counted
  <2>2. q.resp \in {Counted(q) - 1, Counted(q)} /\ (~q.dead => q.resp = Counted(q))
    BY <1>7, <1>9, <2>1
  <2>3. q.tasks + q.due <= IF q.due = 3 THEN 3 ELSE 2
    BY <1>7, <1>9
  <2> HIDE DEF Counted
  <2> QED BY <1>2, <1>9, <2>2, <2>3 DEF Sound, SameLink
<1>12. Ages({l}, {})
  BY <1>1, <1>4, <1>9, <1>10, <1>11, OneAges
<1>13. link'[l] = q
  BY <1>2, <1>10
<1> QED BY <1>1, <1>4, <1>6, <1>9, <1>12, <1>13

\* A task that cannot be registered kills the link.
LEMMA UnregisteredAges ==
  ASSUME OwnerConstants, LinkTypes, Sounds, NEW l \in Link, link[l].installed, Unregistered(l)
  PROVE  Ages({l}, {}) /\ link'[l].closing
<1>1. PICK r : r = link[l]
  OBVIOUS
<1>2. r \in LinkState /\ Sound(r) /\ link \in [Link -> LinkState] /\ r.installed
  BY <1>1 DEF LinkTypes, Sounds
<1>3. r.due \in 1 .. 2
  BY <1>1 DEF Unregistered
<1>4. /\ r.tasks \in 0 .. 2 /\ r.resp \in -1 .. 3 /\ r.dead \in BOOLEAN
      /\ r.resp \in {r.tasks, 1 + r.tasks} /\ (~r.dead => r.resp = 1 + r.tasks)
      /\ r.tasks + r.due <= 2
  BY <1>2, <1>3 DEF Sound, Counted, LinkState
<1>5. PICK d, lk : d = [r EXCEPT !.due = 0] /\ lk = [link EXCEPT ![l].due = 0]
  OBVIOUS
<1>6. /\ d \in LinkState
      /\ d.used = r.used /\ d.peer = r.peer /\ d.outbound = r.outbound
      /\ d.installed = r.installed /\ d.dead = r.dead /\ d.closing = r.closing
      /\ d.released = r.released /\ d.quota = r.quota
      /\ d.resp = r.resp /\ d.tasks = r.tasks /\ d.due = 0
  <2>1. 0 \in 0 .. 3
    OBVIOUS
  <2> QED BY <1>2, <1>5, <2>1 DEF LinkState
<1>7. lk = [link EXCEPT ![l] = d]
  BY <1>1, <1>2, <1>5
<1>8. CASE r.dead
  <2>1. link' = lk /\ UNCHANGED <<byIdentity, byEndpoint>>
    BY <1>1, <1>5, <1>8 DEF Unregistered
  <2>2. Sound(d) /\ SameLink(r, d) /\ d.closing
    BY <1>2, <1>4, <1>6, <1>8 DEF Sound, Counted, SameLink
  <2>3. Ages({l}, {})
    BY <1>1, <1>6, <1>7, <2>1, <2>2, OneAges
  <2> QED BY <1>2, <1>7, <2>1, <2>2, <2>3
<1>9. CASE ~r.dead
  <2>1. PICK lost, f, n : /\ lost = [lk EXCEPT ![l].dead = TRUE, ![l].closing = TRUE]
                          /\ f = [d EXCEPT !.dead = TRUE, !.closing = TRUE] /\ n = r.resp - 1
    OBVIOUS
  <2>2. ExitDone(lost, l)
    BY <1>1, <1>5, <1>9, <2>1 DEF Unregistered
  <2>3. /\ f \in LinkState
        /\ f.used = r.used /\ f.peer = r.peer /\ f.outbound = r.outbound
        /\ f.installed = r.installed /\ f.dead /\ f.closing
        /\ f.released = r.released /\ f.quota = r.quota
        /\ f.resp = r.resp /\ f.tasks = r.tasks /\ f.due = 0
    BY <1>6, <2>1 DEF LinkState
  <2>4. lost = [link EXCEPT ![l] = f]
    BY <1>2, <1>6, <1>7, <2>1
  <2>5. PICK q : q = [f EXCEPT !.resp = n]
    OBVIOUS
  <2>6. n \in -1 .. 3 /\ n = 1 + r.tasks - 1
    BY <1>4, <1>9, <2>1
  <2>7. /\ q \in LinkState
        /\ q.used = r.used /\ q.peer = r.peer /\ q.outbound = r.outbound
        /\ q.installed = r.installed /\ q.dead /\ q.closing
        /\ q.released = r.released /\ q.quota = r.quota
        /\ q.resp = n /\ q.tasks = r.tasks /\ q.due = 0
    BY <2>3, <2>5, <2>6 DEF LinkState
  <2>8. [lost EXCEPT ![l].resp = @ - 1] = [link EXCEPT ![l] = q]
    <3>1. lost[l] = f /\ lost[l].resp - 1 = n
      BY <1>2, <2>1, <2>3, <2>4
    <3>2. [lost[l] EXCEPT !.resp = n] = q
      BY <2>5, <3>1
    <3>3. [lost EXCEPT ![l].resp = @ - 1] = [lost EXCEPT ![l] = [lost[l] EXCEPT !.resp = lost[l].resp - 1]]
      OBVIOUS
    <3>4. [lost EXCEPT ![l].resp = @ - 1] = [lost EXCEPT ![l] = q]
      BY <3>1, <3>2, <3>3
    <3> QED BY <1>2, <2>4, <3>4
  <2>9. Sound(q) /\ SameLink(r, q)
    BY <1>2, <1>4, <2>6, <2>7 DEF Sound, Counted, SameLink
  <2> QED BY <1>1, <2>2, <2>7, <2>8, <2>9, ExitDoneAges
<1> QED BY <1>8, <1>9

\* A reader or writer ends.
LEMMA TaskEndsAges ==
  ASSUME OwnerConstants, LinkTypes, Sounds, NEW l \in Link, TaskEnds(l)
  PROVE  Ages({}, {})
<1> DEFINE r == link[l]
<1>1. r \in LinkState /\ Sound(r) /\ link \in [Link -> LinkState] /\ r.tasks > 0
  BY DEF LinkTypes, Sounds, TaskEnds
<1>2. r.installed
  BY <1>1 DEF Sound, LinkState
<1>3. CASE Kill(l)
  BY <1>2, <1>3, KillAges
<1>4. CASE r.dead /\ ExitDone([link EXCEPT ![l].tasks = @ - 1], l)
  <2> DEFINE n == r.tasks - 1
             m == r.resp - 1
             d == [r EXCEPT !.tasks = n]
             q == [d EXCEPT !.resp = m]
             lk == [link EXCEPT ![l].tasks = @ - 1]
  <2>1. /\ n \in 0 .. 1 /\ m \in -1 .. 2 /\ m \in {n, n + 1} /\ n = r.tasks - 1
        /\ r.due \in 0 .. 2 /\ r.tasks \in 1 .. 2 /\ r.tasks + r.due <= 2
    <3>1. /\ r.tasks \in 1 .. 2 /\ r.due \in 0 .. 3 /\ r.resp \in Int
          /\ r.resp \in {Counted(r) - 1, Counted(r)}
          /\ r.tasks + r.due <= IF r.due = 3 THEN 3 ELSE 2
      BY <1>1, <1>2 DEF Sound, LinkState
    <3>2. r.due \in 0 .. 2 /\ r.tasks + r.due <= 2
      BY <3>1
    <3>3. Counted(r) = 1 + r.tasks
      BY <3>1, <3>2 DEF Counted
    <3> HIDE DEF r
    <3> QED BY <3>1, <3>2, <3>3
  <2>2. lk = [link EXCEPT ![l] = d]
    BY <1>1
  <2>3. /\ d \in LinkState
        /\ d.used = r.used /\ d.peer = r.peer /\ d.outbound = r.outbound
        /\ d.installed = r.installed /\ d.dead = r.dead /\ d.closing = r.closing
        /\ d.released = r.released /\ d.resp = r.resp /\ d.tasks = n /\ d.due = r.due
    <3> HIDE DEF r, n
    <3> QED BY <1>1, <2>1 DEF LinkState
  <2>4. ExitDone(lk, l)
    BY <1>4
  <2> HIDE DEF lk, d
  <2>5. [lk EXCEPT ![l].resp = @ - 1] = [link EXCEPT ![l] = q]
    <3>1. lk[l] = d /\ lk \in [Link -> LinkState]
      BY <1>1, <2>2, <2>3
    <3>2. [lk EXCEPT ![l].resp = @ - 1] = [lk EXCEPT ![l] = q]
      BY <2>3, <3>1
    <3> HIDE DEF q
    <3> QED BY <1>1, <2>2, <3>2
  <2>6. /\ q \in LinkState
        /\ q.used = r.used /\ q.peer = r.peer /\ q.outbound = r.outbound
        /\ q.installed = r.installed /\ q.dead = r.dead /\ q.closing = r.closing
        /\ q.released = r.released /\ q.resp = m /\ q.tasks = n /\ q.due = r.due
    <3> HIDE DEF r, n, m
    <3> QED BY <2>1, <2>3 DEF LinkState
  <2> HIDE DEF q, n, m
  <2>7. Sound(q) /\ SameLink(r, q) /\ (Unborn(r) => Unborn(q))
    <3>1. Sound(r) /\ r.installed /\ r.dead
      BY <1>1, <1>2, <1>4
    <3> HIDE DEF r
    <3>2. Counted(q) = 1 + n
      BY <2>1, <2>6 DEF Counted
    <3>3. q.resp \in {Counted(q) - 1, Counted(q)}
      BY <2>1, <2>6, <3>2
    <3>4. q.tasks + q.due <= IF q.due = 3 THEN 3 ELSE 2
      BY <2>1, <2>6
    <3> HIDE DEF Counted
    <3> QED BY <2>6, <3>1, <3>3, <3>4 DEF Sound, SameLink, Unborn
  <2>8. SameLink(link[l], q) /\ (l \in {} \/ (Unborn(link[l]) => Unborn(q)))
    BY <2>7
  <2> HIDE DEF r
  <2> QED BY <2>4, <2>5, <2>6, <2>7, <2>8, ExitDoneAges
<1> QED BY <1>3, <1>4 DEF TaskEnds

\* The loser of an election is fenced before it was ever installed.
LEMMA LoserAges ==
  ASSUME LinkTypes, Sounds, NEW l \in Link, link[l].used, ~link[l].installed,
         link' = [link EXCEPT ![l].dead = TRUE, ![l].closing = TRUE],
         byIdentity' = byIdentity, byEndpoint' \in [Endpoint -> Link \cup {None}]
  PROVE  Ages({}, {}) /\ link'[l].closing
<1> DEFINE r == link[l]
           q == [r EXCEPT !.dead = TRUE, !.closing = TRUE]
<1>1. r \in LinkState /\ Sound(r) /\ link \in [Link -> LinkState] /\ r.used /\ ~r.installed
  BY DEF LinkTypes, Sounds
<1>2. link' = [link EXCEPT ![l] = q]
  BY <1>1
<1>3. /\ q \in LinkState
      /\ q.used = r.used /\ q.peer = r.peer /\ q.outbound = r.outbound
      /\ q.installed = r.installed /\ q.dead /\ q.closing /\ q.quota = r.quota
      /\ q.released = r.released /\ q.resp = r.resp /\ q.tasks = r.tasks /\ q.due = r.due
  <2> HIDE DEF r
  <2> QED BY <1>1 DEF LinkState
<1> HIDE DEF q
<1>4. Sound(q) /\ SameLink(r, q) /\ (Unborn(r) => Unborn(q))
  <2> HIDE DEF r
  <2> QED BY <1>1, <1>3 DEF Sound, SameLink, Unborn, LinkState
<1>5. link' \in [Link -> LinkState] /\ link'[l] = q /\ \A k \in Link : k # l => link'[k] = link[k]
  BY <1>1, <1>2, <1>3
<1>6. Grows(link', {}, {})
  <2>1. ASSUME NEW k \in Link
        PROVE  /\ Sound(link'[k]) /\ SameLink(link[k], link'[k])
               /\ Unborn(link[k]) => Unborn(link'[k])
    <3>1. CASE k = l
      BY <1>4, <1>5, <3>1
    <3>2. CASE k # l
      BY <1>5, <3>2 DEF SameLink, Sounds
    <3> QED BY <3>1, <3>2
  <2> QED BY <1>5, <2>1 DEF Grows
<1> QED BY <1>3, <1>5, <1>6, Zenon DEF Ages, LinkTypes

\* The engine has released the connection, or the peer has ended it.
LEMMA ReleasedAges ==
  ASSUME LinkTypes, Sounds, NEW l \in Link, Released(l)
  PROVE  Ages({}, {})
<1> DEFINE r == link[l]
           q == [r EXCEPT !.released = TRUE]
<1>1. r \in LinkState /\ Sound(r) /\ link \in [Link -> LinkState] /\ r.closing /\ r.quota
  BY DEF LinkTypes, Sounds, Released
<1>2. link' = [link EXCEPT ![l] = q] /\ UNCHANGED <<byIdentity, byEndpoint>>
  BY <1>1 DEF Released
<1>3. /\ q \in LinkState
      /\ q.used = r.used /\ q.peer = r.peer /\ q.outbound = r.outbound
      /\ q.installed = r.installed /\ q.dead = r.dead /\ q.closing /\ q.quota = r.quota
      /\ q.resp = r.resp /\ q.tasks = r.tasks /\ q.due = r.due
  <2> HIDE DEF r
  <2> QED BY <1>1 DEF LinkState
<1> HIDE DEF q
<1>4. Sound(q) /\ SameLink(r, q) /\ (Unborn(r) => Unborn(q))
  <2> HIDE DEF r
  <2> QED BY <1>1, <1>3 DEF Sound, Counted, SameLink, Unborn
<1>5. SameLink(link[l], q) /\ (l \in {} \/ (Unborn(link[l]) => Unborn(q)))
  BY <1>4
<1> HIDE DEF r
<1> QED BY <1>2, <1>3, <1>4, <1>5, OneAges

-----------------------------------------------------------------------------
(***************************************************************************)
(* The parts of the invariant when links age.                              *)
(***************************************************************************)

\* The step forgets a connection that is to be closed or killed only when it closes it.
Kept ==
  \A l \in Link : /\ l \in toClose => l \in toClose' \/ link'[l].closing
                  /\ Doomed(l) => Doomed(l)' \/ link'[l].closing

LEMMA AgesMean ==
  ASSUME Sounds, LinkTypes, NEW S, NEW N, Ages(S, N), NEW l \in Link
  PROVE  /\ link'[l].installed = link[l].installed
         /\ link[l].used => /\ link'[l].used /\ l \notin N
                            /\ link'[l].peer = link[l].peer
                            /\ link'[l].outbound = link[l].outbound
                            /\ link[l].closing => link'[l].closing
         /\ link[l].installed => link[l].used
         /\ link[l].outbound => link[l].used
         /\ l \notin S /\ Unborn(link[l]) => Unborn(link'[l])
         /\ l \in N => link'[l].used
         /\ l \notin N => /\ link'[l].outbound = link[l].outbound
                          /\ link[l].closing => link'[l].closing
<1>1. /\ link[l] \in LinkState /\ Sound(link[l])
      /\ l \in S \/ (Unborn(link[l]) => Unborn(link'[l]))
      /\ l \notin N => SameLink(link[l], link'[l])
      /\ l \in N => Opened(link[l], link'[l])
      /\ link'[l] \in LinkState
  BY DEF Ages, Grows, Sounds, LinkTypes
<1>2. /\ link[l].used \in BOOLEAN /\ link[l].installed \in BOOLEAN /\ link[l].outbound \in BOOLEAN
      /\ link'[l].used \in BOOLEAN /\ link'[l].installed \in BOOLEAN
      /\ ~link[l].used => ~link[l].installed /\ ~link[l].outbound
  BY <1>1 DEF LinkState, Sound
<1>3. CASE l \in N
  BY <1>1, <1>2, <1>3 DEF Opened
<1>4. CASE l \notin N
  BY <1>1, <1>2, <1>4 DEF SameLink
<1> QED BY <1>3, <1>4

LEMMA LinkTypesAge ==
  ASSUME NEW S, NEW N, Ages(S, N) PROVE LinkTypes' /\ Sounds'
BY DEF Ages, Grows, LinkTypes, Sounds

LEMMA RegistryAges ==
  ASSUME OwnerConstants, LinkTypes, Sounds, Registered, NEW S, NEW N, Ages(S, N)
  PROVE  /\ \A p \in Peer : byIdentity'[p] # None =>
              link'[byIdentity'[p]].installed /\ link'[byIdentity'[p]].peer = p
         /\ InRegistry' \subseteq InRegistry
<1>1. ASSUME NEW p \in Peer, byIdentity'[p] # None
      PROVE  byIdentity'[p] = byIdentity[p] /\ byIdentity[p] \in Link
  <2>1. byIdentity'[p] = byIdentity[p]
    BY <1>1 DEF Ages, Leaves
  <2> QED BY <1>1, <2>1 DEF LinkTypes
<1>2. ASSUME NEW p \in Peer, byIdentity'[p] # None
      PROVE  link'[byIdentity'[p]].installed /\ link'[byIdentity'[p]].peer = p
  <2>1. byIdentity'[p] = byIdentity[p] /\ byIdentity[p] \in Link /\ byIdentity[p] # None
    BY <1>1, <1>2
  <2>2. link[byIdentity[p]].installed /\ link[byIdentity[p]].peer = p
    BY <2>1 DEF Registered
  <2> QED BY <2>1, <2>2, AgesMean
<1>3. InRegistry' \subseteq InRegistry
  BY <1>1 DEF InRegistry
<1> QED BY <1>2, <1>3

LEMMA RegisteredAges ==
  ASSUME OwnerConstants, LinkTypes, Sounds, Registered, NEW S, NEW N, Ages(S, N),
         Reserved' \subseteq Reserved
  PROVE  Registered'
<1>2. \A p \in Peer : byIdentity'[p] # None =>
        link'[byIdentity'[p]].installed /\ link'[byIdentity'[p]].peer = p
  BY RegistryAges
<1>3. InRegistry' \subseteq InRegistry
  BY RegistryAges
<1>4. IsFiniteSet(InRegistry) /\ IsFiniteSet(Reserved)
      /\ Cardinality(InRegistry) + Cardinality(Reserved) <= MaxSessions
  BY DEF Registered
<1>5. IsFiniteSet(InRegistry') /\ Cardinality(InRegistry') <= Cardinality(InRegistry)
      /\ IsFiniteSet(Reserved') /\ Cardinality(Reserved') <= Cardinality(Reserved)
  BY <1>3, <1>4, FS_Subset
<1>6. Cardinality(InRegistry') \in Nat /\ Cardinality(Reserved') \in Nat
      /\ Cardinality(InRegistry) \in Nat /\ Cardinality(Reserved) \in Nat
  BY <1>4, <1>5, FS_CardinalityType
<1>7. Cardinality(InRegistry') + Cardinality(Reserved') <= MaxSessions
  BY <1>4, <1>5, <1>6 DEF OwnerConstants
<1> QED BY <1>2, <1>5, <1>7 DEF Registered

LEMMA TargetsAge ==
  ASSUME LinkTypes, Sounds, NEW S, NEW N, Ages(S, N),
         \A l \in toKill' \cup ToSet(ledger') : l \in Link /\ link[l].installed,
         \A l \in Link : other'[l] # None => other'[l] \in Link /\ link[other'[l]].installed
  PROVE  Targets'
<1>1. ASSUME NEW l \in toKill' \cup ToSet(ledger') PROVE link'[l].installed
  BY AgesMean
<1>2. ASSUME NEW l \in Link, other'[l] # None PROVE link'[other'[l]].installed
  BY <1>2, AgesMean
<1> QED BY <1>1, <1>2 DEF Targets

LEMMA OneOpenAges ==
  ASSUME LinkTypes, Sounds, OneOpen, NEW S, NEW N, Ages(S, N), Kept
  PROVE  OneOpen'
<1> SUFFICES ASSUME NEW l \in Link, link'[l].installed, ~link'[l].closing
             PROVE  byIdentity'[link'[l].peer] = l \/ Doomed(l)'
  BY DEF OneOpen
<1>1. link[l].installed /\ ~link[l].closing /\ link'[l].peer = link[l].peer
  BY AgesMean
<1>2. link[l].peer \in Peer
  BY <1>1, AgesMean DEF Sounds, Sound
<1>3. CASE byIdentity[link[l].peer] = l
  <2>1. ~Leaves(link[l].peer)
    BY <1>3 DEF Leaves
  <2> QED BY <1>1, <1>2, <1>3, <2>1 DEF Ages
<1>4. CASE Doomed(l)
  BY <1>4 DEF Kept
<1> QED BY <1>1, <1>3, <1>4 DEF OneOpen

\* A caller that the step leaves where it is.
LEMMA WorkerStays ==
  ASSUME OwnerConstants, LinkTypes, CallTypes, Sounds, Dialled,
         NEW c \in Caller, Worker(c), NEW S, NEW N, Ages(S, N),
         at'[c] = at[c], Where(c) = "spawn" => got'[c] = got[c] /\ got[c] \notin S,
         Where(c) \in AtWork => establishing'[Key(c)].conn = establishing[Key(c)].conn,
         Where(c) \in AtWork \cup {"wait"} => establishing'[Key(c)].open
  PROVE  Worker(c)'
<1> DEFINE w == Where(c)
           e == Key(c)
           k == establishing[e].conn
<1>1. WorkerFits(w, e, got[c], establishing, link)
  BY DEF Worker
<1>2. Where(c)' = w /\ Key(c)' = e
  BY DEF Where, Key
<1>3. w \in AtWork => e \in Endpoint /\ (k # None => k \in Link /\ link[k].outbound /\ link[k].used)
  <2>1. ASSUME w \in AtWork PROVE e \in Endpoint
    BY <1>1, <2>1 DEF WorkerFits
  <2>2. ASSUME w \in AtWork, k # None PROVE k \in Link /\ link[k].outbound
    BY <2>1, <2>2 DEF Dialled, CallTypes, Record
  <2>3. ASSUME w \in AtWork, k # None PROVE link[k].used
    BY <2>2, <2>3 DEF Sounds, Sound
  <2> QED BY <2>1, <2>2, <2>3
<1> DEFINE k2 == establishing'[e].conn
<1>4. w \in AtWork => k2 = k
  OBVIOUS
<1>5. w \in {"shake", "install"} => k # None /\ ~link'[k].installed
  <2>1. ASSUME w \in {"shake", "install"}
        PROVE w \in AtWork /\ k # None /\ ~link[k].installed
    BY <1>1, <2>1 DEF WorkerFits, AtWork
  <2>2. ASSUME w \in {"shake", "install"} PROVE k \in Link
    BY <1>3, <2>1, <2>2
  <2> HIDE DEF w, k
  <2> QED BY <2>1, <2>2, AgesMean
<1>6. w = "spawn" => k # None /\ got'[c] = k /\ link'[k].installed /\ Unborn(link'[k])
  <2>1. ASSUME w = "spawn"
        PROVE /\ w \in AtWork /\ k # None /\ got'[c] = k
              /\ link[k].installed /\ Unborn(link[k]) /\ k \notin S
    BY <1>1, <2>1 DEF WorkerFits, AtWork
  <2>2. ASSUME w = "spawn" PROVE k \in Link
    BY <1>3, <2>1, <2>2
  <2> HIDE DEF w, k
  <2> QED BY <2>1, <2>2, AgesMean
<1>7. w = "made" => k # None /\ (link'[k].installed \/ link'[k].closing)
  <2>1. ASSUME w = "made"
        PROVE w \in AtWork /\ k # None /\ (link[k].installed \/ link[k].closing)
    BY <1>1, <2>1 DEF WorkerFits, AtWork
  <2>2. ASSUME w = "made" PROVE k \in Link /\ link[k].used
    BY <1>3, <2>1, <2>2
  <2> HIDE DEF w, k
  <2> QED BY <2>1, <2>2, AgesMean
<1>8. /\ w \in AtWork \cup {"get", "wait", "told", "use"} => e \in Endpoint
      /\ w \in AtWork \cup {"wait"} => establishing'[e].open
      /\ w = "dial" => k = None
  BY <1>1 DEF WorkerFits
<1>9. {"dial", "shake", "install", "spawn", "made"} \subseteq AtWork
  BY DEF AtWork
<1> HIDE DEF w, e, k, k2
<1>10. WorkerFits(w, e, got'[c], establishing', link')
  <2>1. w \in {"dial", "shake", "install", "spawn", "made"} => k2 = k
    BY <1>4, <1>9
  <2> QED BY <1>5, <1>6, <1>7, <1>8, <2>1 DEF WorkerFits, k2
<1> QED BY <1>2, <1>10 DEF Worker

LEMMA DialledAges ==
  ASSUME LinkTypes, CallTypes, Sounds, Dialled, NEW S, NEW N, Ages(S, N),
         OwnerConstants, UNCHANGED establishing,
         \A l \in N \cap Link : ~link'[l].outbound
  PROVE  Dialled'
<1>1. ASSUME NEW e \in Endpoint, establishing[e].conn # None
      PROVE  establishing[e].open /\ link'[establishing[e].conn].outbound
  <2>1. establishing[e].conn \in Link /\ establishing[e].open /\ link[establishing[e].conn].outbound
    BY <1>1 DEF CallTypes, Record, Dialled
  <2> QED BY <2>1, AgesMean
<1>2. ASSUME NEW l \in Link, link'[l].outbound, ~link'[l].installed, ~link'[l].closing
      PROVE  \E e \in Endpoint : establishing[e].conn = l
  <2>1. l \notin N
    BY <1>2
  <2>2. link[l].outbound /\ ~link[l].installed /\ ~link[l].closing
    BY <1>2, <2>1, AgesMean
  <2> QED BY <2>2 DEF Dialled
<1>3. \A e, f \in Endpoint :
        establishing[e].conn = establishing[f].conn /\ establishing[e].conn # None => e = f
  BY DEF Dialled
<1> QED BY <1>1, <1>2, <1>3 DEF Dialled

\* A connection that the step leaves where it is served.
LEMMA ServeStays ==
  ASSUME LinkTypes, ServeTypes, Sounds, NEW l \in Link, ServeFits(l), NEW S, NEW N, Ages(S, N),
         serve'[l] = serve[l], l \in handshakes => l \in handshakes',
         l \in ToSet(ledger) => l \in ToSet(ledger') \/ link'[l].closing,
         sealed => sealed', other'[l] = other[l] \/ link[l].installed,
         serve[l] = "spawn" => l \notin S
  PROVE  ServeFits(l)'
<1> DEFINE w == serve[l]
<1>1. CASE w = "none"
  BY <1>1 DEF ServeFits, AtHand
<1>2. CASE w # "none"
  <2>1. link[l].used /\ ~link[l].outbound
    BY <1>2 DEF ServeFits
  <2>2. /\ link'[l].used /\ ~link'[l].outbound /\ link'[l].installed = link[l].installed
        /\ link[l].closing => link'[l].closing
        /\ w = "spawn" /\ Unborn(link[l]) => Unborn(link'[l])
    BY <2>1, AgesMean
  <2>3. /\ w \in AtHand => l \in handshakes
        /\ w \in {"shake", "check", "install"} => ~link[l].installed
        /\ w = "spawn" => link[l].installed /\ Unborn(link[l])
        /\ w = "enter" => link[l].installed \/ (link[l].closing /\ other[l] # None)
        /\ w = "drop" => link[l].closing
        /\ w = "over" => link[l].closing \/ l \in ToSet(ledger)
        /\ w = "close" => sealed
    BY DEF ServeFits
  <2> HIDE DEF w
  <2>4. serve'[l] = w
    BY DEF w
  <2> QED BY <2>2, <2>3, <2>4, Zenon DEF ServeFits
<1> QED BY <1>1, <1>2

LEMMA ReachedStays ==
  ASSUME LinkTypes, Sounds, NEW S, NEW N, Ages(S, N), Kept, NEW l \in Link, l \notin N,
         Reached(l)
  PROVE  Reached(l)'
<1>1. CASE link[l].closing
  BY <1>1, AgesMean DEF Reached
<1>2. CASE l \in toClose
  BY <1>2 DEF Kept, Reached
<1>3. CASE Doomed(l)
  BY <1>3 DEF Kept, Reached
<1> QED BY <1>1, <1>2, <1>3 DEF Reached

LEMMA OwnerReachesAges ==
  ASSUME LinkTypes, Sounds, OwnerReaches, NEW S, NEW N, Ages(S, N), Kept, UNCHANGED closed,
         \A l \in N \cap Link : link'[l].outbound /\ closed => link'[l].closing
  PROVE  OwnerReaches'
<1> SUFFICES ASSUME closed, NEW l \in Link, link'[l].outbound \/ link'[l].installed
             PROVE  Reached(l)'
  BY DEF OwnerReaches
<1>1. CASE l \in N
  <2>1. ~link'[l].installed
    BY <1>1 DEF Ages, Grows, Opened
  <2> QED BY <1>1, <2>1 DEF Reached
<1>2. CASE l \notin N
  <2>1. link[l].outbound \/ link[l].installed
    BY <1>2, AgesMean
  <2> QED BY <1>2, <2>1, ReachedStays DEF OwnerReaches
<1> QED BY <1>1, <1>2

LEMMA ServerReachesAges ==
  ASSUME LinkTypes, Sounds, ServerReaches, Serving, NEW S, NEW N, Ages(S, N), Kept,
         UNCHANGED sealed,
         \A l \in Link : \/ serve'[l] = serve[l]
                         \/ serve[l] # "none" /\ serve[l] # "close"
                         \/ ~sealed \/ link'[l].closing
  PROVE  ServerReaches'
<1> SUFFICES ASSUME sealed, NEW l \in Link, serve'[l] # "none"
             PROVE  Reached(l)' \/ serve'[l] = "close"
  BY DEF ServerReaches
<1>1. CASE link'[l].closing
  BY <1>1 DEF Reached
<1>2. CASE serve[l] # "none" /\ ~link'[l].closing
  <2>1. l \notin N
    BY <1>2, AgesMean DEF Serving, ServeFits
  <2>2. CASE Reached(l)
    BY <2>1, <2>2, ReachedStays
  <2>3. CASE serve[l] = "close"
    BY <1>2, <2>3
  <2> QED BY <1>2, <2>2, <2>3 DEF ServerReaches
<1> QED BY <1>1, <1>2

-----------------------------------------------------------------------------
(***************************************************************************)
(* The steps that only age links.                                          *)
(***************************************************************************)

LEMMA AgeStep ==
  ASSUME OwnerConstants, OwnerInv, Ages({}, {}), UNCHANGED <<ownVars, callVars, srvVars>>, Kept,
         toKill' \subseteq toKill, toClose' \subseteq toClose,
         other' \in [Link -> Link \cup {None}],
         \A l \in Link : other'[l] = other[l] \/ (other'[l] = None /\ link[l].installed)
  PROVE  OwnerInv'
<1>1. /\ LinkTypes /\ CallTypes /\ ServeTypes /\ Sounds /\ Registered /\ Targets /\ OneOpen
      /\ Workers /\ OneWorker /\ Dialled /\ Serving /\ OwnerReaches /\ ServerReaches /\ Quiescent
  BY DEF OwnerInv
<1>2. /\ closed' = closed /\ shut' = shut /\ ops' = ops /\ at' = at /\ got' = got
      /\ establishing' = establishing /\ ledger' = ledger /\ handshakes' = handshakes
      /\ sealed' = sealed /\ serve' = serve
  BY DEF ownVars, callVars, srvVars
<1>3. LinkTypes' /\ Sounds'
  BY LinkTypesAge
<1>4. CallTypes'
  BY <1>1, <1>2 DEF CallTypes
<1>5. ServeTypes'
  BY <1>1, <1>2 DEF ServeTypes
<1>6. Registered'
  <2>1. Reserved' \subseteq Reserved
    BY <1>2 DEF Reserved
  <2> QED BY <1>1, <2>1, RegisteredAges
<1>7. Targets'
  <2>1. ASSUME NEW l \in toKill' \cup ToSet(ledger') PROVE l \in Link /\ link[l].installed
    <3>1. ToSet(ledger) \subseteq Link
      BY <1>1 DEF ServeTypes, ToSet
    <3> QED BY <1>1, <1>2, <3>1 DEF Targets, ServeTypes
  <2>2. ASSUME NEW l \in Link, other'[l] # None
        PROVE other'[l] \in Link /\ link[other'[l]].installed
    BY <1>1, <2>2 DEF Targets, ServeTypes
  <2> QED BY <1>1, <2>1, <2>2, TargetsAge
<1>8. OneOpen'
  BY <1>1, OneOpenAges
<1>9. Workers'
  <2>1. ASSUME NEW c \in Caller PROVE Worker(c)'
    <3>1. Worker(c)
      BY <1>1 DEF Workers
    <3>2. Where(c) \in AtWork \cup {"wait"} => establishing'[Key(c)].open
      BY <1>2, <3>1 DEF Worker, WorkerFits
    <3> QED BY <1>1, <1>2, <3>1, <3>2, WorkerStays
  <2> QED BY <2>1 DEF Workers
<1>10. OneWorker'
  BY <1>1, <1>2 DEF OneWorker, Where, Key
<1>11. Dialled'
  BY <1>1, <1>2, DialledAges
<1>12. Serving'
  <2>1. ASSUME NEW l \in Link PROVE ServeFits(l)'
    <3>1. ServeFits(l)
      BY <1>1 DEF Serving
    <3> QED BY <1>1, <1>2, <3>1, ServeStays
  <2> QED BY <2>1 DEF Serving
<1>13. OwnerReaches'
  BY <1>1, <1>2, OwnerReachesAges
<1>14. ServerReaches'
  BY <1>1, <1>2, ServerReachesAges
<1>15. Quiescent'
  BY <1>1, <1>2 DEF Quiescent
<1> QED BY <1>3, <1>4, <1>5, <1>6, <1>7, <1>8, <1>9, <1>10, <1>11, <1>12, <1>13, <1>14, <1>15
        DEF OwnerInv

LEMMA LinkStepKeeps ==
  ASSUME OwnerConstants, OwnerInv, NEW l \in Link, LinkStep(l) PROVE OwnerInv'
<1>1. LinkTypes /\ Sounds /\ ServeTypes /\ Targets
  BY DEF OwnerInv
<1>2. CASE TaskEnds(l)
  <2>1. UNCHANGED <<ownVars, callVars, srvVars, sealVars>>
    BY <1>2 DEF TaskEnds
  <2>2. other' = other /\ toKill' = toKill /\ toClose' = toClose
    BY <2>1 DEF sealVars
  <2>3. Ages({}, {})
    BY <1>1, <1>2, TaskEndsAges
  <2>4. Kept
    <3>1. ASSUME NEW k \in Link, Doomed(k) PROVE Doomed(k)'
      BY <2>2, <2>3, <3>1, <1>1, AgesMean DEF Doomed
    <3> QED BY <2>2, <3>1 DEF Kept
  <2> QED BY <1>1, <2>1, <2>2, <2>3, <2>4, AgeStep DEF ServeTypes
<1>3. CASE Released(l)
  <2>1. UNCHANGED <<ownVars, callVars, srvVars, sealVars>>
    BY <1>3 DEF Released
  <2>2. other' = other /\ toKill' = toKill /\ toClose' = toClose
    BY <2>1 DEF sealVars
  <2>3. Ages({}, {})
    BY <1>1, <1>3, ReleasedAges
  <2>4. Kept
    <3>1. ASSUME NEW k \in Link, Doomed(k) PROVE Doomed(k)'
      BY <2>2, <2>3, <3>1, <1>1, AgesMean DEF Doomed
    <3> QED BY <2>2, <3>1 DEF Kept
  <2> QED BY <1>1, <2>1, <2>2, <2>3, <2>4, AgeStep DEF ServeTypes
<1>4. CASE Evict(l)
  <2> DEFINE old == other[l]
  <2>1. /\ UNCHANGED <<ownVars, callVars, srvVars>> /\ toKill' = toKill /\ toClose' = toClose
        /\ other' = [other EXCEPT ![l] = None] /\ Kill(old) /\ old # None /\ link[l].installed
    BY <1>4 DEF Evict
  <2>2. old \in Link /\ link[old].installed
    BY <1>1, <2>1 DEF ServeTypes, Targets
  <2>3. Ages({}, {}) /\ link'[old].closing
    <3> HIDE DEF old
    <3> QED BY <1>1, <2>1, <2>2, KillAges
  <2>4. /\ other' \in [Link -> Link \cup {None}] /\ other'[l] = None
        /\ \A k \in Link : k # l => other'[k] = other[k]
    BY <1>1, <2>1 DEF ServeTypes
  <2>5. Kept
    <3>1. ASSUME NEW k \in Link, Doomed(k) PROVE Doomed(k)' \/ link'[k].closing
      <4>1. CASE k = old
        BY <2>3, <4>1
      <4>2. CASE k \in toKill
        BY <2>1, <4>2 DEF Doomed
      <4>3. CASE k # old /\ k \notin toKill
        <5>1. PICK j \in Link : link[j].installed /\ other[j] = k
          BY <3>1, <4>3 DEF Doomed
        <5>2. j # l
          BY <4>3, <5>1
        <5>3. link'[j].installed /\ other'[j] = k
          BY <1>1, <2>3, <2>4, <5>1, <5>2, AgesMean
        <5> QED BY <5>3 DEF Doomed
      <4> QED BY <4>1, <4>2, <4>3
    <3> QED BY <2>1, <3>1 DEF Kept
  <2>6. \A k \in Link : other'[k] = other[k] \/ (other'[k] = None /\ link[k].installed)
    BY <2>1, <2>4
  <2> QED BY <2>1, <2>3, <2>4, <2>5, <2>6, AgeStep
<1>5. CASE KillNext(l)
  <2>1. /\ UNCHANGED <<ownVars, callVars, srvVars>> /\ other' = other /\ toClose' = toClose
        /\ toKill' = toKill \ {l} /\ Kill(l) /\ l \in toKill
    BY <1>5 DEF KillNext
  <2>2. Ages({}, {}) /\ link'[l].closing
    BY <1>1, <2>1, KillAges DEF Targets
  <2>3. Kept
    <3>1. ASSUME NEW k \in Link, Doomed(k) PROVE Doomed(k)' \/ link'[k].closing
      BY <2>1, <2>2, <3>1, <1>1, AgesMean DEF Doomed
    <3> QED BY <2>1, <3>1 DEF Kept
  <2> QED BY <1>1, <2>1, <2>2, <2>3, AgeStep DEF ServeTypes
<1>6. CASE CloseNext(l)
  <2>1. /\ UNCHANGED <<ownVars, callVars, srvVars>> /\ other' = other /\ toKill' = toKill
        /\ toClose' = toClose \ {l} /\ link' = RequestClose(link, {l})
        /\ UNCHANGED <<byIdentity, byEndpoint>>
    BY <1>6 DEF CloseNext
  <2>2. Ages({}, {}) /\ link'[l].closing
    BY <1>1, <2>1, RequestCloseAges
  <2>3. Kept
    <3>1. ASSUME NEW k \in Link, Doomed(k) PROVE Doomed(k)' \/ link'[k].closing
      BY <2>1, <2>2, <3>1, <1>1, AgesMean DEF Doomed
    <3> QED BY <2>1, <2>2, <3>1 DEF Kept
  <2> QED BY <1>1, <2>1, <2>2, <2>3, AgeStep DEF ServeTypes
<1> QED BY <1>2, <1>3, <1>4, <1>5, <1>6 DEF LinkStep

LEMMA BreaksKeeps ==
  ASSUME OwnerConstants, OwnerInv, NEW l \in Link, Breaks(l) PROVE OwnerInv'
<1>1. LinkTypes /\ Sounds /\ ServeTypes
  BY DEF OwnerInv
<1>2. /\ UNCHANGED <<ownVars, callVars, srvVars, sealVars>> /\ link' = RequestClose(link, {l})
      /\ UNCHANGED <<byIdentity, byEndpoint>>
  BY DEF Breaks
<1>3. other' = other /\ toKill' = toKill /\ toClose' = toClose
  BY <1>2 DEF sealVars
<1>4. Ages({}, {})
  BY <1>1, <1>2, RequestCloseAges
<1>5. Kept
  <2>1. ASSUME NEW k \in Link, Doomed(k) PROVE Doomed(k)'
    BY <1>1, <1>3, <1>4, <2>1, AgesMean DEF Doomed
  <2> QED BY <1>3, <2>1 DEF Kept
<1> QED BY <1>1, <1>2, <1>3, <1>4, <1>5, AgeStep DEF ServeTypes

LEMMA SweepReleaseKeeps ==
  ASSUME OwnerConstants, OwnerInv, SweepRelease PROVE OwnerInv'
<1>1. LinkTypes /\ Sounds /\ ServeTypes
  BY DEF OwnerInv
<1>2. UNCHANGED <<ownVars, callVars, srvVars, sealVars>> /\ Drive(link, ToSet(ledger), {})
  BY DEF SweepRelease
<1>3. other' = other /\ toKill' = toKill /\ toClose' = toClose
  BY <1>2 DEF sealVars
<1>4. Ages({}, {})
  <2>1. Grows(link, {}, {})
    BY <1>1 DEF Grows, LinkTypes, Sounds, SameLink
  <2>2. ToSet(ledger) \in SUBSET Link
    BY <1>1 DEF ServeTypes, ToSet
  <2> QED BY <1>1, <1>2, <2>1, <2>2, DriveAges
<1>5. Kept
  <2>1. ASSUME NEW k \in Link, Doomed(k) PROVE Doomed(k)'
    BY <1>1, <1>3, <1>4, <2>1, AgesMean DEF Doomed
  <2> QED BY <1>3, <2>1 DEF Kept
<1> QED BY <1>1, <1>2, <1>3, <1>4, <1>5, AgeStep DEF ServeTypes

\* Nothing that is to be closed or killed is forgotten.
LEMMA KeptAll ==
  ASSUME LinkTypes, Sounds, NEW S, NEW N, Ages(S, N), toKill \subseteq toKill',
         toClose \subseteq toClose',
         \A l \in Link : other'[l] = other[l] \/ ~link[l].installed
  PROVE  Kept
<1>1. ASSUME NEW k \in Link, Doomed(k) PROVE Doomed(k)'
  <2>1. CASE k \in toKill
    BY <2>1 DEF Doomed
  <2>2. CASE \E j \in Link : link[j].installed /\ other[j] = k
    BY <2>2, AgesMean DEF Doomed
  <2> QED BY <1>1, <2>1, <2>2 DEF Doomed
<1> QED BY <1>1 DEF Kept

LEMMA OneWorkerMoves ==
  ASSUME OneWorker,
         \A d \in Caller : /\ Where(d)' \in AtWork <=> Where(d) \in AtWork
                           /\ Where(d) \in AtWork => Key(d)' = Key(d),
         \A e \in Endpoint : establishing'[e].open = establishing[e].open
  PROVE  OneWorker'
<1>1. \A c, d \in Caller : Where(c)' \in AtWork /\ Where(d)' \in AtWork /\ Key(c)' = Key(d)' => c = d
  BY DEF OneWorker
<1>2. ASSUME NEW e \in Endpoint, establishing'[e].open
      PROVE  \E c \in Caller : Key(c)' = e /\ Where(c)' \in AtWork
  <2>1. PICK c \in Caller : Key(c) = e /\ Where(c) \in AtWork
    BY <1>2 DEF OneWorker
  <2> QED BY <2>1
<1> QED BY <1>1, <1>2 DEF OneWorker

\* A caller goes to p; its record stays.
CallerGoes(c, p, e) ==
  /\ at' = [at EXCEPT ![c] = <<p, e>>] /\ UNCHANGED <<ownVars, establishing, srvVars, sealVars>>
  /\ ops' \subseteq Caller /\ (shut = "ok" => ops' \subseteq ops)
  /\ got' \in [Caller -> Link \cup {None}] /\ \A d \in Caller : d # c => got'[d] = got[d]
  /\ Where(c) \in AtWork <=> p \in AtWork
  /\ p \in AtWork => e = Key(c)

\* Nobody else is about to spawn the tasks of a link of S.
SpawnsFor(c, S) ==
  /\ \A d \in Caller : d # c /\ Where(d) = "spawn" => got[d] \notin S
  /\ \A l \in S \cap Link : serve[l] # "spawn"

LEMMA MoveStep ==
  ASSUME OwnerConstants, OwnerInv, NEW c \in Caller, NEW p \in Place,
         NEW e \in Endpoint \cup {None}, NEW S, Ages(S, {}), CallerGoes(c, p, e),
         SpawnsFor(c, S), WorkerFits(p, e, got'[c], establishing, link')
  PROVE  OwnerInv'
<1> USE DEF CallerGoes, SpawnsFor
<1>1. /\ LinkTypes /\ CallTypes /\ ServeTypes /\ Sounds /\ Registered /\ Targets /\ OneOpen
      /\ Workers /\ OneWorker /\ Dialled /\ Serving /\ OwnerReaches /\ ServerReaches /\ Quiescent
  BY DEF OwnerInv
<1>2. /\ closed' = closed /\ shut' = shut /\ establishing' = establishing
      /\ ledger' = ledger /\ handshakes' = handshakes /\ sealed' = sealed /\ serve' = serve
      /\ other' = other /\ toKill' = toKill /\ toClose' = toClose
  BY DEF ownVars, srvVars, sealVars
<1>3. LinkTypes' /\ Sounds'
  BY LinkTypesAge
<1>4. /\ at \in [Caller -> Place \X (Endpoint \cup {None})]
      /\ at' \in [Caller -> Place \X (Endpoint \cup {None})]
      /\ at'[c] = <<p, e>> /\ \A d \in Caller : d # c => at'[d] = at[d]
  BY <1>1 DEF CallTypes
<1>5. CallTypes'
  BY <1>1, <1>2, <1>4 DEF CallTypes
<1>6. ServeTypes'
  BY <1>1, <1>2 DEF ServeTypes
<1>7. Registered'
  <2>1. Reserved' \subseteq Reserved
    BY <1>2 DEF Reserved
  <2> QED BY <1>1, <2>1, RegisteredAges
<1>8. Targets'
  <2>1. ASSUME NEW l \in toKill' \cup ToSet(ledger') PROVE l \in Link /\ link[l].installed
    <3>1. ToSet(ledger) \subseteq Link
      BY <1>1 DEF ServeTypes, ToSet
    <3> QED BY <1>1, <1>2, <3>1 DEF Targets, ServeTypes
  <2>2. ASSUME NEW l \in Link, other'[l] # None
        PROVE other'[l] \in Link /\ link[other'[l]].installed
    BY <1>1, <1>2, <2>2 DEF Targets, ServeTypes
  <2> QED BY <1>1, <2>1, <2>2, TargetsAge
<1>9. Kept
  BY <1>1, <1>2, KeptAll
<1>10. OneOpen'
  BY <1>1, <1>9, OneOpenAges
<1>11. Where(c)' = p /\ Key(c)' = e
       /\ \A d \in Caller : d # c => Where(d)' = Where(d) /\ Key(d)' = Key(d)
  BY <1>4 DEF Where, Key
<1>12. Workers'
  <2>1. ASSUME NEW d \in Caller PROVE Worker(d)'
    <3>1. CASE d = c
      BY <1>2, <1>11, <3>1 DEF Worker
    <3>2. CASE d # c
      <4>1. Worker(d)
        BY <1>1 DEF Workers
      <4>2. Where(d) \in AtWork \cup {"wait"} => establishing'[Key(d)].open
        BY <1>2, <4>1 DEF Worker, WorkerFits
      <4> QED BY <1>1, <1>2, <1>4, <3>2, <4>1, <4>2, WorkerStays
    <3> QED BY <3>1, <3>2
  <2> QED BY <2>1 DEF Workers
<1>13. OneWorker'
  <2>1. ASSUME NEW d \in Caller
        PROVE  /\ Where(d)' \in AtWork <=> Where(d) \in AtWork
               /\ Where(d) \in AtWork => Key(d)' = Key(d)
    BY <1>11
  <2>2. \A f \in Endpoint : establishing'[f].open = establishing[f].open
    BY <1>2
  <2> QED BY <1>1, <2>1, <2>2, OneWorkerMoves
<1>14. Dialled'
  BY <1>1, <1>2, DialledAges
<1>15. Serving'
  <2>1. ASSUME NEW l \in Link PROVE ServeFits(l)'
    <3>1. ServeFits(l)
      BY <1>1 DEF Serving
    <3> QED BY <1>1, <1>2, <3>1, ServeStays
  <2> QED BY <2>1 DEF Serving
<1>16. OwnerReaches'
  BY <1>1, <1>2, <1>9, OwnerReachesAges
<1>17. ServerReaches'
  BY <1>1, <1>2, <1>9, ServerReachesAges
<1>18. Quiescent'
  BY <1>1, <1>2 DEF Quiescent
<1> QED BY <1>3, <1>5, <1>6, <1>7, <1>8, <1>10, <1>12, <1>13, <1>14, <1>15, <1>16, <1>17, <1>18
        DEF OwnerInv

-----------------------------------------------------------------------------
(***************************************************************************)
(* A caller: Call, Send and EstablishOutbound.                             *)
(***************************************************************************)

LEMMA GoMeans ==
  ASSUME CallTypes, NEW c \in Caller, NEW p, Go(c, p)
  PROVE  at' = [at EXCEPT ![c] = <<p, Key(c)>>] /\ Key(c) \in Endpoint \cup {None}
BY DEF CallTypes, Go, Key

LEMMA NoneSpawn == ASSUME NEW c PROVE SpawnsFor(c, {})
BY DEF SpawnsFor

\* Outside of EstablishOutbound and its wait nothing is asked of a caller.
LEMMA Elsewhere ==
  ASSUME NEW p \in {"idle", "end", "done", "use", "told", "failed"}, NEW e, NEW g, NEW est, NEW lk,
         p \in {"use", "told", "failed"} => e \in Endpoint, p = "failed" => est[e].open
  PROVE  WorkerFits(p, e, g, est, lk)
BY DEF WorkerFits, AtWork

LEMMA BeginOperationKeeps ==
  ASSUME OwnerConstants, OwnerInv, NEW c \in Caller, NEW e \in Endpoint, BeginOperation(c, e)
  PROVE  OwnerInv'
<1>1. /\ LinkTypes /\ CallTypes /\ Sounds
      /\ UNCHANGED linkVars /\ UNCHANGED <<ownVars, establishing, srvVars, sealVars>>
      /\ got' = got /\ Where(c) = "idle"
  BY DEF OwnerInv, BeginOperation
<1>2. Ages({}, {})
  BY <1>1, StayAges
<1>3. Where(c) \notin AtWork
  BY <1>1 DEF AtWork
<1>4. ASSUME Admitted, ops' = ops \cup {c}, NEW p \in {"get", "end"}, at' = [at EXCEPT ![c] = <<p, e>>]
      PROVE  OwnerInv'
  <2>1. p \in Place /\ p \notin AtWork /\ WorkerFits(p, e, got'[c], establishing, link')
    BY <1>4 DEF Place, AtWork, WorkerFits
  <2>2. ops' \subseteq Caller /\ (shut = "ok" => ops' \subseteq ops)
    BY <1>1, <1>4 DEF CallTypes, Admitted
  <2>3. got' \in [Caller -> Link \cup {None}]
    BY <1>1 DEF CallTypes
  <2>4. CallerGoes(c, p, e)
    BY <1>1, <1>3, <1>4, <2>1, <2>2, <2>3 DEF CallerGoes
  <2> QED BY <1>2, <2>1, <2>4, NoneSpawn, MoveStep
<1>5. CASE at' = [at EXCEPT ![c] = <<"done", None>>] /\ UNCHANGED ops
  <2>1. "done" \in Place /\ "done" \notin AtWork
        /\ WorkerFits("done", None, got'[c], establishing, link')
    BY DEF Place, AtWork, WorkerFits
  <2>2. ops' \subseteq Caller /\ ops' \subseteq ops /\ got' \in [Caller -> Link \cup {None}]
    BY <1>1, <1>5 DEF CallTypes
  <2>3. CallerGoes(c, "done", None)
    BY <1>1, <1>3, <1>5, <2>1, <2>2 DEF CallerGoes
  <2> QED BY <1>2, <2>1, <2>3, NoneSpawn, MoveStep
<1> QED BY <1>4, <1>5 DEF BeginOperation

\* A caller that is not dialling goes on without a dial of its own.
LEMMA GoOn ==
  ASSUME OwnerConstants, OwnerInv, NEW c \in Caller, Where(c) \notin AtWork,
         NEW p \in {"get", "end", "use", "wait"}, Go(c, p), Ages({}, {}),
         UNCHANGED <<ownVars, ops, establishing, srvVars, sealVars>>,
         got' \in [Caller -> Link \cup {None}], \A d \in Caller : d # c => got'[d] = got[d],
         p \in {"get", "wait", "use"} => Key(c) \in Endpoint,
         p = "wait" => establishing[Key(c)].open
  PROVE  OwnerInv'
<1>1. CallTypes
  BY DEF OwnerInv
<1>2. at' = [at EXCEPT ![c] = <<p, Key(c)>>] /\ Key(c) \in Endpoint \cup {None}
  BY <1>1, GoMeans
<1>3. p \in Place /\ p \notin AtWork /\ WorkerFits(p, Key(c), got'[c], establishing, link')
  BY DEF Place, AtWork, WorkerFits
<1>4. ops' \subseteq Caller /\ ops' \subseteq ops
  BY <1>1 DEF CallTypes
<1>5. CallerGoes(c, p, Key(c))
  BY <1>2, <1>3, <1>4 DEF CallerGoes
<1> QED BY <1>2, <1>3, <1>5, NoneSpawn, MoveStep

LEMMA AwaitKeeps ==
  ASSUME OwnerConstants, OwnerInv, NEW c \in Caller, AwaitEstablished(c) \/ AwaitExpires(c)
  PROVE  OwnerInv'
<1>1. /\ LinkTypes /\ CallTypes /\ Sounds
      /\ UNCHANGED linkVars /\ UNCHANGED <<ownVars, ops, establishing, srvVars, sealVars>>
      /\ got' = got /\ Where(c) \in {"told", "wait"} /\ (Go(c, "use") \/ Go(c, "end"))
      /\ WorkerFits(Where(c), Key(c), got[c], establishing, link)
  BY DEF OwnerInv, AwaitEstablished, AwaitExpires, Workers, Worker
<1>2. Ages({}, {}) /\ Where(c) \notin AtWork /\ got' \in [Caller -> Link \cup {None}]
  BY <1>1, StayAges DEF AtWork, CallTypes
<1>3. Key(c) \in Endpoint
  BY <1>1 DEF WorkerFits
<1> QED BY <1>1, <1>2, <1>3, GoOn

LEMMA UseKeeps ==
  ASSUME OwnerConstants, OwnerInv, NEW c \in Caller, Use(c)
  PROVE  OwnerInv'
<1>1. /\ LinkTypes /\ CallTypes /\ Sounds
      /\ UNCHANGED linkVars /\ UNCHANGED <<ownVars, ops, establishing, srvVars, sealVars>>
      /\ got' = got /\ Where(c) = "use" /\ (Go(c, "get") \/ Go(c, "end"))
      /\ WorkerFits(Where(c), Key(c), got[c], establishing, link)
  BY DEF OwnerInv, Use, Workers, Worker
<1>2. Ages({}, {}) /\ Where(c) \notin AtWork /\ got' \in [Caller -> Link \cup {None}]
  BY <1>1, StayAges DEF AtWork, CallTypes
<1>3. Key(c) \in Endpoint
  BY <1>1 DEF WorkerFits
<1> QED BY <1>1, <1>2, <1>3, GoOn

LEMMA EndOperationKeeps ==
  ASSUME OwnerConstants, OwnerInv, NEW c \in Caller, EndOperation(c)
  PROVE  OwnerInv'
<1>1. /\ LinkTypes /\ CallTypes /\ Sounds
      /\ UNCHANGED linkVars /\ UNCHANGED <<ownVars, establishing, srvVars, sealVars>>
      /\ Where(c) = "end" /\ at' = [at EXCEPT ![c] = <<"done", None>>] /\ ops' = ops \ {c}
      /\ got' = [got EXCEPT ![c] = None]
  BY DEF OwnerInv, EndOperation
<1>2. Ages({}, {}) /\ Where(c) \notin AtWork
  BY <1>1, StayAges DEF AtWork
<1>3. "done" \in Place /\ "done" \notin AtWork
      /\ WorkerFits("done", None, got'[c], establishing, link')
  BY DEF Place, AtWork, WorkerFits
<1>4. /\ ops' \subseteq Caller /\ ops' \subseteq ops /\ got' \in [Caller -> Link \cup {None}]
      /\ \A d \in Caller : d # c => got'[d] = got[d]
  BY <1>1 DEF CallTypes
<1>5. CallerGoes(c, "done", None)
  BY <1>1, <1>2, <1>3, <1>4 DEF CallerGoes
<1> QED BY <1>2, <1>3, <1>5, NoneSpawn, MoveStep

\* What a caller at work has.
LEMMA WorkerHas ==
  ASSUME OwnerConstants, OwnerInv, NEW c \in Caller, Where(c) \in AtWork
  PROVE  /\ Key(c) \in Endpoint /\ establishing[Key(c)].open
         /\ establishing[Key(c)] \in Record
         /\ Where(c) = "dial" => establishing[Key(c)].conn = None
         /\ Where(c) \in {"shake", "install", "spawn"} =>
              establishing[Key(c)].conn \in Link /\ link[establishing[Key(c)].conn].outbound
              /\ link[establishing[Key(c)].conn].used
              /\ serve[establishing[Key(c)].conn] = "none"
         /\ Where(c) \in {"shake", "install"} => ~link[establishing[Key(c)].conn].installed
         /\ Where(c) = "spawn" => got[c] = establishing[Key(c)].conn
              /\ link[got[c]].installed /\ Unborn(link[got[c]])
         /\ Where(c) = "made" => establishing[Key(c)].conn \in Link
              /\ (link[establishing[Key(c)].conn].installed
                  \/ link[establishing[Key(c)].conn].closing)
<1> DEFINE w == Where(c)
           e == Key(c)
           k == establishing[e].conn
<1>1. /\ CallTypes /\ Sounds /\ Dialled /\ Serving /\ LinkTypes
      /\ WorkerFits(w, e, got[c], establishing, link)
  BY DEF OwnerInv, Workers, Worker
<1>2. e \in Endpoint /\ establishing[e].open /\ (w = "dial" => k = None)
  BY <1>1 DEF WorkerFits
<1>3. establishing[e] \in Record
  BY <1>1, <1>2 DEF CallTypes
<1>4. k \in Link \cup {None}
  BY <1>3 DEF Record
<1>5. w \in {"shake", "install", "spawn", "made"} => k # None
  BY <1>1 DEF WorkerFits
<1>6. k # None => k \in Link /\ link[k].outbound
  BY <1>1, <1>2, <1>4 DEF Dialled
<1>7. k # None => link[k].used /\ serve[k] = "none"
  BY <1>1, <1>6 DEF Sounds, Sound, Serving, ServeFits
<1>8. /\ w \in {"shake", "install"} => ~link[k].installed
      /\ w = "spawn" => got[c] = k /\ link[got[c]].installed /\ Unborn(link[got[c]])
      /\ w = "made" => link[k].installed \/ link[k].closing
  BY <1>1 DEF WorkerFits
<1> HIDE DEF w, e, k
<1>9. /\ e \in Endpoint /\ establishing[e].open /\ establishing[e] \in Record
      /\ w = "dial" => k = None
      /\ w \in {"shake", "install", "spawn"} => /\ k \in Link /\ link[k].outbound /\ link[k].used
                                                /\ serve[k] = "none"
      /\ w = "made" => k \in Link
  BY <1>2, <1>3, <1>5, <1>6, <1>7
<1> QED BY <1>8, <1>9 DEF w, e, k

\* The handshake goes on, or the connection is given up.
LEMMA HandshakeKeeps ==
  ASSUME OwnerConstants, OwnerInv, NEW c \in Caller, Handshake(c)
  PROVE  OwnerInv'
<1> DEFINE k == establishing[Key(c)].conn
<1>1. /\ LinkTypes /\ CallTypes /\ Sounds /\ Where(c) = "shake"
      /\ UNCHANGED <<byIdentity, byEndpoint>> /\ UNCHANGED <<ownVars, ops, establishing, srvVars, sealVars>>
      /\ got' = got
      /\ \/ Go(c, "install") /\ UNCHANGED link
         \/ Go(c, "failed") /\ link' = RequestClose(link, {k})
  BY DEF OwnerInv, Handshake
<1>2. Where(c) \in AtWork
  BY <1>1 DEF AtWork
<1>3. /\ Key(c) \in Endpoint /\ establishing[Key(c)].open /\ k \in Link /\ ~link[k].installed
  BY <1>1, <1>2, WorkerHas
<1>4. /\ ops' \subseteq Caller /\ ops' \subseteq ops /\ got' \in [Caller -> Link \cup {None}]
      /\ \A d \in Caller : d # c => got'[d] = got[d]
      /\ {"install", "failed"} \subseteq Place \cap AtWork
  BY <1>1 DEF CallTypes, Place, AtWork
<1>5. CASE Go(c, "install") /\ UNCHANGED link
  <2>1. Ages({}, {})
    BY <1>1, <1>5, StayAges DEF linkVars
  <2>2. at' = [at EXCEPT ![c] = <<"install", Key(c)>>]
    BY <1>1, <1>5, GoMeans
  <2>3. WorkerFits("install", Key(c), got'[c], establishing, link')
    BY <1>3, <1>5 DEF WorkerFits, OwnerConstants
  <2>4. CallerGoes(c, "install", Key(c))
    BY <1>1, <1>2, <1>3, <1>4, <2>2 DEF CallerGoes
  <2>5. "install" \in Place /\ Key(c) \in Endpoint \cup {None}
    BY <1>3, <1>4
  <2> QED BY <2>1, <2>3, <2>4, <2>5, NoneSpawn, MoveStep
<1>6. CASE Go(c, "failed") /\ link' = RequestClose(link, {k})
  <2>1. Ages({}, {})
    BY <1>1, <1>6, RequestCloseAges
  <2>2. at' = [at EXCEPT ![c] = <<"failed", Key(c)>>]
    BY <1>1, <1>6, GoMeans
  <2>3. WorkerFits("failed", Key(c), got'[c], establishing, link')
    BY <1>3, Elsewhere
  <2>4. CallerGoes(c, "failed", Key(c))
    BY <1>1, <1>2, <1>3, <1>4, <2>2 DEF CallerGoes
  <2>5. "failed" \in Place /\ Key(c) \in Endpoint \cup {None}
    BY <1>3, <1>4
  <2> QED BY <2>1, <2>3, <2>4, <2>5, NoneSpawn, MoveStep
<1> QED BY <1>1, <1>5, <1>6

\* The tasks of a link that has just been installed.
LEMMA SpawnKeeps ==
  ASSUME OwnerConstants, OwnerInv, NEW c \in Caller, Spawn(c)
  PROVE  OwnerInv'
<1> DEFINE k == establishing[Key(c)].conn
<1>1. /\ LinkTypes /\ CallTypes /\ Sounds /\ Where(c) = "spawn" /\ Dialled /\ OneWorker
      /\ UNCHANGED <<ownVars, ops, establishing, srvVars, sealVars>> /\ got' = got
  BY DEF OwnerInv, Spawn
<1>2. PICK p \in {"made", "failed", "spawn"} :
        /\ Go(c, p)
        /\ \/ (CountConnection(got[c]) \/ Submit(got[c])) /\ (p = "spawn" <=> link[got[c]].due # 1)
           \/ Unregistered(got[c]) /\ p = "failed"
  <2>1. CASE /\ CountConnection(got[c]) \/ Submit(got[c])
             /\ Go(c, IF link[got[c]].due = 1 THEN "made" ELSE "spawn")
    BY <2>1
  <2>2. CASE Unregistered(got[c]) /\ Go(c, "failed")
    BY <2>2
  <2> QED BY <2>1, <2>2 DEF Spawn
<1>3. Where(c) \in AtWork
  BY <1>1 DEF AtWork
<1>4. /\ Key(c) \in Endpoint /\ establishing[Key(c)].open /\ k \in Link /\ got[c] = k
      /\ link[k].installed /\ Unborn(link[k]) /\ serve[k] = "none"
  BY <1>1, <1>3, WorkerHas
<1>5. /\ Ages({k}, {})
      /\ p = "spawn" => link'[k].due > 0
  <2> HIDE DEF k
  <2>1. CASE CountConnection(k) \/ Submit(k)
    BY <1>1, <1>2, <1>4, <2>1, StartAges
  <2>2. CASE Unregistered(k) /\ p = "failed"
    BY <1>1, <1>4, <2>2, UnregisteredAges
  <2> QED BY <1>2, <1>4, <2>1, <2>2
<1>6. /\ ops' \subseteq Caller /\ ops' \subseteq ops /\ got' \in [Caller -> Link \cup {None}]
      /\ \A d \in Caller : d # c => got'[d] = got[d]
      /\ {"made", "failed", "spawn"} \subseteq Place \cap AtWork
  BY <1>1 DEF CallTypes, Place, AtWork
<1>7. link'[k].installed
  BY <1>1, <1>4, <1>5, AgesMean
<1>8. ASSUME NEW d \in Caller, d # c, Where(d) = "spawn" PROVE got[d] \notin {k}
  <2>1. Where(d) \in AtWork
    BY <1>8 DEF AtWork
  <2>2. Key(d) # Key(c)
    BY <1>1, <1>3, <1>8, <2>1 DEF OneWorker
  <2>3. /\ Key(d) \in Endpoint /\ got[d] = establishing[Key(d)].conn
        /\ establishing[Key(d)].conn \in Link
    BY <1>8, <2>1, WorkerHas
  <2> QED BY <1>1, <1>4, <2>2, <2>3 DEF Dialled, OwnerConstants
<1>9. \A l \in {k} \cap Link : serve[l] # "spawn"
  BY <1>4
<1>10. at' = [at EXCEPT ![c] = <<p, Key(c)>>]
  BY <1>1, <1>2, GoMeans
<1>11. WorkerFits(p, Key(c), got'[c], establishing, link')
  <2>1. CASE p = "made"
    BY <1>4, <1>7, <2>1 DEF WorkerFits, OwnerConstants
  <2>2. CASE p = "failed"
    BY <1>4, <2>2, Elsewhere
  <2>3. CASE p = "spawn"
    <3>1. k # None /\ got'[c] = k /\ link'[k].due > 0
      BY <1>1, <1>4, <1>5, <2>3 DEF OwnerConstants
    <3>2. establishing[Key(c)].conn = k
      OBVIOUS
    <3> HIDE DEF k
    <3> QED BY <1>4, <1>7, <2>3, <3>1, <3>2 DEF WorkerFits, AtWork, Unborn
  <2> QED BY <1>2, <2>1, <2>2, <2>3
<1>12. p \in Place /\ p \in AtWork
  BY <1>2, <1>6
<1> HIDE DEF k
<1>13. CallerGoes(c, p, Key(c))
  BY <1>1, <1>3, <1>6, <1>10, <1>12 DEF CallerGoes
<1>14. SpawnsFor(c, {k})
  BY <1>8, <1>9 DEF SpawnsFor
<1> QED BY <1>4, <1>5, <1>11, <1>12, <1>13, <1>14, MoveStep

LEMMA LiveInRegistry ==
  ASSUME LinkTypes PROVE { byIdentity[p] : p \in Peer } \ {None} \in SUBSET Link
BY DEF LinkTypes

\* A new record holds its place from the start.
LEMMA NewRecordKeeps ==
  ASSUME OwnerConstants, OwnerInv, NEW c \in Caller, Where(c) = "get", Ages({}, {}),
         ~establishing[Key(c)].open, Go(c, "dial"),
         establishing' = [establishing EXCEPT ![Key(c)] =
                            [open |-> TRUE, reserved |-> TRUE, conn |-> None]],
         Cardinality(InRegistry') + Cardinality(Reserved) < MaxSessions,
         UNCHANGED <<ownVars, ops, got, srvVars, sealVars>>
  PROVE  OwnerInv'
<1> DEFINE e == Key(c)
           r == [open |-> TRUE, reserved |-> TRUE, conn |-> None]
<1>1. /\ LinkTypes /\ CallTypes /\ ServeTypes /\ Sounds /\ Registered /\ Targets /\ OneOpen
      /\ Workers /\ OneWorker /\ Dialled /\ Serving /\ OwnerReaches /\ ServerReaches /\ Quiescent
  BY DEF OwnerInv
<1>2. /\ closed' = closed /\ shut' = shut /\ ops' = ops /\ got' = got
      /\ ledger' = ledger /\ handshakes' = handshakes /\ sealed' = sealed /\ serve' = serve
      /\ other' = other /\ toKill' = toKill /\ toClose' = toClose
  BY DEF ownVars, srvVars, sealVars
<1>3. LinkTypes' /\ Sounds'
  BY LinkTypesAge
<1>4. e \in Endpoint
  BY <1>1 DEF Workers, Worker, WorkerFits
<1>5. r \in Record
  BY DEF Record
<1>6. /\ establishing' \in [Endpoint -> Record] /\ establishing'[e] = r
      /\ \A f \in Endpoint : f # e => establishing'[f] = establishing[f]
  BY <1>1, <1>4, <1>5 DEF CallTypes
<1>7. /\ at' \in [Caller -> Place \X (Endpoint \cup {None})] /\ at'[c] = <<"dial", e>>
      /\ \A d \in Caller : d # c => at'[d] = at[d]
  BY <1>1, GoMeans DEF CallTypes, Place
<1>8. /\ Where(c)' = "dial" /\ Key(c)' = e
      /\ \A d \in Caller : d # c => Where(d)' = Where(d) /\ Key(d)' = Key(d)
  BY <1>7 DEF Where, Key
<1>9. CallTypes'
  BY <1>1, <1>2, <1>6, <1>7 DEF CallTypes
<1>10. ServeTypes'
  BY <1>1, <1>2 DEF ServeTypes
<1>11. r.open /\ r.conn = None /\ ~establishing[e].open /\ r.reserved
  OBVIOUS
<1> HIDE DEF r, e
<1>12. Registered'
  <2>1. /\ \A p \in Peer : byIdentity'[p] # None =>
             link'[byIdentity'[p]].installed /\ link'[byIdentity'[p]].peer = p
        /\ InRegistry' \subseteq InRegistry
    BY <1>1, RegistryAges
  <2>2. Reserved' = Reserved \cup {e}
    BY <1>4, <1>6, <1>11 DEF Reserved
  <2>3. IsFiniteSet(InRegistry) /\ IsFiniteSet(Reserved)
    BY <1>1 DEF Registered
  <2>4. IsFiniteSet(InRegistry')
    BY <2>1, <2>3, FS_Subset
  <2>5. IsFiniteSet(Reserved') /\ Cardinality(Reserved') <= Cardinality(Reserved) + 1
    <3>1. Cardinality(Reserved) \in Nat
      BY <2>3, FS_CardinalityType
    <3>2. /\ IsFiniteSet(Reserved \cup {e})
          /\ Cardinality(Reserved \cup {e}) =
               IF e \in Reserved THEN Cardinality(Reserved) ELSE Cardinality(Reserved) + 1
      BY <2>3, FS_AddElement
    <3> QED BY <2>2, <3>1, <3>2
  <2>6. Cardinality(InRegistry') \in Nat /\ Cardinality(Reserved') \in Nat
        /\ Cardinality(Reserved) \in Nat
    BY <2>3, <2>4, <2>5, FS_CardinalityType
  <2>7. Cardinality(InRegistry') + Cardinality(Reserved') <= MaxSessions
    BY <2>5, <2>6 DEF OwnerConstants
  <2> QED BY <2>1, <2>4, <2>5, <2>7 DEF Registered
<1>13. Targets'
  <2>1. ASSUME NEW l \in toKill' \cup ToSet(ledger') PROVE l \in Link /\ link[l].installed
    <3>1. ToSet(ledger) \subseteq Link
      BY <1>1 DEF ServeTypes, ToSet
    <3> QED BY <1>1, <1>2, <3>1 DEF Targets, ServeTypes
  <2>2. ASSUME NEW l \in Link, other'[l] # None
        PROVE other'[l] \in Link /\ link[other'[l]].installed
    BY <1>1, <1>2, <2>2 DEF Targets, ServeTypes
  <2> QED BY <1>1, <2>1, <2>2, TargetsAge
<1>14. Kept
  BY <1>1, <1>2, KeptAll
<1>15. OneOpen'
  BY <1>1, <1>14, OneOpenAges
<1>16. ASSUME NEW d \in Caller, Where(d) \in AtWork PROVE Key(d) # e /\ Key(d) \in Endpoint
  <2>1. Worker(d)
    BY <1>1 DEF Workers
  <2> QED BY <1>11, <1>16, <2>1 DEF Worker, WorkerFits
<1>17. Workers'
  <2>1. ASSUME NEW d \in Caller PROVE Worker(d)'
    <3>1. CASE d = c
      <4>1. WorkerFits("dial", e, got'[c], establishing', link')
        BY <1>4, <1>6, <1>11 DEF WorkerFits, AtWork
      <4> QED BY <1>8, <3>1, <4>1 DEF Worker
    <3>2. CASE d # c
      <4>1. Worker(d)
        BY <1>1 DEF Workers
      <4>2. Where(d) \in AtWork \cup {"wait"} => establishing'[Key(d)].open
        BY <1>6, <1>11, <4>1 DEF Worker, WorkerFits
      <4>3. Where(d) \in AtWork => establishing'[Key(d)].conn = establishing[Key(d)].conn
        BY <1>6, <1>16
      <4>4. at'[d] = at[d] /\ got'[d] = got[d]
        BY <1>2, <1>7, <3>2
      <4> QED BY <1>1, <4>1, <4>2, <4>3, <4>4, WorkerStays
    <3> QED BY <3>1, <3>2
  <2> QED BY <2>1 DEF Workers
<1>18. OneWorker'
  <2>1. ASSUME NEW x \in Caller, NEW d \in Caller, Where(x)' \in AtWork, Where(d)' \in AtWork,
               Key(x)' = Key(d)'
        PROVE  x = d
    <3>1. CASE x # c /\ d # c
      BY <1>1, <1>8, <2>1, <3>1 DEF OneWorker
    <3>2. CASE x = c /\ d # c
      BY <1>8, <1>16, <2>1, <3>2
    <3>3. CASE x # c /\ d = c
      BY <1>8, <1>16, <2>1, <3>3
    <3> QED BY <3>1, <3>2, <3>3
  <2>2. ASSUME NEW f \in Endpoint, establishing'[f].open
        PROVE  \E d \in Caller : Key(d)' = f /\ Where(d)' \in AtWork
    <3>1. CASE f = e
      BY <1>8, <3>1 DEF AtWork
    <3>2. CASE f # e
      <4>1. PICK d \in Caller : Key(d) = f /\ Where(d) \in AtWork
        BY <1>1, <1>6, <2>2, <3>2 DEF OneWorker
      <4>2. d # c
        BY <3>2, <4>1 DEF e
      <4> QED BY <1>8, <4>1, <4>2
    <3> QED BY <3>1, <3>2
  <2> QED BY <2>1, <2>2 DEF OneWorker
<1>19. Dialled'
  <2>1. ASSUME NEW f \in Endpoint, establishing'[f].conn # None
        PROVE  /\ f # e /\ establishing'[f] = establishing[f] /\ establishing[f].conn \in Link
               /\ establishing[f].open /\ link'[establishing[f].conn].outbound
    <3>1. f # e /\ establishing'[f] = establishing[f]
      BY <1>6, <1>11, <2>1
    <3>2. establishing[f].conn \in Link /\ establishing[f].open
          /\ link[establishing[f].conn].outbound
      BY <1>1, <2>1, <3>1 DEF Dialled, CallTypes, Record
    <3> QED BY <1>1, <3>1, <3>2, AgesMean
  <2>2. ASSUME NEW l \in Link, link'[l].outbound, ~link'[l].installed, ~link'[l].closing
        PROVE  \E f \in Endpoint : establishing'[f].conn = l
    <3>1. link[l].outbound /\ ~link[l].installed /\ ~link[l].closing
      BY <1>1, <2>2, AgesMean
    <3>2. PICK f \in Endpoint : establishing[f].conn = l
      BY <1>1, <3>1 DEF Dialled
    <3>3. establishing[f].conn # None
      BY <3>2 DEF OwnerConstants
    <3>4. f # e
      BY <1>1, <1>11, <3>3 DEF Dialled
    <3> QED BY <1>6, <3>2, <3>4
  <2>3. ASSUME NEW f \in Endpoint, NEW g \in Endpoint, establishing'[f].conn = establishing'[g].conn,
               establishing'[f].conn # None
        PROVE  f = g
    <3>1. establishing'[f] = establishing[f] /\ establishing'[g] = establishing[g]
      BY <2>1, <2>3
    <3> QED BY <1>1, <2>3, <3>1 DEF Dialled
  <2> QED BY <2>1, <2>2, <2>3 DEF Dialled
<1>20. Serving'
  <2>1. ASSUME NEW l \in Link PROVE ServeFits(l)'
    <3>1. ServeFits(l)
      BY <1>1 DEF Serving
    <3> QED BY <1>1, <1>2, <3>1, ServeStays
  <2> QED BY <2>1 DEF Serving
<1>21. OwnerReaches'
  BY <1>1, <1>2, <1>14, OwnerReachesAges
<1>22. ServerReaches'
  BY <1>1, <1>2, <1>14, ServerReachesAges
<1>23. Quiescent'
  BY <1>1, <1>2 DEF Quiescent
<1> QED BY <1>3, <1>9, <1>10, <1>12, <1>13, <1>15, <1>17, <1>18, <1>19, <1>20, <1>21, <1>22, <1>23
        DEF OwnerInv

LEMMA GetSessionKeeps ==
  ASSUME OwnerConstants, OwnerInv, NEW c \in Caller, GetSession(c)
  PROVE  OwnerInv'
<1> DEFINE e == Key(c)
           live == { byIdentity[p] : p \in Peer } \ {None}
           stale == byEndpoint[e] # None /\ link[byEndpoint[e]].dead
           hit == byEndpoint'[e] # None
           full == Cardinality(InRegistry') + Cardinality(Reserved) >= MaxSessions
<1>1. LinkTypes /\ CallTypes /\ Sounds /\ Registered
  BY DEF OwnerInv
<1>2. Where(c) = "get" /\ UNCHANGED <<ownVars, ops, srvVars, sealVars>>
  BY DEF GetSession
<1>3. Where(c) \notin AtWork /\ e \in Endpoint
  BY <1>2 DEF AtWork, OwnerInv, Workers, Worker, WorkerFits
<1>4. CASE closed
  <2>1. Go(c, "end") /\ UNCHANGED linkVars /\ got' = got /\ establishing' = establishing
    BY <1>4 DEF GetSession
  <2>2. Ages({}, {}) /\ got' \in [Caller -> Link \cup {None}]
    BY <1>1, <2>1, StayAges DEF CallTypes
  <2> QED BY <1>2, <1>3, <2>1, <2>2, GoOn
<1>5. CASE ~closed
  <2>1. /\ Drive(link, live, IF stale THEN {e} ELSE {})
        /\ \/ /\ hit /\ got' = [got EXCEPT ![c] = byEndpoint'[e]] /\ Go(c, "use")
              /\ UNCHANGED establishing
           \/ /\ establishing[e].open /\ Go(c, "wait") /\ UNCHANGED <<got, establishing>>
           \/ Go(c, "end") /\ UNCHANGED <<got, establishing>>
           \/ /\ ~establishing[e].open /\ ~full /\ Go(c, "dial") /\ UNCHANGED got
              /\ establishing' = [establishing EXCEPT ![e] =
                             [open |-> TRUE, reserved |-> TRUE, conn |-> None]]
    BY <1>5, Zenon DEF GetSession, InRegistry, Reserved
  <2>2. Ages({}, {})
    <3>1. Grows(link, {}, {})
      BY <1>1 DEF Grows, LinkTypes, Sounds, SameLink
    <3>2. live \in SUBSET Link
      BY <1>1, LiveInRegistry
    <3> HIDE DEF live, stale
    <3> QED BY <1>1, <2>1, <3>1, <3>2, DriveAges
  <2>3. got \in [Caller -> Link \cup {None}] /\ byEndpoint'[e] \in Link \cup {None}
    BY <1>1, <1>3, <2>2 DEF CallTypes, Ages
  <2>4. CASE got' = [got EXCEPT ![c] = byEndpoint'[e]] /\ Go(c, "use") /\ UNCHANGED establishing
    <3>1. /\ got' \in [Caller -> Link \cup {None}] /\ \A d \in Caller : d # c => got'[d] = got[d]
      BY <2>3, <2>4
    <3> QED BY <1>2, <1>3, <2>2, <2>4, <3>1, GoOn
  <2>5. CASE establishing[e].open /\ Go(c, "wait") /\ UNCHANGED <<got, establishing>>
    BY <1>2, <1>3, <2>2, <2>3, <2>5, GoOn
  <2>6. CASE Go(c, "end") /\ UNCHANGED <<got, establishing>>
    BY <1>2, <1>3, <2>2, <2>3, <2>6, GoOn
  <2>7. CASE /\ ~establishing[e].open /\ ~full /\ Go(c, "dial") /\ UNCHANGED got
             /\ establishing' = [establishing EXCEPT ![e] =
                             [open |-> TRUE, reserved |-> TRUE, conn |-> None]]
    <3>1. IsFiniteSet(InRegistry) /\ IsFiniteSet(Reserved) /\ InRegistry' \subseteq InRegistry
      BY <1>1, <2>2, RegistryAges DEF Registered
    <3>2. Cardinality(InRegistry') \in Nat /\ Cardinality(Reserved) \in Nat
      BY <3>1, FS_Subset, FS_CardinalityType
    <3>3. Cardinality(InRegistry') + Cardinality(Reserved) < MaxSessions
      BY <2>7, <3>2 DEF OwnerConstants
    <3> QED BY <1>2, <2>2, <2>7, <3>3, NewRecordKeeps
  <2> QED BY <2>1, <2>4, <2>5, <2>6, <2>7
<1> QED BY <1>4, <1>5

\* A connection comes into being: what becomes of its record.
LEMMA OpenAges ==
  ASSUME LinkTypes, Sounds, NEW l \in Link, ~link[l].used, NEW q \in LinkState,
         link' = [link EXCEPT ![l] = q], UNCHANGED <<byIdentity, byEndpoint>>,
         q.used, q.peer \in Peer, q.installed = link[l].installed, q.quota = link[l].quota,
         q.dead = link[l].dead, q.released = link[l].released,
         q.resp = link[l].resp, q.tasks = link[l].tasks, q.due = link[l].due
  PROVE  Ages({}, {l})
<1>1. link' \in [Link -> LinkState] /\ link'[l] = q /\ \A k \in Link : k # l => link'[k] = link[k]
  BY DEF LinkTypes
<1>2. link[l] \in LinkState /\ Sound(link[l])
  BY DEF LinkTypes, Sounds
<1>3. /\ link[l].resp = 0 /\ link[l].tasks = 0 /\ link[l].due = 3 /\ ~link[l].installed /\ ~link[l].dead
      /\ ~link[l].released /\ ~link[l].quota
  BY <1>2 DEF Sound, LinkState
<1>4. Sound(q) /\ Unborn(q) /\ Opened(link[l], q)
  BY <1>3 DEF Sound, Unborn, Opened
<1>5. ASSUME NEW k \in Link
      PROVE  /\ Sound(link'[k])
             /\ Unborn(link[k]) => Unborn(link'[k])
             /\ k \notin {l} => SameLink(link[k], link'[k])
             /\ k \in {l} => Opened(link[k], link'[k])
  <2>1. CASE k = l
    BY <1>1, <1>4, <2>1
  <2>2. CASE k # l
    BY <1>1, <2>2 DEF SameLink, Sounds
  <2> QED BY <2>1, <2>2
<1>6. Grows(link', {}, {l})
  BY <1>1, <1>5 DEF Grows
<1> QED BY <1>6, Zenon DEF Ages, LinkTypes

\* CoDial that returns a connection.
LEMMA DialOpensKeeps ==
  ASSUME OwnerConstants, OwnerInv, NEW c \in Caller, Where(c) = "dial", NEW l \in Link,
         ~link[l].used, got' = [got EXCEPT ![c] = None],
         link' = [link EXCEPT ![l].used = TRUE, ![l].outbound = TRUE,
                              ![l].peer = PeerOf(Key(c)), ![l].closing = closed],
         establishing' = [establishing EXCEPT ![Key(c)].conn = l],
         Go(c, IF closed THEN "failed" ELSE "shake"),
         UNCHANGED <<byIdentity, byEndpoint, ownVars, ops, srvVars, sealVars>>
  PROVE  OwnerInv'
<1> DEFINE e == Key(c)
           w == IF closed THEN "failed" ELSE "shake"
<1>1. /\ LinkTypes /\ CallTypes /\ ServeTypes /\ Sounds /\ Registered /\ Targets /\ OneOpen
      /\ Workers /\ OneWorker /\ Dialled /\ Serving /\ OwnerReaches /\ ServerReaches /\ Quiescent
  BY DEF OwnerInv
<1>2. /\ closed' = closed /\ shut' = shut /\ ops' = ops
      /\ ledger' = ledger /\ handshakes' = handshakes /\ sealed' = sealed /\ serve' = serve
      /\ other' = other /\ toKill' = toKill /\ toClose' = toClose
  BY DEF ownVars, srvVars, sealVars
<1>3. /\ e \in Endpoint /\ establishing[e].open /\ establishing[e] \in Record
      /\ establishing[e].conn = None
  BY WorkerHas DEF AtWork
<1>4. /\ establishing' \in [Endpoint -> Record] /\ establishing'[e].conn = l
      /\ establishing'[e].open /\ establishing'[e].reserved = establishing[e].reserved
      /\ \A f \in Endpoint : f # e => establishing'[f] = establishing[f]
  BY <1>1, <1>3 DEF CallTypes, Record
<1>5. /\ at' \in [Caller -> Place \X (Endpoint \cup {None})] /\ at'[c] = <<w, e>>
      /\ w \in {"failed", "shake"}
      /\ \A d \in Caller : d # c => at'[d] = at[d]
  BY <1>1, GoMeans DEF CallTypes, Place
<1>6. /\ Where(c)' = w /\ Key(c)' = e /\ w \in AtWork /\ Where(c) \in AtWork
      /\ \A d \in Caller : d # c => Where(d)' = Where(d) /\ Key(d)' = Key(d)
  BY <1>5 DEF Where, Key, AtWork
<1>7. got' \in [Caller -> Link \cup {None}] /\ \A d \in Caller : d # c => got'[d] = got[d]
  BY <1>1 DEF CallTypes
<1>8. Ages({}, {l}) /\ link'[l].outbound /\ ~link'[l].installed /\ link'[l].closing = closed
      /\ \A k \in Link : k # l => link'[k] = link[k]
  <2> DEFINE r == link[l]
             p == PeerOf(e)
             s == [r EXCEPT !.used = TRUE, !.outbound = TRUE]
             q == [s EXCEPT !.peer = p, !.closing = closed]
  <2>1. p \in Peer /\ closed \in BOOLEAN
    BY <1>1, <1>3 DEF OwnerConstants, ServeTypes
  <2>2. r \in LinkState /\ Sound(r) /\ ~r.used /\ link \in [Link -> LinkState]
    BY <1>1 DEF LinkTypes, Sounds
  <2>3. ~r.installed
    BY <2>2 DEF Sound
  <2>4. link' = [link EXCEPT ![l] = q]
    BY <2>2
  <2> HIDE DEF r, p
  <2>5. /\ s \in LinkState /\ s.used /\ s.outbound /\ s.installed = r.installed /\ s.dead = r.dead
        /\ s.quota = r.quota
        /\ s.released = r.released /\ s.resp = r.resp /\ s.tasks = r.tasks /\ s.due = r.due
    BY <2>2 DEF LinkState
  <2> HIDE DEF s
  <2>6. /\ q \in LinkState /\ q.used /\ q.outbound /\ q.installed = r.installed /\ q.dead = r.dead
        /\ q.quota = r.quota
        /\ q.released = r.released /\ q.resp = r.resp /\ q.tasks = r.tasks /\ q.due = r.due /\ q.peer = p
        /\ q.closing = closed
    BY <2>1, <2>5 DEF LinkState
  <2> HIDE DEF q
  <2>7. link'[l] = q /\ \A k \in Link : k # l => link'[k] = link[k]
    BY <2>2, <2>4
  <2>8. /\ q.used /\ q.peer \in Peer /\ q.installed = link[l].installed /\ q.quota = link[l].quota
        /\ q.dead = link[l].dead /\ q.released = link[l].released
        /\ q.resp = link[l].resp /\ q.tasks = link[l].tasks /\ q.due = link[l].due
    BY <2>1, <2>6 DEF r
  <2>9. Ages({}, {l})
    BY <1>1, <2>4, <2>6, <2>8, OpenAges
  <2> QED BY <2>3, <2>6, <2>7, <2>9
<1>9. LinkTypes' /\ Sounds'
  BY <1>8, LinkTypesAge
<1>10. CallTypes'
  BY <1>1, <1>2, <1>4, <1>5, <1>7 DEF CallTypes
<1>11. ServeTypes'
  BY <1>1, <1>2 DEF ServeTypes
<1> HIDE DEF e, w
<1>12. Registered'
  <2>1. Reserved' \subseteq Reserved
    BY <1>4 DEF Reserved
  <2> QED BY <1>1, <1>8, <2>1, RegisteredAges
<1>13. Targets'
  <2>1. ASSUME NEW k \in toKill' \cup ToSet(ledger') PROVE k \in Link /\ link[k].installed
    <3>1. ToSet(ledger) \subseteq Link
      BY <1>1 DEF ServeTypes, ToSet
    <3> QED BY <1>1, <1>2, <3>1 DEF Targets, ServeTypes
  <2>2. ASSUME NEW k \in Link, other'[k] # None
        PROVE other'[k] \in Link /\ link[other'[k]].installed
    BY <1>1, <1>2, <2>2 DEF Targets, ServeTypes
  <2> QED BY <1>1, <1>8, <2>1, <2>2, TargetsAge
<1>14. Kept
  BY <1>1, <1>2, <1>8, KeptAll
<1>15. OneOpen'
  BY <1>1, <1>8, <1>14, OneOpenAges
<1>16. ASSUME NEW d \in Caller, d # c, Where(d) \in AtWork PROVE Key(d) # e /\ Key(d) \in Endpoint
  <2>1. Key(d) # Key(c)
    BY <1>1, <1>6, <1>16 DEF OneWorker
  <2> QED BY <1>16, <2>1, WorkerHas DEF e
<1>17. Workers'
  <2>1. ASSUME NEW d \in Caller PROVE Worker(d)'
    <3>1. CASE d = c
      <4>1. WorkerFits(w, e, got'[c], establishing', link')
        BY <1>3, <1>4, <1>5, <1>8 DEF WorkerFits, OwnerConstants
      <4> QED BY <1>6, <3>1, <4>1 DEF Worker
    <3>2. CASE d # c
      <4>1. Worker(d)
        BY <1>1 DEF Workers
      <4>2. Where(d) \in AtWork \cup {"wait"} => establishing'[Key(d)].open
        BY <1>4, <4>1 DEF Worker, WorkerFits
      <4>3. Where(d) \in AtWork => establishing'[Key(d)].conn = establishing[Key(d)].conn
        BY <1>4, <1>16, <3>2
      <4>4. at'[d] = at[d] /\ got'[d] = got[d]
        BY <1>5, <1>7, <3>2
      <4> QED BY <1>1, <1>8, <4>1, <4>2, <4>3, <4>4, WorkerStays
    <3> QED BY <3>1, <3>2
  <2> QED BY <2>1 DEF Workers
<1>18. OneWorker'
  <2>1. ASSUME NEW d \in Caller
        PROVE  /\ Where(d)' \in AtWork <=> Where(d) \in AtWork
               /\ Where(d) \in AtWork => Key(d)' = Key(d)
    BY <1>6 DEF e
  <2>2. ASSUME NEW f \in Endpoint PROVE establishing'[f].open = establishing[f].open
    <3>1. CASE f = e
      <4>1. establishing'[e].open \in BOOLEAN /\ establishing[e].open \in BOOLEAN
        BY <1>3, <1>4 DEF Record
      <4> QED BY <1>3, <1>4, <3>1, <4>1
    <3>2. CASE f # e
      BY <1>4, <3>2
    <3> QED BY <3>1, <3>2
  <2> QED BY <1>1, <2>1, <2>2, OneWorkerMoves
<1>19. ASSUME NEW f \in Endpoint, f # e, establishing[f].conn # None
       PROVE  /\ establishing[f].conn \in Link /\ establishing[f].conn # l
              /\ establishing[f].open /\ link[establishing[f].conn].outbound
  <2>1. /\ establishing[f].conn \in Link /\ establishing[f].open
        /\ link[establishing[f].conn].outbound
    BY <1>1, <1>19 DEF Dialled, CallTypes, Record
  <2>2. ~link[l].outbound
    BY <1>1 DEF Sounds, Sound
  <2> QED BY <2>1, <2>2
<1>20. Dialled'
  <2>1. ASSUME NEW f \in Endpoint, establishing'[f].conn # None
        PROVE  establishing'[f].open /\ link'[establishing'[f].conn].outbound
    <3>1. CASE f = e
      BY <1>4, <1>8, <3>1
    <3>2. CASE f # e
      <4>1. establishing'[f] = establishing[f]
        BY <1>4, <3>2
      <4>2. /\ establishing[f].conn \in Link /\ establishing[f].conn # l
            /\ establishing[f].open /\ link[establishing[f].conn].outbound
        BY <1>19, <2>1, <3>2, <4>1
      <4>3. link'[establishing[f].conn] = link[establishing[f].conn]
        BY <1>8, <4>2
      <4> QED BY <4>1, <4>2, <4>3
    <3> QED BY <3>1, <3>2
  <2>2. ASSUME NEW k \in Link, link'[k].outbound, ~link'[k].installed, ~link'[k].closing
        PROVE  \E f \in Endpoint : establishing'[f].conn = k
    <3>1. CASE k = l
      BY <1>3, <1>4, <3>1
    <3>2. CASE k # l
      <4>1. PICK f \in Endpoint : establishing[f].conn = k
        BY <1>1, <1>8, <2>2, <3>2 DEF Dialled
      <4>2. f # e
        BY <1>3, <4>1 DEF OwnerConstants
      <4> QED BY <1>4, <4>1, <4>2
    <3> QED BY <3>1, <3>2
  <2>3. ASSUME NEW f \in Endpoint, NEW g \in Endpoint, establishing'[f].conn = establishing'[g].conn,
               establishing'[f].conn # None
        PROVE  f = g
    <3>1. CASE f # e /\ g # e
      <4>1. establishing'[f] = establishing[f] /\ establishing'[g] = establishing[g]
        BY <1>4, <3>1
      <4>2. establishing[f].conn = establishing[g].conn /\ establishing[f].conn # None
        BY <2>3, <4>1
      <4>3. \A x, y \in Endpoint :
              establishing[x].conn = establishing[y].conn /\ establishing[x].conn # None => x = y
        BY <1>1 DEF Dialled
      <4> QED BY <4>2, <4>3
    <3>2. CASE f = e /\ g # e
      <4>1. establishing'[f].conn = l /\ establishing'[g] = establishing[g]
        BY <1>4, <3>2
      <4>2. establishing[g].conn # None /\ establishing[g].conn = l
        BY <2>3, <4>1
      <4> QED BY <1>19, <3>2, <4>2
    <3>3. CASE f # e /\ g = e
      <4>1. establishing'[g].conn = l /\ establishing'[f] = establishing[f]
        BY <1>4, <3>3
      <4>2. establishing[f].conn # None /\ establishing[f].conn = l
        BY <2>3, <4>1
      <4> QED BY <1>19, <3>3, <4>2
    <3> QED BY <3>1, <3>2, <3>3
  <2> QED BY <2>1, <2>2, <2>3 DEF Dialled
<1>21. Serving'
  <2>1. ASSUME NEW k \in Link PROVE ServeFits(k)'
    <3>1. ServeFits(k)
      BY <1>1 DEF Serving
    <3> QED BY <1>1, <1>2, <1>8, <3>1, ServeStays
  <2> QED BY <2>1 DEF Serving
<1>22. OwnerReaches'
  <2>1. \A k \in {l} \cap Link : link'[k].outbound /\ closed => link'[k].closing
    BY <1>8
  <2> QED BY <1>1, <1>2, <1>8, <1>14, <2>1, OwnerReachesAges
<1>23. ServerReaches'
  BY <1>1, <1>2, <1>8, <1>14, ServerReachesAges
<1>24. Quiescent'
  BY <1>1, <1>2 DEF Quiescent
<1> QED BY <1>9, <1>10, <1>11, <1>12, <1>13, <1>15, <1>17, <1>18, <1>20, <1>21, <1>22, <1>23, <1>24
        DEF OwnerInv

LEMMA DialKeeps ==
  ASSUME OwnerConstants, OwnerInv, NEW c \in Caller, Dial(c)
  PROVE  OwnerInv'
<1>1. /\ LinkTypes /\ CallTypes /\ Sounds /\ Where(c) = "dial" /\ got' = [got EXCEPT ![c] = None]
      /\ UNCHANGED <<byIdentity, byEndpoint, ownVars, ops, srvVars, sealVars>>
  BY DEF OwnerInv, Dial
<1>2. CASE Go(c, "failed") /\ UNCHANGED <<link, establishing>>
  <2>1. Where(c) \in AtWork /\ "failed" \in Place \cap AtWork
    BY <1>1 DEF AtWork, Place
  <2>2. Key(c) \in Endpoint /\ establishing[Key(c)].open
    BY <2>1, WorkerHas
  <2>3. Ages({}, {})
    BY <1>1, <1>2, StayAges DEF linkVars
  <2>4. at' = [at EXCEPT ![c] = <<"failed", Key(c)>>]
    BY <1>1, <1>2, GoMeans
  <2>5. got' \in [Caller -> Link \cup {None}] /\ \A d \in Caller : d # c => got'[d] = got[d]
    BY <1>1 DEF CallTypes
  <2>6. CallerGoes(c, "failed", Key(c))
    BY <1>1, <1>2, <2>1, <2>4, <2>5 DEF CallerGoes, CallTypes
  <2>7. WorkerFits("failed", Key(c), got'[c], establishing, link')
    BY <2>2, Elsewhere
  <2>8. "failed" \in Place /\ Key(c) \in Endpoint \cup {None}
    BY <2>1, <2>2
  <2> QED BY <2>3, <2>6, <2>7, <2>8, NoneSpawn, MoveStep
<1>3. ASSUME NEW l \in Link, ~link[l].used,
             link' = [link EXCEPT ![l].used = TRUE, ![l].outbound = TRUE,
                                  ![l].peer = PeerOf(Key(c)), ![l].closing = closed],
             establishing' = [establishing EXCEPT ![Key(c)].conn = l],
             Go(c, IF closed THEN "failed" ELSE "shake")
      PROVE  OwnerInv'
  BY <1>1, <1>3, DialOpensKeeps
<1> QED BY <1>2, <1>3 DEF Dial

-----------------------------------------------------------------------------
(***************************************************************************)
(* InstallSession: a connection that wins the election, or has none to     *)
(* win, is published in one step with what it owes to the link before it.  *)
(***************************************************************************)

Wins(l) ==
  /\ Publish(l) /\ byEndpoint' \in [Endpoint -> Link \cup {None}]
  /\ other' = [other EXCEPT ![l] = Winner(l)]
  /\ UNCHANGED <<ownVars, ops, ledger, handshakes, sealed, toKill, toClose>>

LEMMA WinsLinks ==
  ASSUME OwnerConstants, OwnerInv, NEW l \in Link, link[l].used, ~link[l].installed, Wins(l)
  PROVE  /\ LinkTypes' /\ Sounds'
         /\ link[l].peer \in Peer /\ Winner(l) \in Link \cup {None}
         /\ Winner(l) # None => Winner(l) # l /\ link[Winner(l)].installed
         /\ link'[l].installed /\ link'[l].peer = link[l].peer /\ link'[l].used
         /\ link'[l].outbound = link[l].outbound /\ link'[l].closing = link[l].closing
         /\ Unborn(link'[l])
         /\ \A k \in Link : k # l => link'[k] = link[k] /\ other'[k] = other[k]
         /\ other' \in [Link -> Link \cup {None}] /\ other'[l] = Winner(l)
         /\ byIdentity'[link[l].peer] = l
         /\ \A p \in Peer : p # link[l].peer => byIdentity'[p] = byIdentity[p]
<1> DEFINE r == link[l]
           q == [r EXCEPT !.installed = TRUE, !.quota = TRUE]
           p == r.peer
<1>1. LinkTypes /\ Sounds /\ ServeTypes /\ Registered
  BY DEF OwnerInv
<1>2. r \in LinkState /\ Sound(r) /\ link \in [Link -> LinkState] /\ r.used /\ ~r.installed
  BY <1>1 DEF LinkTypes, Sounds
<1>3. p \in Peer /\ r.resp = 0 /\ r.tasks = 0 /\ r.due = 3
  BY <1>2 DEF Sound
<1>4. Winner(l) = byIdentity[p] /\ byIdentity[p] \in Link \cup {None}
  BY <1>1, <1>3 DEF Winner, LinkTypes
<1>5. byIdentity[p] # None => byIdentity[p] # l /\ link[byIdentity[p]].installed
  BY <1>1, <1>2, <1>3 DEF Registered
<1>6. link' = [link EXCEPT ![l] = q]
  BY <1>2 DEF Wins, Publish
<1>7. /\ byIdentity' \in [Peer -> Link \cup {None}] /\ byIdentity'[p] = l
      /\ \A x \in Peer : x # p => byIdentity'[x] = byIdentity[x]
  BY <1>1, <1>3 DEF Wins, Publish, LinkTypes
<1>8. /\ other' \in [Link -> Link \cup {None}] /\ other'[l] = Winner(l)
      /\ \A k \in Link : k # l => other'[k] = other[k]
  <2>1. other \in [Link -> Link \cup {None}] /\ other' = [other EXCEPT ![l] = Winner(l)]
    BY <1>1 DEF ServeTypes, Wins
  <2>2. Winner(l) \in Link \cup {None}
    BY <1>4
  <2> QED BY <2>1, <2>2
<1> HIDE DEF p
<1>9. /\ q \in LinkState /\ q.used = r.used /\ q.peer = r.peer /\ q.outbound = r.outbound
      /\ q.installed /\ q.dead = r.dead /\ q.closing = r.closing
      /\ q.released = r.released /\ q.resp = r.resp /\ q.tasks = r.tasks /\ q.due = r.due
  <2> HIDE DEF r
  <2> QED BY <1>2 DEF LinkState
<1>10. Sound(q) /\ Unborn(q)
  <2> HIDE DEF r, q
  <2>1. r.peer \in Peer
    BY <1>3 DEF p
  <2>2. Counted(q) = 0
    BY <1>3, <1>9 DEF Counted
  <2> QED BY <1>2, <1>3, <1>9, <2>1, <2>2 DEF Sound, Unborn
<1> HIDE DEF q
<1>11. /\ link' \in [Link -> LinkState] /\ link'[l] = q
       /\ \A k \in Link : k # l => link'[k] = link[k]
  BY <1>2, <1>6, <1>9
<1>12. LinkTypes'
  BY <1>7, <1>11 DEF LinkTypes, Wins
<1>13. Sounds'
  BY <1>1, <1>10, <1>11 DEF Sounds
<1> QED BY <1>2, <1>3, <1>4, <1>5, <1>7, <1>8, <1>9, <1>10, <1>11, <1>12, <1>13 DEF p

LEMMA WinsRegistry ==
  ASSUME OwnerConstants, OwnerInv, NEW l \in Link, link[l].used, ~link[l].installed, Wins(l)
  PROVE  /\ \A p \in Peer : byIdentity'[p] # None =>
              link'[byIdentity'[p]].installed /\ link'[byIdentity'[p]].peer = p
         /\ InRegistry' = InRegistry \cup {link[l].peer}
         /\ Winner(l) # None => InRegistry' = InRegistry
<1>1. LinkTypes /\ Registered
  BY DEF OwnerInv
<1> DEFINE p == link[l].peer
<1>2. /\ p \in Peer /\ link'[l].installed /\ link'[l].peer = p
      /\ byIdentity'[p] = l
      /\ \A x \in Peer : x # p => byIdentity'[x] = byIdentity[x]
      /\ \A k \in Link : k # l => link'[k] = link[k]
  BY WinsLinks
<1> HIDE DEF p
<1>3. ASSUME NEW x \in Peer, byIdentity'[x] # None
      PROVE  link'[byIdentity'[x]].installed /\ link'[byIdentity'[x]].peer = x
  <2>1. CASE x = p
    BY <1>2, <2>1
  <2>2. CASE x # p
    <3>1. byIdentity'[x] = byIdentity[x] /\ byIdentity[x] \in Link
      BY <1>1, <1>2, <1>3, <2>2 DEF LinkTypes
    <3>2. link[byIdentity[x]].installed /\ link[byIdentity[x]].peer = x
      BY <1>1, <1>3, <3>1 DEF Registered
    <3>3. byIdentity[x] # l
      BY <3>2
    <3> QED BY <1>2, <3>1, <3>2, <3>3
  <2> QED BY <2>1, <2>2
<1>4. InRegistry' = InRegistry \cup {p}
  BY <1>2 DEF InRegistry, OwnerConstants
<1>5. Winner(l) # None => p \in InRegistry
  BY <1>2 DEF Winner, InRegistry, p
<1> QED BY <1>3, <1>4, <1>5 DEF p

LEMMA WinsParts ==
  ASSUME OwnerConstants, OwnerInv, NEW l \in Link, link[l].used, ~link[l].installed, Wins(l)
  PROVE  /\ Targets' /\ OneOpen'
         /\ \A k \in Link : Reached(k) => Reached(k)'
<1>1. /\ LinkTypes /\ ServeTypes /\ Registered /\ Targets /\ OneOpen /\ Sounds
      /\ toKill' = toKill /\ toClose' = toClose /\ ledger' = ledger
  BY DEF OwnerInv, Wins
<1> DEFINE p == link[l].peer
           old == Winner(l)
<1>2. /\ p \in Peer /\ old \in Link \cup {None} /\ old = byIdentity[p]
      /\ link'[l].installed /\ link'[l].peer = p /\ link'[l].closing = link[l].closing
      /\ old # None => link[old].installed
      /\ byIdentity'[p] = l
      /\ \A x \in Peer : x # p => byIdentity'[x] = byIdentity[x]
      /\ \A k \in Link : k # l => link'[k] = link[k] /\ other'[k] = other[k]
      /\ other'[l] = old
  BY WinsLinks DEF Winner
<1> HIDE DEF p, old
<1>3. \A k \in Link : link[k].installed => link'[k].installed
  BY <1>2
<1>4. Targets'
  <2>1. ASSUME NEW k \in toKill' \cup ToSet(ledger') PROVE link'[k].installed
    <3>1. k \in Link /\ link[k].installed
      BY <1>1 DEF ServeTypes, ToSet, Targets
    <3> QED BY <1>3, <3>1
  <2>2. ASSUME NEW k \in Link, other'[k] # None PROVE link'[other'[k]].installed
    <3>1. CASE k = l
      BY <1>2, <1>3, <2>2, <3>1
    <3>2. CASE k # l
      <4>1. other'[k] = other[k] /\ other[k] \in Link
        BY <1>1, <1>2, <2>2, <3>2 DEF ServeTypes
      <4> QED BY <1>1, <1>3, <2>2, <4>1 DEF Targets
    <3> QED BY <3>1, <3>2
  <2> QED BY <2>1, <2>2 DEF Targets
<1>5. ASSUME NEW k \in Link, Doomed(k) PROVE Doomed(k)'
  <2>1. CASE k \in toKill
    BY <1>1, <2>1 DEF Doomed
  <2>2. CASE k \notin toKill
    <3>1. PICK j \in Link : link[j].installed /\ other[j] = k
      BY <1>5, <2>2 DEF Doomed
    <3>2. j # l
      BY <3>1
    <3>3. link'[j].installed /\ other'[j] = k
      BY <1>2, <3>1, <3>2
    <3> QED BY <3>3 DEF Doomed
  <2> QED BY <2>1, <2>2
<1>6. OneOpen'
  <2> SUFFICES ASSUME NEW k \in Link, link'[k].installed, ~link'[k].closing
               PROVE  byIdentity'[link'[k].peer] = k \/ Doomed(k)'
    BY DEF OneOpen
  <2>1. CASE k = l
    BY <1>2, <2>1
  <2>2. CASE k # l
    <3>1. link'[k] = link[k] /\ link[k].peer \in Peer
      <4>1. link'[k] = link[k]
        BY <1>2, <2>2
      <4>2. Sound(link[k]) /\ link[k] \in LinkState
        BY <1>1 DEF Sounds, LinkTypes
      <4> QED BY <4>1, <4>2 DEF Sound, LinkState
    <3>2. byIdentity[link[k].peer] = k \/ Doomed(k)
      BY <1>1, <3>1 DEF OneOpen
    <3>3. CASE byIdentity[link[k].peer] = k /\ link[k].peer # p
      BY <1>2, <3>1, <3>3
    <3>4. CASE byIdentity[link[k].peer] = k /\ link[k].peer = p
      <4>1. other'[l] = k /\ link'[l].installed
        BY <1>2, <3>4
      <4> QED BY <4>1 DEF Doomed
    <3> QED BY <1>5, <3>2, <3>3, <3>4
  <2> QED BY <2>1, <2>2
<1>7. ASSUME NEW k \in Link, Reached(k) PROVE Reached(k)'
  <2>1. link'[k].closing = link[k].closing
    BY <1>2
  <2> QED BY <1>1, <1>5, <1>7, <2>1 DEF Reached
<1> QED BY <1>4, <1>6, <1>7

\* The place of the link that is installed was reserved or is free.
LEMMA WinsPlace ==
  ASSUME OwnerConstants, OwnerInv, NEW l \in Link, link[l].used, ~link[l].installed, Wins(l),
         NEW own \in BOOLEAN, ~InstallFails(l, own), NEW e,
         Reserved' = IF Winner(l) = None /\ own THEN Reserved \ {e} ELSE Reserved,
         own => e \in Reserved
  PROVE  Registered'
<1>1. /\ \A p \in Peer : byIdentity'[p] # None =>
           link'[byIdentity'[p]].installed /\ link'[byIdentity'[p]].peer = p
      /\ InRegistry' = InRegistry \cup {link[l].peer}
      /\ Winner(l) # None => InRegistry' = InRegistry
  BY WinsRegistry
<1>2. /\ IsFiniteSet(InRegistry) /\ IsFiniteSet(Reserved)
      /\ Cardinality(InRegistry) + Cardinality(Reserved) <= MaxSessions
  BY DEF OwnerInv, Registered
<1>3. Cardinality(InRegistry) \in Nat /\ Cardinality(Reserved) \in Nat /\ MaxSessions \in Nat
  BY <1>2, FS_CardinalityType DEF OwnerConstants
<1> DEFINE A == InRegistry \cup {link[l].peer}
           B == Reserved \ {e}
<1>4. /\ IsFiniteSet(A) /\ Cardinality(A) <= Cardinality(InRegistry) + 1 /\ Cardinality(A) \in Nat
  <2>1. /\ IsFiniteSet(A)
        /\ Cardinality(A) = IF link[l].peer \in InRegistry THEN Cardinality(InRegistry)
                            ELSE Cardinality(InRegistry) + 1
    BY <1>2, FS_AddElement
  <2> QED BY <1>3, <2>1
<1>5. /\ IsFiniteSet(B)
      /\ e \in Reserved => Cardinality(B) = Cardinality(Reserved) - 1
  BY <1>2, FS_RemoveElement
<1>6. /\ Winner(l) # None \/ Occupied - (IF own THEN 1 ELSE 0) < MaxSessions
      /\ Occupied = Cardinality(InRegistry) + Cardinality(Reserved)
  <2>1. Occupied = Cardinality(InRegistry) + Cardinality(Reserved)
    BY DEF Occupied, InRegistry, Reserved
  <2>2. Winner(l) # None \/ ~(Occupied - (IF own THEN 1 ELSE 0) >= MaxSessions)
    BY DEF InstallFails
  <2> QED BY <1>3, <2>1, <2>2
<1> HIDE DEF A, B
<1>7. IsFiniteSet(InRegistry') /\ IsFiniteSet(Reserved')
  BY <1>1, <1>2, <1>4, <1>5 DEF A, B
<1>8. Cardinality(InRegistry') + Cardinality(Reserved') <= MaxSessions
  <2>1. CASE Winner(l) # None
    <3>1. InRegistry' = InRegistry /\ Reserved' = Reserved
      BY <1>1, <2>1
    <3> QED BY <1>2, <3>1
  <2> DEFINE i == Cardinality(InRegistry)
             r == Cardinality(Reserved)
  <2>2. CASE Winner(l) = None /\ own
    <3>1. InRegistry' = A /\ Reserved' = B /\ e \in Reserved
      BY <1>1, <2>2 DEF A, B
    <3>2. i + r - 1 < MaxSessions /\ i \in Nat /\ r \in Nat /\ Cardinality(A) \in Nat
          /\ Cardinality(A) <= i + 1 /\ Cardinality(B) = r - 1
      BY <1>3, <1>4, <1>5, <1>6, <2>2, <3>1
    <3> HIDE DEF i, r
    <3>3. Cardinality(A) + Cardinality(B) <= MaxSessions
      BY <1>3, <3>2
    <3> QED BY <3>1, <3>3
  <2>3. CASE Winner(l) = None /\ ~own
    <3>1. InRegistry' = A /\ Reserved' = Reserved
      BY <1>1, <2>3 DEF A
    <3>2. i + r < MaxSessions /\ i \in Nat /\ r \in Nat /\ Cardinality(A) \in Nat
          /\ Cardinality(A) <= i + 1
      BY <1>3, <1>4, <1>6, <2>3
    <3> HIDE DEF i
    <3>3. Cardinality(A) + r <= MaxSessions
      <4> HIDE DEF r
      <4> QED BY <1>3, <3>2
    <3> QED BY <3>1, <3>3
  <2> QED BY <2>1, <2>2, <2>3
<1> QED BY <1>1, <1>7, <1>8 DEF Registered

\* EstablishOutbound publishes its connection.
LEMMA InstallWinsKeeps ==
  ASSUME OwnerConstants, OwnerInv, NEW c \in Caller, Where(c) = "install",
         NEW l, l = establishing[Key(c)].conn,
         ~InstallFails(l, establishing[Key(c)].reserved), Wins(l),
         establishing' = [establishing EXCEPT ![Key(c)].reserved = @ /\ Winner(l) # None],
         got' = [got EXCEPT ![c] = l], Go(c, "spawn"), UNCHANGED serve
  PROVE  OwnerInv'
<1> DEFINE e == Key(c)
<1>1. /\ LinkTypes /\ CallTypes /\ ServeTypes /\ Sounds /\ Registered /\ Targets /\ OneOpen
      /\ Workers /\ OneWorker /\ Dialled /\ Serving /\ OwnerReaches /\ ServerReaches /\ Quiescent
  BY DEF OwnerInv
<1>2. /\ closed' = closed /\ shut' = shut /\ ops' = ops /\ ledger' = ledger
      /\ handshakes' = handshakes /\ sealed' = sealed /\ serve' = serve
      /\ toKill' = toKill /\ toClose' = toClose
  BY DEF Wins, ownVars
<1>3. Where(c) \in AtWork /\ {"install", "spawn"} \subseteq AtWork
  BY DEF AtWork
<1>4. /\ e \in Endpoint /\ establishing[e].open /\ establishing[e] \in Record
      /\ l \in Link /\ link[l].outbound /\ link[l].used /\ serve[l] = "none" /\ ~link[l].installed
  BY <1>3, WorkerHas
<1>5. /\ establishing' \in [Endpoint -> Record] /\ establishing'[e].conn = l
      /\ establishing'[e].open
      /\ establishing'[e].reserved = (establishing[e].reserved /\ Winner(l) # None)
      /\ \A f \in Endpoint : f # e => establishing'[f] = establishing[f]
  <2> DEFINE b == establishing[e].reserved /\ Winner(l) # None
  <2>1. establishing' = [establishing EXCEPT ![e].reserved = b] /\ b \in BOOLEAN
    BY <1>1, <1>4 DEF CallTypes, Record
  <2> HIDE DEF b
  <2>2. /\ establishing' \in [Endpoint -> Record] /\ establishing'[e].conn = l
        /\ establishing'[e].open /\ establishing'[e].reserved = b
        /\ \A f \in Endpoint : f # e => establishing'[f] = establishing[f]
    BY <1>1, <1>4, <2>1 DEF CallTypes, Record
  <2> QED BY <2>2 DEF b
<1>6. /\ at' \in [Caller -> Place \X (Endpoint \cup {None})] /\ at'[c] = <<"spawn", e>>
      /\ \A d \in Caller : d # c => at'[d] = at[d]
  BY <1>1, GoMeans DEF CallTypes, Place
<1>7. /\ Where(c)' = "spawn" /\ Key(c)' = e
      /\ \A d \in Caller : d # c => Where(d)' = Where(d) /\ Key(d)' = Key(d)
  BY <1>6 DEF Where, Key
<1>8. /\ got' \in [Caller -> Link \cup {None}] /\ got'[c] = l
      /\ \A d \in Caller : d # c => got'[d] = got[d]
  BY <1>1, <1>4 DEF CallTypes
<1>9. /\ LinkTypes' /\ Sounds' /\ link'[l].installed /\ Unborn(link'[l])
      /\ link'[l].outbound = link[l].outbound
      /\ other' \in [Link -> Link \cup {None}]
      /\ \A k \in Link : k # l => link'[k] = link[k] /\ other'[k] = other[k]
  BY <1>4, WinsLinks
<1>10. Targets' /\ OneOpen' /\ \A k \in Link : Reached(k) => Reached(k)'
  BY <1>4, WinsParts
<1>11. CallTypes'
  BY <1>1, <1>2, <1>5, <1>6, <1>8 DEF CallTypes
<1>12. ServeTypes'
  BY <1>1, <1>2, <1>9 DEF ServeTypes
<1> HIDE DEF e
<1>13. Registered'
  <2> DEFINE own == establishing[e].reserved
  <2>1. own \in BOOLEAN /\ ~InstallFails(l, own)
    BY <1>4 DEF Record, e
  <2>2. own => e \in Reserved
    BY <1>4 DEF Reserved
  <2>3. Reserved' = IF Winner(l) = None /\ own THEN Reserved \ {e} ELSE Reserved
    <3>1. ASSUME NEW f \in Endpoint
          PROVE  f \in Reserved' <=> f \in Reserved /\ ~(f = e /\ Winner(l) = None)
      <4>1. CASE f = e
        BY <1>5, <3>1, <4>1 DEF Reserved
      <4>2. CASE f # e
        BY <1>5, <3>1, <4>2 DEF Reserved
      <4> QED BY <4>1, <4>2
    <3>2. Reserved \subseteq Endpoint /\ Reserved' \subseteq Endpoint
      BY DEF Reserved
    <3>3. ~own => e \notin Reserved
      BY DEF Reserved
    <3> QED BY <3>1, <3>2, <3>3
  <2> HIDE DEF own
  <2> QED BY <1>4, <2>1, <2>2, <2>3, WinsPlace
<1>14. ASSUME NEW d \in Caller, d # c, Where(d) \in AtWork
       PROVE  /\ Key(d) # e /\ Key(d) \in Endpoint
              /\ establishing[Key(d)].conn # l
              /\ establishing[Key(d)].conn \in Link \cup {None}
  <2>1. Key(d) # e
    BY <1>1, <1>3, <1>14 DEF OneWorker, e
  <2>2. Key(d) \in Endpoint /\ establishing[Key(d)] \in Record
    BY <1>14, WorkerHas
  <2>3. \A x, y \in Endpoint :
              establishing[x].conn = establishing[y].conn /\ establishing[x].conn # None => x = y
    BY <1>1 DEF Dialled
  <2>4. establishing[e].conn = l /\ l # None
    BY <1>4 DEF e, OwnerConstants
  <2>5. establishing[Key(d)].conn # l
    BY <1>4, <2>1, <2>2, <2>3, <2>4
  <2> QED BY <2>1, <2>2, <2>5 DEF Record
<1>15. Workers'
  <2>1. ASSUME NEW d \in Caller PROVE Worker(d)'
    <3>1. CASE d = c
      <4>1. WorkerFits("spawn", e, got'[c], establishing', link')
        BY <1>4, <1>5, <1>8, <1>9 DEF WorkerFits, OwnerConstants
      <4> QED BY <1>7, <3>1, <4>1 DEF Worker
    <3>2. CASE d # c
      <4> DEFINE w == Where(d)
                 f == Key(d)
                 k == establishing[f].conn
      <4>1. WorkerFits(w, f, got[d], establishing, link)
        BY <1>1 DEF Workers, Worker
      <4>2. Where(d)' = w /\ Key(d)' = f /\ got'[d] = got[d]
        BY <1>7, <1>8, <3>2
      <4>3. w \in AtWork \cup {"wait"} => establishing'[f].open
        BY <1>5, <4>1 DEF WorkerFits
      <4>4. w \in AtWork => establishing'[f].conn = k /\ (k # None => link'[k] = link[k])
        BY <1>5, <1>9, <1>14, <3>2
      <4>5. {"dial", "shake", "install", "spawn", "made"} \subseteq AtWork
        BY DEF AtWork
      <4> HIDE DEF w, f
      <4>6. WorkerFits(w, f, got[d], establishing', link')
        BY <4>1, <4>3, <4>4, <4>5, Zenon DEF WorkerFits
      <4> QED BY <4>2, <4>6 DEF Worker
    <3> QED BY <3>1, <3>2
  <2> QED BY <2>1 DEF Workers
<1>16. OneWorker'
  <2>1. ASSUME NEW d \in Caller
        PROVE  /\ Where(d)' \in AtWork <=> Where(d) \in AtWork
               /\ Where(d) \in AtWork => Key(d)' = Key(d)
    BY <1>3, <1>7 DEF e
  <2>2. ASSUME NEW f \in Endpoint PROVE establishing'[f].open = establishing[f].open
    <3>1. CASE f = e
      <4>1. establishing'[e].open \in BOOLEAN /\ establishing[e].open \in BOOLEAN
        BY <1>4, <1>5 DEF Record
      <4> QED BY <1>4, <1>5, <3>1, <4>1
    <3>2. CASE f # e
      BY <1>5, <3>2
    <3> QED BY <3>1, <3>2
  <2> QED BY <1>1, <2>1, <2>2, OneWorkerMoves
<1>17. Dialled'
  <2>1. ASSUME NEW f \in Endpoint
        PROVE  /\ establishing'[f].conn = establishing[f].conn
               /\ establishing[f].open => establishing'[f].open
    <3>1. CASE f = e
      BY <1>5, <3>1 DEF e
    <3>2. CASE f # e
      BY <1>5, <3>2
    <3> QED BY <3>1, <3>2
  <2>2. \A k \in Link : link[k].outbound => link'[k].outbound
    BY <1>9
  <2>3. \A f \in Endpoint : establishing[f].conn \in Link \cup {None}
    BY <1>1 DEF CallTypes, Record
  <2>4. ASSUME NEW f \in Endpoint, establishing'[f].conn # None
        PROVE  establishing'[f].open /\ link'[establishing'[f].conn].outbound
    BY <1>1, <2>1, <2>2, <2>3, <2>4 DEF Dialled
  <2>5. ASSUME NEW k \in Link, link'[k].outbound, ~link'[k].installed, ~link'[k].closing
        PROVE  \E f \in Endpoint : establishing'[f].conn = k
    <3>1. k # l
      BY <1>9, <2>5
    <3>2. PICK f \in Endpoint : establishing[f].conn = k
      BY <1>1, <1>9, <2>5, <3>1 DEF Dialled
    <3> QED BY <2>1, <3>2
  <2>6. \A f, g \in Endpoint :
          establishing'[f].conn = establishing'[g].conn /\ establishing'[f].conn # None => f = g
    <3>1. \A x, y \in Endpoint :
              establishing[x].conn = establishing[y].conn /\ establishing[x].conn # None => x = y
      BY <1>1 DEF Dialled
    <3> QED BY <2>1, <3>1
  <2> QED BY <2>4, <2>5, <2>6 DEF Dialled
<1>18. Serving'
  <2>1. ASSUME NEW k \in Link PROVE ServeFits(k)'
    <3>1. ServeFits(k)
      BY <1>1 DEF Serving
    <3>2. CASE k = l
      BY <1>2, <1>4, <3>2 DEF ServeFits, AtHand
    <3>3. CASE k # l
      <4>1. link'[k] = link[k] /\ other'[k] = other[k]
        BY <1>9, <3>3
      <4> QED BY <1>2, <3>1, <4>1 DEF ServeFits
    <3> QED BY <3>2, <3>3
  <2> QED BY <2>1 DEF Serving
<1>19. OwnerReaches'
  BY <1>2 DEF OwnerReaches, InstallFails
<1>20. ServerReaches'
  BY <1>1, <1>2, <1>10 DEF ServerReaches
<1>21. Quiescent'
  BY <1>1, <1>2 DEF Quiescent
<1> QED BY <1>9, <1>10, <1>11, <1>12, <1>13, <1>15, <1>16, <1>17, <1>18, <1>19, <1>20, <1>21
        DEF OwnerInv

LEMMA InstallKeeps ==
  ASSUME OwnerConstants, OwnerInv, NEW c \in Caller, Install(c)
  PROVE  OwnerInv'
<1> DEFINE e == Key(c)
           l == establishing[e].conn
           old == Winner(l)
<1>1. /\ LinkTypes /\ CallTypes /\ ServeTypes /\ Sounds /\ Where(c) = "install"
      /\ UNCHANGED <<ownVars, ops, srvVars, toKill, toClose>>
  BY DEF OwnerInv, Install
<1>2. Where(c) \in AtWork /\ {"failed", "made"} \subseteq Place \cap AtWork
  BY <1>1 DEF AtWork, Place
<1>3. /\ e \in Endpoint /\ establishing[e].open
      /\ l \in Link /\ link[l].outbound /\ link[l].used /\ ~link[l].installed
  BY <1>1, <1>2, WorkerHas
<1>4. /\ ops' \subseteq Caller /\ ops' \subseteq ops /\ got \in [Caller -> Link \cup {None}]
  BY <1>1 DEF CallTypes
<1>5. CASE /\ link' = RequestClose(link, {l}) /\ Go(c, "failed")
           /\ UNCHANGED <<byIdentity, byEndpoint, got, establishing, other>>
  <2>1. Ages({}, {})
    BY <1>1, <1>5, RequestCloseAges
  <2>2. at' = [at EXCEPT ![c] = <<"failed", e>>]
    BY <1>1, <1>5, GoMeans
  <2>3. CallerGoes(c, "failed", e)
    BY <1>1, <1>2, <1>4, <1>5, <2>2 DEF CallerGoes, sealVars
  <2>4. WorkerFits("failed", e, got'[c], establishing, link')
    BY <1>3, Elsewhere
  <2>5. "failed" \in Place /\ e \in Endpoint \cup {None}
    BY <1>2, <1>3
  <2> QED BY <2>1, <2>3, <2>4, <2>5, NoneSpawn, MoveStep
<1>6. CASE /\ InstallLoses(l)
           /\ link' = [link EXCEPT ![l].dead = TRUE, ![l].closing = TRUE]
           /\ byEndpoint' = [byEndpoint EXCEPT ![e] = old]
           /\ got' = [got EXCEPT ![c] = old] /\ Go(c, "made")
           /\ UNCHANGED <<byIdentity, establishing, other>>
  <2>1. old \in Link \cup {None}
    <3>1. link[l].peer \in Peer
      BY <1>1, <1>3 DEF Sounds, Sound
    <3> QED BY <1>1, <3>1 DEF Winner, LinkTypes
  <2>2. byEndpoint' \in [Endpoint -> Link \cup {None}]
    BY <1>1, <1>6, <2>1 DEF LinkTypes
  <2>3. Ages({}, {}) /\ link'[l].closing
    <3> HIDE DEF l, old
    <3> QED BY <1>1, <1>3, <1>6, <2>2, LoserAges
  <2>4. at' = [at EXCEPT ![c] = <<"made", e>>]
    BY <1>1, <1>6, GoMeans
  <2>5. got' \in [Caller -> Link \cup {None}] /\ \A d \in Caller : d # c => got'[d] = got[d]
    BY <1>4, <1>6, <2>1
  <2>6. CallerGoes(c, "made", e)
    BY <1>1, <1>2, <1>4, <1>6, <2>4, <2>5 DEF CallerGoes, sealVars
  <2>7. WorkerFits("made", e, got'[c], establishing, link')
    BY <1>3, <2>3 DEF WorkerFits, OwnerConstants
  <2>8. "made" \in Place /\ e \in Endpoint \cup {None}
    BY <1>2, <1>3
  <2> QED BY <2>3, <2>6, <2>7, <2>8, NoneSpawn, MoveStep
<1>7. CASE /\ ~InstallFails(l, establishing[e].reserved)
           /\ Publish(l) /\ TakeOver(l, e)
           /\ establishing' = [establishing EXCEPT ![e].reserved = @ /\ old # None]
           /\ other' = [other EXCEPT ![l] = old]
           /\ got' = [got EXCEPT ![c] = l] /\ Go(c, "spawn")
  <2>1. byEndpoint' \in [Endpoint -> Link \cup {None}]
    <3>1. byEndpoint' = [x \in Endpoint |->
                   IF x = e \/ (Winner(l) # None /\ byEndpoint[x] = Winner(l)) THEN l
                   ELSE byEndpoint[x]]
      BY <1>7 DEF TakeOver
    <3> HIDE DEF l
    <3> QED BY <1>1, <1>3, <3>1 DEF LinkTypes
  <2>2. Wins(l) /\ UNCHANGED serve
    BY <1>1, <1>7, <2>1 DEF Wins, srvVars
  <2> HIDE DEF old
  <2>3. l = establishing[Key(c)].conn /\ ~InstallFails(l, establishing[Key(c)].reserved)
    BY <1>7
  <2>4. establishing' = [establishing EXCEPT ![Key(c)].reserved = @ /\ Winner(l) # None]
        /\ got' = [got EXCEPT ![c] = l] /\ Go(c, "spawn")
    BY <1>7 DEF old
  <2> HIDE DEF l
  <2> QED BY <1>1, <2>2, <2>3, <2>4, InstallWinsKeeps
<1> QED BY <1>5, <1>6, <1>7, Zenon DEF Install

\* The common end of EstablishOutbound: the record goes, and whoever waits for it is told.
LEMMA FinishEstablishingKeeps ==
  ASSUME OwnerConstants, OwnerInv, NEW c \in Caller, FinishEstablishing(c)
  PROVE  OwnerInv'
<1> DEFINE e == Key(c)
           made == Where(c) = "made"
           k == establishing[e].conn
           p == IF made THEN "use" ELSE "end"
<1>1. /\ LinkTypes /\ CallTypes /\ ServeTypes /\ Sounds /\ Registered /\ Targets /\ OneOpen
      /\ Workers /\ OneWorker /\ Dialled /\ Serving /\ OwnerReaches /\ ServerReaches /\ Quiescent
  BY DEF OwnerInv
<1>2. /\ Where(c) \in {"made", "failed"} /\ Where(c) \in AtWork
      /\ UNCHANGED <<byIdentity, byEndpoint, ownVars, ops, tries, srvVars, sealVars>>
      /\ link' = IF made \/ k = None THEN link ELSE RequestClose(link, {k})
      /\ establishing' = [establishing EXCEPT ![e] = NoRecord]
      /\ got' = [w \in Caller |-> IF w \notin Waiting(e) THEN got[w]
                                  ELSE IF made THEN got[c] ELSE None]
      /\ at' = [w \in Caller |-> CASE w = c -> <<p, e>>
                                   [] w \in Waiting(e) -> <<"told", e>>
                                   [] OTHER -> at[w]]
  BY Zenon DEF FinishEstablishing, AtWork
<1>3. /\ closed' = closed /\ shut' = shut /\ ops' = ops
      /\ ledger' = ledger /\ handshakes' = handshakes /\ sealed' = sealed /\ serve' = serve
      /\ other' = other /\ toKill' = toKill /\ toClose' = toClose
  BY <1>2 DEF ownVars, srvVars, sealVars
<1>4. /\ e \in Endpoint /\ establishing[e] \in Record
      /\ made => k \in Link /\ (link[k].installed \/ link[k].closing)
  BY <1>2, WorkerHas
<1>5. k \in Link \cup {None}
  BY <1>4 DEF Record
<1>6. NoRecord \in Record /\ ~NoRecord.open /\ ~NoRecord.reserved /\ NoRecord.conn = None
  BY DEF NoRecord, Record
<1>7. /\ establishing' \in [Endpoint -> Record] /\ establishing'[e] = NoRecord
      /\ \A f \in Endpoint : f # e => establishing'[f] = establishing[f]
  BY <1>1, <1>2, <1>4, <1>6 DEF CallTypes
<1>8. /\ Ages({}, {})
      /\ ~made /\ k # None => link'[k].closing
  <2>1. CASE made \/ k = None
    <3>1. UNCHANGED linkVars
      BY <1>2, <2>1 DEF linkVars
    <3> QED BY <1>1, <2>1, <3>1, StayAges
  <2>2. CASE ~(made \/ k = None)
    <3>1. link' = RequestClose(link, {k})
      BY <1>2, <2>2
    <3> HIDE DEF k
    <3> QED BY <1>1, <1>2, <1>5, <3>1, RequestCloseAges
  <2> QED BY <2>1, <2>2
<1>9. LinkTypes' /\ Sounds'
  BY <1>8, LinkTypesAge
<1> HIDE DEF made, p, e, k
<1>10. p \in {"use", "end"} /\ e = Key(c)
  BY DEF p, e
<1>11. c \notin Waiting(e) /\ Where(c) \notin {"wait"}
  BY <1>2 DEF Waiting, Where
<1>12. /\ at'[c] = <<p, e>>
       /\ \A w \in Waiting(e) : w \in Caller /\ at'[w] = <<"told", e>> /\ at[w] = <<"wait", e>>
       /\ \A w \in Caller : w # c /\ w \notin Waiting(e) => at'[w] = at[w] /\ got'[w] = got[w]
  <2>1. \A w \in Waiting(e) : w \in Caller /\ at[w] = <<"wait", e>>
    BY DEF Waiting
  <2>2. at'[c] = <<p, e>>
    <3>1. \A w \in Caller : w = c => at'[w] = <<p, e>>
      BY <1>2, <1>11
    <3> QED BY <3>1
  <2>3. ASSUME NEW w \in Waiting(e) PROVE at'[w] = <<"told", e>>
    <3>1. w # c /\ w \in Caller
      BY <1>11, <2>1
    <3> QED BY <1>2, <3>1
  <2>4. ASSUME NEW w \in Caller, w # c, w \notin Waiting(e) PROVE at'[w] = at[w] /\ got'[w] = got[w]
    BY <1>2, <2>4
  <2> QED BY <2>1, <2>2, <2>3, <2>4
<1>13. /\ Where(c)' = p /\ Key(c)' = e
       /\ \A w \in Waiting(e) : Where(w)' = "told" /\ Key(w)' = e /\ Where(w) = "wait"
       /\ \A w \in Caller : w # c /\ w \notin Waiting(e) => Where(w)' = Where(w) /\ Key(w)' = Key(w)
  BY <1>12 DEF Where, Key
<1>14. CallTypes'
  <2>1. ASSUME NEW w \in Caller PROVE at'[w] \in Place \X (Endpoint \cup {None})
    <3>1. CASE w = c
      BY <1>4, <1>10, <1>12, <3>1 DEF Place
    <3>2. CASE w \in Waiting(e)
      BY <1>4, <1>12, <3>2 DEF Place
    <3>3. CASE w # c /\ w \notin Waiting(e)
      BY <1>1, <1>12, <3>3 DEF CallTypes
    <3> QED BY <3>1, <3>2, <3>3
  <2>2. at' \in [Caller -> Place \X (Endpoint \cup {None})]
    BY <1>2, <2>1
  <2>3. got' \in [Caller -> Link \cup {None}]
    BY <1>1, <1>2 DEF CallTypes
  <2> QED BY <1>1, <1>3, <1>7, <2>2, <2>3 DEF CallTypes
<1>15. ServeTypes'
  BY <1>1, <1>3 DEF ServeTypes
<1>16. Registered'
  <2>1. Reserved' \subseteq Reserved
    BY <1>6, <1>7 DEF Reserved
  <2> QED BY <1>1, <1>8, <2>1, RegisteredAges
<1>17. Targets'
  <2>1. ASSUME NEW l \in toKill' \cup ToSet(ledger') PROVE l \in Link /\ link[l].installed
    <3>1. ToSet(ledger) \subseteq Link
      BY <1>1 DEF ServeTypes, ToSet
    <3> QED BY <1>1, <1>3, <3>1 DEF Targets, ServeTypes
  <2>2. ASSUME NEW l \in Link, other'[l] # None
        PROVE other'[l] \in Link /\ link[other'[l]].installed
    BY <1>1, <1>3, <2>2 DEF Targets, ServeTypes
  <2> QED BY <1>1, <1>8, <2>1, <2>2, TargetsAge
<1>18. Kept
  BY <1>1, <1>3, <1>8, KeptAll
<1>19. OneOpen'
  BY <1>1, <1>8, <1>18, OneOpenAges
<1>20. ASSUME NEW d \in Caller, d # c, Where(d) \in AtWork
       PROVE  Key(d) # e /\ Key(d) \in Endpoint /\ d \notin Waiting(e)
  <2>1. Key(d) # e
    BY <1>1, <1>2, <1>10, <1>20 DEF OneWorker
  <2>2. d \notin Waiting(e)
    BY <1>13, <1>20 DEF AtWork
  <2> QED BY <1>20, <2>1, <2>2, WorkerHas
<1>21. Workers'
  <2>1. ASSUME NEW d \in Caller PROVE Worker(d)'
    <3>1. CASE d = c
      <4>1. WorkerFits(p, e, got'[c], establishing', link')
        BY <1>4, <1>10, Elsewhere
      <4> QED BY <1>13, <3>1, <4>1 DEF Worker
    <3>2. CASE d \in Waiting(e)
      <4>1. WorkerFits("told", e, got'[d], establishing', link')
        BY <1>4, Elsewhere
      <4> QED BY <1>13, <3>2, <4>1 DEF Worker
    <3>3. CASE d # c /\ d \notin Waiting(e)
      <4>1. Worker(d)
        BY <1>1 DEF Workers
      <4>2. Where(d) \in AtWork => establishing'[Key(d)] = establishing[Key(d)]
        BY <1>7, <1>20, <3>3
      <4>3. Where(d) \in AtWork \cup {"wait"} => establishing'[Key(d)].open
        <5>1. CASE Where(d) \in AtWork
          BY <4>1, <4>2, <5>1 DEF Worker, WorkerFits
        <5>2. CASE Where(d) = "wait"
          <6>1. Key(d) \in Endpoint /\ establishing[Key(d)].open
            BY <4>1, <5>2 DEF Worker, WorkerFits
          <6>2. Key(d) # e
            <7>1. at[d] = <<Where(d), Key(d)>>
              BY <1>1 DEF CallTypes, Where, Key
            <7> QED BY <3>3, <5>2, <7>1 DEF Waiting
          <6> QED BY <1>7, <6>1, <6>2
        <5> QED BY <5>1, <5>2
      <4>4. at'[d] = at[d] /\ got'[d] = got[d]
        BY <1>12, <3>3
      <4> QED BY <1>1, <1>8, <4>1, <4>2, <4>3, <4>4, WorkerStays
    <3> QED BY <3>1, <3>2, <3>3
  <2> QED BY <2>1 DEF Workers
<1>22. ASSUME NEW d \in Caller, Where(d)' \in AtWork
       PROVE  d # c /\ Where(d) \in AtWork /\ Key(d)' = Key(d)
  <2>1. d # c /\ d \notin Waiting(e)
    BY <1>10, <1>13, <1>22 DEF AtWork
  <2> QED BY <1>13, <1>22, <2>1
<1>23. OneWorker'
  <2>1. \A x, d \in Caller : Where(x)' \in AtWork /\ Where(d)' \in AtWork /\ Key(x)' = Key(d)' => x = d
    BY <1>1, <1>22 DEF OneWorker
  <2>2. ASSUME NEW f \in Endpoint, establishing'[f].open
        PROVE  \E d \in Caller : Key(d)' = f /\ Where(d)' \in AtWork
    <3>1. f # e /\ establishing[f].open
      BY <1>6, <1>7, <2>2
    <3>2. PICK d \in Caller : Key(d) = f /\ Where(d) \in AtWork
      BY <1>1, <3>1 DEF OneWorker
    <3>3. d # c
      BY <1>10, <3>1, <3>2
    <3>4. d \notin Waiting(e)
      BY <1>20, <3>2, <3>3
    <3> QED BY <1>13, <3>2, <3>3, <3>4
  <2> QED BY <2>1, <2>2 DEF OneWorker
<1>24. Dialled'
  <2>1. ASSUME NEW f \in Endpoint, establishing'[f].conn # None
        PROVE  /\ f # e /\ establishing'[f] = establishing[f] /\ establishing[f].conn \in Link
               /\ establishing[f].open /\ link'[establishing[f].conn].outbound
    <3>1. f # e /\ establishing'[f] = establishing[f]
      BY <1>6, <1>7, <2>1
    <3>2. establishing[f].conn \in Link /\ establishing[f].open
          /\ link[establishing[f].conn].outbound
      BY <1>1, <2>1, <3>1 DEF Dialled, CallTypes, Record
    <3> QED BY <1>1, <1>8, <3>1, <3>2, AgesMean
  <2>2. ASSUME NEW l \in Link, link'[l].outbound, ~link'[l].installed, ~link'[l].closing
        PROVE  \E f \in Endpoint : establishing'[f].conn = l
    <3>1. link[l].outbound /\ ~link[l].installed /\ ~link[l].closing
      BY <1>1, <1>8, <2>2, AgesMean
    <3>2. PICK f \in Endpoint : establishing[f].conn = l
      BY <1>1, <3>1 DEF Dialled
    <3>3. f # e
      <4>1. SUFFICES ASSUME f = e PROVE FALSE
        OBVIOUS
      <4>2. k = l /\ k # None
        BY <3>2, <4>1 DEF k, OwnerConstants
      <4> QED BY <1>4, <1>8, <2>2, <3>1, <4>2
    <3> QED BY <1>7, <3>2, <3>3
  <2>3. ASSUME NEW f \in Endpoint, NEW g \in Endpoint, establishing'[f].conn = establishing'[g].conn,
               establishing'[f].conn # None
        PROVE  f = g
    <3>1. establishing'[f] = establishing[f] /\ establishing'[g] = establishing[g]
      BY <2>1, <2>3
    <3> QED BY <1>1, <2>3, <3>1 DEF Dialled
  <2> QED BY <2>1, <2>2, <2>3 DEF Dialled
<1>25. Serving'
  <2>1. ASSUME NEW l \in Link PROVE ServeFits(l)'
    <3>1. ServeFits(l)
      BY <1>1 DEF Serving
    <3> QED BY <1>1, <1>3, <1>8, <3>1, ServeStays
  <2> QED BY <2>1 DEF Serving
<1>26. OwnerReaches'
  BY <1>1, <1>3, <1>8, <1>18, OwnerReachesAges
<1>27. ServerReaches'
  BY <1>1, <1>3, <1>8, <1>18, ServerReachesAges
<1>28. Quiescent'
  BY <1>1, <1>3 DEF Quiescent
<1> QED BY <1>9, <1>14, <1>15, <1>16, <1>17, <1>19, <1>21, <1>23, <1>24, <1>25, <1>26, <1>27, <1>28
        DEF OwnerInv

LEMMA CallStepKeeps ==
  ASSUME OwnerConstants, OwnerInv, NEW c \in Caller, CallStep(c)
  PROVE  OwnerInv'
<1>1. CASE GetSession(c) \/ AwaitEstablished(c) \/ Dial(c) \/ Handshake(c) \/ Install(c)
  BY <1>1, GetSessionKeeps, AwaitKeeps, DialKeeps, HandshakeKeeps, InstallKeeps
<1>2. CASE Spawn(c) \/ FinishEstablishing(c) \/ Use(c) \/ EndOperation(c)
  BY <1>2, SpawnKeeps, FinishEstablishingKeeps, UseKeeps, EndOperationKeeps
<1> QED BY <1>1, <1>2, Zenon DEF CallStep

-----------------------------------------------------------------------------
(***************************************************************************)
(* The server: AcceptLoop and ServeInbound.                                *)
(***************************************************************************)

\* Link l goes to stage p; no other link that is open leaves the ledger.
Serves(l, p) ==
  /\ serve' = [serve EXCEPT ![l] = p]
  /\ UNCHANGED <<ownVars, callVars, sealed, toKill, toClose>>
  /\ handshakes' \in {handshakes, handshakes \ {l}}
  /\ ledger' \in Seq(Link) /\ \A k \in ToSet(ledger') : link[k].installed
  /\ \A k \in ToSet(ledger) : k # l => k \in ToSet(ledger') \/ link'[k].closing
  /\ other' \in [Link -> Link \cup {None}] /\ \A k \in Link : k # l => other'[k] = other[k]
  /\ other'[l] = other[l] \/ (~link[l].installed /\ link[other'[l]].installed)

\* Nobody else is about to spawn the tasks of a link of S.
ServesAlone(l, S) ==
  /\ \A d \in Caller : Where(d) = "spawn" => got[d] \notin S
  /\ \A k \in S \cap Link : k # l => serve[k] # "spawn"

LEMMA ServeMove ==
  ASSUME OwnerConstants, OwnerInv, NEW l \in Link, NEW p \in Stage, NEW S, Ages(S, {}),
         serve[l] # "none", serve[l] = "close" => link'[l].closing,
         Serves(l, p), ServesAlone(l, S), ServeFits(l)'
  PROVE  OwnerInv'
<1>1. /\ LinkTypes /\ CallTypes /\ ServeTypes /\ Sounds /\ Registered /\ Targets /\ OneOpen
      /\ Workers /\ OneWorker /\ Dialled /\ Serving /\ OwnerReaches /\ ServerReaches /\ Quiescent
  BY DEF OwnerInv
<1>2. /\ closed' = closed /\ shut' = shut /\ ops' = ops /\ at' = at /\ got' = got
      /\ establishing' = establishing /\ sealed' = sealed /\ toKill' = toKill
      /\ toClose' = toClose /\ serve' = [serve EXCEPT ![l] = p]
  BY DEF Serves, ownVars, callVars
<1>3. /\ handshakes' \in {handshakes, handshakes \ {l}}
      /\ ledger' \in Seq(Link) /\ \A k \in ToSet(ledger') : link[k].installed
      /\ \A k \in ToSet(ledger) : k # l => k \in ToSet(ledger') \/ link'[k].closing
      /\ other' \in [Link -> Link \cup {None}] /\ \A k \in Link : k # l => other'[k] = other[k]
      /\ other'[l] = other[l] \/ (~link[l].installed /\ link[other'[l]].installed)
  BY DEF Serves
<1>4. LinkTypes' /\ Sounds'
  BY LinkTypesAge
<1>5. CallTypes'
  BY <1>1, <1>2 DEF CallTypes
<1>6. /\ serve' \in [Link -> Stage] /\ serve'[l] = p
      /\ \A k \in Link : k # l => serve'[k] = serve[k]
  BY <1>1, <1>2 DEF ServeTypes
<1>7. ServeTypes'
  BY <1>1, <1>2, <1>3, <1>6 DEF ServeTypes
<1>8. Registered'
  <2>1. Reserved' \subseteq Reserved
    BY <1>2 DEF Reserved
  <2> QED BY <1>1, <2>1, RegisteredAges
<1>9. Targets'
  <2>1. ASSUME NEW k \in toKill' \cup ToSet(ledger') PROVE k \in Link /\ link[k].installed
    <3>1. ToSet(ledger') \subseteq Link
      BY <1>3 DEF ToSet
    <3> QED BY <1>1, <1>2, <1>3, <3>1 DEF Targets, ServeTypes
  <2>2. ASSUME NEW k \in Link, other'[k] # None
        PROVE other'[k] \in Link /\ link[other'[k]].installed
    <3>1. CASE other'[k] = other[k]
      BY <1>1, <1>3, <2>2, <3>1 DEF Targets, ServeTypes
    <3>2. CASE other'[k] # other[k]
      BY <1>3, <2>2, <3>2
    <3> QED BY <3>1, <3>2
  <2> QED BY <1>1, <2>1, <2>2, TargetsAge
<1>10. Kept
  <2>1. \A k \in Link : other'[k] = other[k] \/ ~link[k].installed
    BY <1>3
  <2> QED BY <1>1, <1>2, <2>1, KeptAll
<1>11. OneOpen'
  BY <1>1, <1>10, OneOpenAges
<1>12. Workers'
  <2>1. ASSUME NEW c \in Caller PROVE Worker(c)'
    <3>1. Worker(c)
      BY <1>1 DEF Workers
    <3>2. Where(c) \in AtWork \cup {"wait"} => establishing'[Key(c)].open
      BY <1>2, <3>1 DEF Worker, WorkerFits
    <3>3. Where(c) = "spawn" => got[c] \notin S
      BY DEF ServesAlone
    <3> QED BY <1>1, <1>2, <3>1, <3>2, <3>3, WorkerStays
  <2> QED BY <2>1 DEF Workers
<1>13. OneWorker'
  BY <1>1, <1>2 DEF OneWorker, Where, Key
<1>14. Dialled'
  BY <1>1, <1>2, DialledAges
<1>15. Serving'
  <2>1. ASSUME NEW k \in Link, k # l PROVE ServeFits(k)'
    <3>1. ServeFits(k)
      BY <1>1 DEF Serving
    <3>2. serve[k] = "spawn" => k \notin S
      BY <2>1 DEF ServesAlone
    <3>3. /\ serve'[k] = serve[k] /\ (k \in handshakes => k \in handshakes')
          /\ other'[k] = other[k]
          /\ k \in ToSet(ledger) => k \in ToSet(ledger') \/ link'[k].closing
      BY <1>3, <1>6, <2>1
    <3> QED BY <1>1, <1>2, <3>1, <3>2, <3>3, ServeStays
  <2> QED BY <2>1 DEF Serving
<1>16. OwnerReaches'
  BY <1>1, <1>2, <1>10, OwnerReachesAges
<1>17. ServerReaches'
  <2>1. \A k \in Link : \/ serve'[k] = serve[k]
                        \/ serve[k] # "none" /\ serve[k] # "close"
                        \/ ~sealed \/ link'[k].closing
    BY <1>6
  <2> QED BY <1>1, <1>2, <1>10, <2>1, ServerReachesAges
<1>18. Quiescent'
  BY <1>1, <1>2 DEF Quiescent
<1> QED BY <1>4, <1>5, <1>7, <1>8, <1>9, <1>11, <1>12, <1>13, <1>14, <1>15, <1>16, <1>17, <1>18
        DEF OwnerInv

LEMMA NoneServes == ASSUME NEW l PROVE ServesAlone(l, {})
  BY DEF ServesAlone

\* What a connection that is served has, and that it stays served as it ages.
LEMMA ServedHas ==
  ASSUME OwnerInv, NEW l \in Link, serve[l] # "none", NEW S, Ages(S, {})
  PROVE  /\ ServeFits(l) /\ link[l].used /\ ~link[l].outbound
         /\ link'[l].used /\ ~link'[l].outbound /\ link'[l].installed = link[l].installed
         /\ link[l].closing => link'[l].closing
<1>1. LinkTypes /\ Sounds /\ ServeFits(l)
  BY DEF OwnerInv, Serving
<1>2. link[l].used /\ ~link[l].outbound
  BY <1>1 DEF ServeFits
<1> QED BY <1>1, <1>2, AgesMean

\* A stage that leaves ledger and election alone.
LEMMA ServesPlainly ==
  ASSUME OwnerInv, NEW l \in Link, NEW p, ServeGo(l, p),
         UNCHANGED <<ownVars, callVars, ledger, sealed, sealVars>>,
         handshakes' \in {handshakes, handshakes \ {l}}
  PROVE  Serves(l, p)
<1>1. /\ other' = other /\ toKill' = toKill /\ toClose' = toClose /\ ledger' = ledger
      /\ other \in [Link -> Link \cup {None}] /\ ledger \in Seq(Link)
      /\ \A k \in ToSet(ledger) : link[k].installed
  BY DEF sealVars, OwnerInv, ServeTypes, Targets
<1> QED BY <1>1 DEF Serves, ServeGo

LEMMA ServeHandshakeKeeps ==
  ASSUME OwnerConstants, OwnerInv, NEW l \in Link, ServeHandshake(l)
  PROVE  OwnerInv'
<1>1. /\ LinkTypes /\ Sounds /\ ServeTypes /\ serve[l] = "shake"
      /\ UNCHANGED <<byIdentity, byEndpoint, ownVars, callVars, ledger, sealed, sealVars>>
  BY DEF OwnerInv, ServeHandshake
<1>2. CASE ServeGo(l, "check") /\ UNCHANGED <<link, handshakes>>
  <2>1. Ages({}, {})
    BY <1>1, <1>2, StayAges DEF linkVars
  <2>2. Serves(l, "check")
    BY <1>1, <1>2, ServesPlainly
  <2>3. serve'[l] = "check" /\ "check" \in Stage
    BY <1>1, <1>2 DEF ServeGo, ServeTypes, Stage
  <2>4. ServeFits(l)'
    BY <1>1, <1>2, <2>1, <2>3, ServedHas DEF ServeFits, AtHand
  <2> QED BY <1>1, <2>1, <2>2, <2>3, <2>4, NoneServes, ServeMove
<1>3. CASE /\ link' = RequestClose(link, {l}) /\ handshakes' = handshakes \ {l}
           /\ ServeGo(l, "over")
  <2>1. Ages({}, {}) /\ link'[l].closing
    BY <1>1, <1>3, RequestCloseAges
  <2>2. Serves(l, "over")
    BY <1>1, <1>3, ServesPlainly
  <2>3. serve'[l] = "over" /\ "over" \in Stage
    BY <1>1, <1>3 DEF ServeGo, ServeTypes, Stage
  <2>4. ServeFits(l)'
    BY <1>1, <2>1, <2>3, ServedHas DEF ServeFits, AtHand
  <2> QED BY <1>1, <2>1, <2>2, <2>3, <2>4, NoneServes, ServeMove
<1> QED BY <1>2, <1>3 DEF ServeHandshake

LEMMA ServeCheckKeeps ==
  ASSUME OwnerConstants, OwnerInv, NEW l \in Link, ServeCheck(l)
  PROVE  OwnerInv'
<1>1. /\ LinkTypes /\ Sounds /\ ServeTypes /\ serve[l] = "check"
      /\ UNCHANGED <<linkVars, ownVars, callVars, ledger, sealed, sealVars>>
  BY DEF OwnerInv, ServeCheck
<1>2. Ages({}, {})
  BY <1>1, StayAges
<1>3. CASE sealed /\ handshakes' = handshakes \ {l} /\ ServeGo(l, "close")
  <2>1. Serves(l, "close")
    BY <1>1, <1>3, ServesPlainly
  <2>2. serve'[l] = "close" /\ "close" \in Stage
    BY <1>1, <1>3 DEF ServeGo, ServeTypes, Stage
  <2>3. ServeFits(l)'
    BY <1>1, <1>2, <1>3, <2>2, ServedHas DEF ServeFits, AtHand
  <2> QED BY <1>1, <1>2, <2>1, <2>2, <2>3, NoneServes, ServeMove
<1>4. CASE ~sealed /\ ServeGo(l, "install") /\ UNCHANGED handshakes
  <2>1. Serves(l, "install")
    BY <1>1, <1>4, ServesPlainly
  <2>2. serve'[l] = "install" /\ "install" \in Stage
    BY <1>1, <1>4 DEF ServeGo, ServeTypes, Stage
  <2>3. ServeFits(l)'
    BY <1>1, <1>2, <1>4, <2>2, ServedHas DEF ServeFits, AtHand
  <2> QED BY <1>1, <1>2, <2>1, <2>2, <2>3, NoneServes, ServeMove
<1> QED BY <1>3, <1>4 DEF ServeCheck

\* The tasks of an inbound link.
LEMMA ServeSpawnKeeps ==
  ASSUME OwnerConstants, OwnerInv, NEW l \in Link, ServeSpawn(l)
  PROVE  OwnerInv'
<1>1. /\ LinkTypes /\ Sounds /\ ServeTypes /\ serve[l] = "spawn" /\ Serving
      /\ UNCHANGED <<ownVars, callVars, ledger, handshakes, sealed, sealVars>>
  BY DEF OwnerInv, ServeSpawn
<1>2. PICK p \in {"enter", "drop", "spawn"} :
        /\ ServeGo(l, p)
        /\ \/ (CountConnection(l) \/ Submit(l)) /\ p = IF link[l].due = 1 THEN "enter" ELSE "spawn"
           \/ Unregistered(l) /\ p = "drop"
  <2>1. CASE /\ CountConnection(l) \/ Submit(l)
             /\ ServeGo(l, IF link[l].due = 1 THEN "enter" ELSE "spawn")
    BY <2>1
  <2>2. CASE Unregistered(l) /\ ServeGo(l, "drop")
    BY <2>2
  <2> QED BY <2>1, <2>2 DEF ServeSpawn
<1>3. link[l].installed /\ Unborn(link[l]) /\ l \in handshakes
  BY <1>1 DEF Serving, ServeFits, AtHand
<1>4. /\ Ages({l}, {})
      /\ p = "drop" => link'[l].closing
      /\ p = "spawn" => link'[l].due > 0
  <2>1. CASE (CountConnection(l) \/ Submit(l)) /\ p = IF link[l].due = 1 THEN "enter" ELSE "spawn"
    BY <1>1, <1>3, <2>1, StartAges
  <2>2. CASE Unregistered(l) /\ p = "drop"
    BY <1>1, <1>3, <2>2, UnregisteredAges
  <2> QED BY <1>2, <2>1, <2>2
<1>5. Serves(l, p)
  BY <1>1, <1>2, ServesPlainly
<1>6. serve'[l] = p /\ p \in Stage
  BY <1>1, <1>2 DEF ServeGo, ServeTypes, Stage
<1>7. ServesAlone(l, {l})
  <2>1. ASSUME NEW d \in Caller, Where(d) = "spawn" PROVE got[d] # l
    <3>1. Where(d) \in AtWork
      BY <2>1 DEF AtWork
    <3>2. got[d] = establishing[Key(d)].conn /\ serve[establishing[Key(d)].conn] = "none"
      BY <2>1, <3>1, WorkerHas
    <3> QED BY <1>1, <3>2
  <2> QED BY <2>1 DEF ServesAlone
<1>8. ServeFits(l)'
  <2>1. link'[l].used /\ ~link'[l].outbound /\ link'[l].installed
    BY <1>1, <1>3, <1>4, ServedHas
  <2>2. l \in handshakes'
    BY <1>1, <1>3
  <2>3. CASE p = "enter"
    BY <1>6, <2>1, <2>2, <2>3 DEF ServeFits
  <2>4. CASE p = "drop"
    BY <1>4, <1>6, <2>1, <2>2, <2>4 DEF ServeFits
  <2>5. CASE p = "spawn"
    BY <1>4, <1>6, <2>1, <2>2, <2>5 DEF ServeFits, Unborn
  <2> QED BY <1>2, <2>3, <2>4, <2>5
<1> QED BY <1>1, <1>4, <1>5, <1>6, <1>7, <1>8, ServeMove

\* InstallSession publishes an inbound link.
LEMMA ServeWinsKeeps ==
  ASSUME OwnerConstants, OwnerInv, NEW l \in Link, serve[l] = "install", ~InstallFails(l, FALSE),
         Wins(l), ServeGo(l, "spawn"), UNCHANGED callVars
  PROVE  OwnerInv'
<1>1. /\ LinkTypes /\ CallTypes /\ ServeTypes /\ Sounds /\ Registered /\ Targets /\ OneOpen
      /\ Workers /\ OneWorker /\ Dialled /\ Serving /\ OwnerReaches /\ ServerReaches /\ Quiescent
  BY DEF OwnerInv
<1>2. /\ closed' = closed /\ shut' = shut /\ ops' = ops /\ at' = at /\ got' = got
      /\ establishing' = establishing /\ ledger' = ledger /\ handshakes' = handshakes
      /\ sealed' = sealed /\ toKill' = toKill /\ toClose' = toClose
  BY DEF Wins, ownVars, callVars
<1>3. link[l].used /\ ~link[l].outbound /\ ~link[l].installed /\ l \in handshakes
  BY <1>1 DEF Serving, ServeFits, AtHand
<1>4. /\ LinkTypes' /\ Sounds' /\ link'[l].installed /\ Unborn(link'[l]) /\ link'[l].used
      /\ link'[l].outbound = link[l].outbound
      /\ other' \in [Link -> Link \cup {None}]
      /\ \A k \in Link : k # l => link'[k] = link[k] /\ other'[k] = other[k]
  BY <1>3, WinsLinks
<1>5. Targets' /\ OneOpen' /\ \A k \in Link : Reached(k) => Reached(k)'
  BY <1>3, WinsParts
<1>6. /\ serve' \in [Link -> Stage] /\ serve'[l] = "spawn"
      /\ \A k \in Link : k # l => serve'[k] = serve[k]
  BY <1>1 DEF ServeGo, ServeTypes, Stage
<1>7. CallTypes'
  BY <1>1, <1>2 DEF CallTypes
<1>8. ServeTypes'
  BY <1>1, <1>2, <1>4, <1>6 DEF ServeTypes
<1>9. Registered'
  <2>1. Reserved' = Reserved
    BY <1>2 DEF Reserved
  <2>2. Reserved' = IF Winner(l) = None /\ FALSE THEN Reserved \ {None} ELSE Reserved
    BY <2>1
  <2> QED BY <1>3, <2>2, WinsPlace
<1>10. Workers'
  <2>1. ASSUME NEW d \in Caller PROVE Worker(d)'
    <3> DEFINE w == Where(d)
               f == Key(d)
               k == establishing[f].conn
    <3>1. WorkerFits(w, f, got[d], establishing, link)
      BY <1>1 DEF Workers, Worker
    <3>2. Where(d)' = w /\ Key(d)' = f /\ got'[d] = got[d]
      BY <1>2 DEF Where, Key
    <3>3. w \in AtWork /\ k # None => link'[k] = link[k]
      <4>1. SUFFICES ASSUME w \in AtWork, k # None PROVE link'[k] = link[k]
        OBVIOUS
      <4>2. f \in Endpoint /\ establishing[f] \in Record
        BY <4>1, WorkerHas
      <4>3. k \in Link /\ link[k].outbound
        BY <1>1, <4>1, <4>2 DEF Dialled, Record
      <4> QED BY <1>3, <1>4, <4>3
    <3>4. {"dial", "shake", "install", "spawn", "made"} \subseteq AtWork
      BY DEF AtWork
    <3> HIDE DEF w, f
    <3>5. WorkerFits(w, f, got[d], establishing, link')
      BY <3>1, <3>3, <3>4, Zenon DEF WorkerFits
    <3> QED BY <1>2, <3>2, <3>5 DEF Worker
  <2> QED BY <2>1 DEF Workers
<1>11. OneWorker'
  BY <1>1, <1>2 DEF OneWorker, Where, Key
<1>12. ASSUME NEW k \in Link
       PROVE  /\ link'[k].outbound = link[k].outbound
              /\ link[k].installed => link'[k].installed
              /\ k # l => link'[k] = link[k]
  BY <1>3, <1>4
<1>13. Dialled'
  <2>1. ASSUME NEW e \in Endpoint, establishing'[e].conn # None
        PROVE  establishing'[e].open /\ link'[establishing'[e].conn].outbound
    <3>1. establishing[e].conn \in Link
      BY <1>1, <1>2, <2>1 DEF CallTypes, Record
    <3> QED BY <1>1, <1>2, <1>12, <2>1, <3>1 DEF Dialled
  <2>2. ASSUME NEW k \in Link, link'[k].outbound, ~link'[k].installed, ~link'[k].closing
        PROVE  \E e \in Endpoint : establishing'[e].conn = k
    <3>1. k # l
      BY <1>4, <2>2
    <3> QED BY <1>1, <1>2, <1>12, <2>2, <3>1 DEF Dialled
  <2>3. \A e, f \in Endpoint :
          establishing'[e].conn = establishing'[f].conn /\ establishing'[e].conn # None => e = f
    BY <1>1, <1>2 DEF Dialled
  <2> QED BY <2>1, <2>2, <2>3 DEF Dialled
<1>14. Serving'
  <2>1. ASSUME NEW k \in Link PROVE ServeFits(k)'
    <3>1. CASE k = l
      BY <1>2, <1>3, <1>4, <1>6, <3>1 DEF ServeFits
    <3>2. CASE k # l
      <4>1. ServeFits(k)
        BY <1>1 DEF Serving
      <4>2. link'[k] = link[k] /\ other'[k] = other[k] /\ serve'[k] = serve[k]
        BY <1>4, <1>6, <3>2
      <4> QED BY <1>2, <4>1, <4>2 DEF ServeFits
    <3> QED BY <3>1, <3>2
  <2> QED BY <2>1 DEF Serving
<1>15. OwnerReaches'
  BY <1>2 DEF OwnerReaches, InstallFails
<1>16. ServerReaches'
  <2>1. SUFFICES ASSUME sealed, NEW k \in Link, serve'[k] # "none"
                 PROVE  Reached(k)' \/ serve'[k] = "close"
    BY <1>2 DEF ServerReaches
  <2>2. serve[k] # "none" /\ (serve[k] = "close" => serve'[k] = "close")
    BY <1>6, <2>1
  <2> QED BY <1>1, <1>5, <2>1, <2>2 DEF ServerReaches
<1>17. Quiescent'
  BY <1>1, <1>2 DEF Quiescent
<1> QED BY <1>4, <1>5, <1>7, <1>8, <1>9, <1>10, <1>11, <1>13, <1>14, <1>15, <1>16, <1>17
        DEF OwnerInv

LEMMA ServeInstallKeeps ==
  ASSUME OwnerConstants, OwnerInv, NEW l \in Link, ServeInstall(l)
  PROVE  OwnerInv'
<1> DEFINE old == Winner(l)
<1>1. /\ LinkTypes /\ Sounds /\ ServeTypes /\ Registered /\ serve[l] = "install" /\ Targets
      /\ Serving /\ UNCHANGED <<ownVars, callVars, ledger, handshakes, sealed, toKill, toClose>>
  BY DEF OwnerInv, ServeInstall
<1>2. link[l].used /\ ~link[l].outbound /\ ~link[l].installed /\ l \in handshakes
  BY <1>1 DEF Serving, ServeFits, AtHand
<1>3. CASE /\ ServeGo(l, "drop") /\ link' = RequestClose(link, {l})
           /\ UNCHANGED <<byIdentity, byEndpoint, other>>
  <2>1. Ages({}, {}) /\ link'[l].closing
    BY <1>1, <1>3, RequestCloseAges
  <2>2. Serves(l, "drop")
    BY <1>1, <1>3, ServesPlainly DEF sealVars
  <2>3. serve'[l] = "drop" /\ "drop" \in Stage
    BY <1>1, <1>3 DEF ServeGo, ServeTypes, Stage
  <2>4. ServeFits(l)'
    BY <1>1, <1>2, <2>1, <2>3, ServedHas DEF ServeFits
  <2> QED BY <1>1, <2>1, <2>2, <2>3, <2>4, NoneServes, ServeMove
<1>4. CASE /\ InstallLoses(l) /\ ServeGo(l, "enter") /\ other' = [other EXCEPT ![l] = old]
           /\ link' = [link EXCEPT ![l].dead = TRUE, ![l].closing = TRUE]
           /\ UNCHANGED <<byIdentity, byEndpoint>>
  <2>1. old \in Link /\ link[old].installed /\ old # None
    <3>1. link[l].peer \in Peer
      BY <1>1, <1>2 DEF Sounds, Sound
    <3> QED BY <1>1, <1>4, <3>1 DEF InstallLoses, Winner, LinkTypes, Registered
  <2> HIDE DEF old
  <2>2. Ages({}, {}) /\ link'[l].closing
    BY <1>1, <1>2, <1>4, LoserAges DEF LinkTypes
  <2>3. /\ other' \in [Link -> Link \cup {None}] /\ other'[l] = old
        /\ \A k \in Link : k # l => other'[k] = other[k]
    BY <1>1, <1>4, <2>1 DEF ServeTypes
  <2>4. Serves(l, "enter")
    <3>1. ledger' = ledger /\ ledger \in Seq(Link) /\ \A k \in ToSet(ledger) : link[k].installed
      BY <1>1 DEF ServeTypes, Targets
    <3> QED BY <1>1, <1>2, <1>4, <2>1, <2>3, <3>1 DEF Serves, ServeGo
  <2>5. serve'[l] = "enter" /\ "enter" \in Stage
    BY <1>1, <1>4 DEF ServeGo, ServeTypes, Stage
  <2>6. ServeFits(l)'
    BY <1>1, <1>2, <2>1, <2>2, <2>3, <2>5, ServedHas DEF ServeFits
  <2> QED BY <1>1, <2>2, <2>4, <2>5, <2>6, NoneServes, ServeMove
<1>5. CASE /\ ~InstallFails(l, FALSE) /\ ServeGo(l, "spawn")
           /\ Publish(l) /\ TakeOver(l, None) /\ other' = [other EXCEPT ![l] = old]
  <2>1. byEndpoint' \in [Endpoint -> Link \cup {None}]
    <3>1. byEndpoint' = [x \in Endpoint |->
                   IF x = None \/ (Winner(l) # None /\ byEndpoint[x] = Winner(l)) THEN l
                   ELSE byEndpoint[x]]
      BY <1>5 DEF TakeOver
    <3> QED BY <1>1, <3>1 DEF LinkTypes
  <2>2. ops' = ops
    BY <1>1 DEF callVars
  <2>3. Wins(l)
    BY <1>1, <1>5, <2>1, <2>2 DEF Wins
  <2> QED BY <1>1, <1>5, <2>3, ServeWinsKeeps
<1> QED BY <1>3, <1>4, <1>5, Zenon DEF ServeInstall

\* What Install returned enters the ledger, and whoever nobody holds any more leaves it.
LEMMA ServeEndsKeeps ==
  ASSUME OwnerConstants, OwnerInv, NEW l \in Link, ServeEnds(l)
  PROVE  OwnerInv'
<1>1. /\ LinkTypes /\ Sounds /\ ServeTypes /\ Targets /\ Serving
      /\ UNCHANGED <<byIdentity, byEndpoint, ownVars, callVars, sealed, sealVars>>
  BY DEF OwnerInv, ServeEnds
<1>2. "over" \in Stage
  BY DEF Stage
<1>3. CASE /\ serve[l] = "enter" /\ handshakes' = handshakes \ {l} /\ ServeGo(l, "over")
           /\ ledger' = Without(Append(ledger, IF link[l].installed THEN l ELSE other[l]),
                                { x \in Link : Expired(x) })
           /\ UNCHANGED link
  <2> DEFINE new == IF link[l].installed THEN l ELSE other[l]
             X == { x \in Link : Expired(x) }
  <2>1. Ages({}, {})
    BY <1>1, <1>3, StayAges DEF linkVars
  <2>2. /\ new \in Link /\ link[new].installed
        /\ link[l].installed => new = l
        /\ ~link[l].installed => link[l].closing
    BY <1>1, <1>3 DEF Serving, ServeFits, Targets, ServeTypes
  <2>3. \A x \in X : x \in Link /\ link[x].closing
    BY <1>1 DEF Expired, Sounds, Sound
  <2>4. ledger' = Without(Append(ledger, new), X) /\ ledger \in Seq(Link)
    BY <1>1, <1>3 DEF ServeTypes
  <2> HIDE DEF new, X
  <2>5. /\ Append(ledger, new) \in Seq(Link)
        /\ ToSet(Append(ledger, new)) = ToSet(ledger) \cup {new}
    BY <2>2, <2>4, AppendToSet
  <2>6. ledger' \in Seq(Link) /\ ToSet(ledger') = (ToSet(ledger) \cup {new}) \ X
    <3> DEFINE entered == Append(ledger, new)
    <3>1. entered \in Seq(Link) /\ ToSet(entered) = ToSet(ledger) \cup {new}
          /\ ledger' = Without(entered, X)
      BY <2>4, <2>5
    <3> HIDE DEF entered
    <3>2. Without(entered, X) \in Seq(Link) /\ ToSet(Without(entered, X)) = ToSet(entered) \ X
      BY <3>1, WithoutProperties
    <3> QED BY <3>1, <3>2
  <2>7. Serves(l, "over")
    <3>1. /\ other' = other /\ toKill' = toKill /\ toClose' = toClose
          /\ other \in [Link -> Link \cup {None}]
      BY <1>1 DEF sealVars, ServeTypes
    <3>2. \A k \in ToSet(ledger') : link[k].installed
      BY <1>1, <2>2, <2>6 DEF Targets
    <3>3. \A k \in ToSet(ledger) : k # l => k \in ToSet(ledger') \/ link'[k].closing
      BY <1>3, <2>3, <2>6
    <3> QED BY <1>1, <1>3, <2>6, <3>1, <3>2, <3>3 DEF Serves, ServeGo
  <2>8. serve'[l] = "over"
    BY <1>1, <1>3 DEF ServeGo, ServeTypes
  <2>9. link'[l].closing \/ l \in ToSet(ledger')
    BY <1>3, <2>2, <2>3, <2>6
  <2>10. ServeFits(l)'
    BY <1>3, <2>1, <2>8, <2>9, ServedHas DEF ServeFits, AtHand
  <2> QED BY <1>2, <1>3, <2>1, <2>7, <2>10, NoneServes, ServeMove
<1>4. CASE /\ serve[l] = "close" /\ link' = RequestClose(link, {l}) /\ ServeGo(l, "over")
           /\ UNCHANGED <<ledger, handshakes>>
  <2>1. Ages({}, {}) /\ link'[l].closing
    BY <1>1, <1>4, RequestCloseAges
  <2>2. Serves(l, "over")
    BY <1>1, <1>4, ServesPlainly
  <2>3. serve'[l] = "over"
    BY <1>1, <1>4 DEF ServeGo, ServeTypes
  <2>4. ServeFits(l)'
    BY <1>4, <2>1, <2>3, ServedHas DEF ServeFits, AtHand
  <2> QED BY <1>2, <1>4, <2>1, <2>2, <2>4, NoneServes, ServeMove
<1>5. CASE /\ serve[l] = "drop" /\ handshakes' = handshakes \ {l} /\ ServeGo(l, "over")
           /\ UNCHANGED <<link, ledger>>
  <2>1. Ages({}, {})
    BY <1>1, <1>5, StayAges DEF linkVars
  <2>2. Serves(l, "over")
    BY <1>1, <1>5, ServesPlainly
  <2>3. serve'[l] = "over" /\ link'[l].closing
    BY <1>1, <1>5 DEF ServeGo, ServeTypes, Serving, ServeFits
  <2>4. ServeFits(l)'
    BY <1>5, <2>1, <2>3, ServedHas DEF ServeFits, AtHand
  <2> QED BY <1>2, <1>5, <2>1, <2>2, <2>4, NoneServes, ServeMove
<1> QED BY <1>3, <1>4, <1>5 DEF ServeEnds

LEMMA AcceptKeeps ==
  ASSUME OwnerConstants, OwnerInv, NEW l \in Link, NEW p \in Peer, Accept(l, p)
  PROVE  OwnerInv'
<1>1. /\ LinkTypes /\ CallTypes /\ ServeTypes /\ Sounds /\ Registered /\ Targets /\ OneOpen
      /\ Workers /\ OneWorker /\ Dialled /\ Serving /\ OwnerReaches /\ ServerReaches /\ Quiescent
  BY DEF OwnerInv
<1>2. /\ ~link[l].used /\ ~sealed /\ handshakes' = handshakes \cup {l} /\ ServeGo(l, "shake")
      /\ link' = [link EXCEPT ![l].used = TRUE, ![l].peer = p]
      /\ UNCHANGED <<byIdentity, byEndpoint, ownVars, callVars, ledger, sealed, sealVars>>
  BY DEF Accept
<1>3. /\ closed' = closed /\ shut' = shut /\ ops' = ops /\ at' = at /\ got' = got
      /\ establishing' = establishing /\ ledger' = ledger /\ sealed' = sealed
      /\ other' = other /\ toKill' = toKill /\ toClose' = toClose
  BY <1>2 DEF ownVars, callVars, sealVars
<1>4. Ages({}, {l}) /\ ~link'[l].outbound /\ ~link'[l].installed /\ link'[l].used
      /\ \A k \in Link : k # l => link'[k] = link[k]
  <2> DEFINE r == link[l]
             q == [r EXCEPT !.used = TRUE, !.peer = p]
  <2>1. r \in LinkState /\ Sound(r) /\ ~r.used /\ link \in [Link -> LinkState]
    BY <1>1, <1>2 DEF LinkTypes, Sounds
  <2>2. ~r.installed /\ ~r.outbound
    BY <2>1 DEF Sound
  <2>3. link' = [link EXCEPT ![l] = q]
    BY <1>2, <2>1
  <2> HIDE DEF r
  <2>4. /\ q \in LinkState /\ q.used /\ q.outbound = r.outbound /\ q.installed = r.installed
        /\ q.dead = r.dead /\ q.quota = r.quota
        /\ q.released = r.released /\ q.resp = r.resp /\ q.tasks = r.tasks /\ q.due = r.due /\ q.peer = p
    BY <2>1 DEF LinkState
  <2> HIDE DEF q
  <2>5. link'[l] = q /\ \A k \in Link : k # l => link'[k] = link[k]
    BY <2>1, <2>3
  <2>6. /\ q.used /\ q.peer \in Peer /\ q.installed = link[l].installed /\ q.quota = link[l].quota
        /\ q.dead = link[l].dead /\ q.released = link[l].released
        /\ q.resp = link[l].resp /\ q.tasks = link[l].tasks /\ q.due = link[l].due
    BY <2>4 DEF r
  <2>7. Ages({}, {l})
    BY <1>1, <1>2, <2>3, <2>4, <2>6, OpenAges
  <2> QED BY <2>2, <2>4, <2>5, <2>7
<1>5. LinkTypes' /\ Sounds'
  BY <1>4, LinkTypesAge
<1>6. CallTypes'
  BY <1>1, <1>3 DEF CallTypes
<1>7. /\ serve' \in [Link -> Stage] /\ serve'[l] = "shake"
      /\ \A k \in Link : k # l => serve'[k] = serve[k]
  BY <1>1, <1>2 DEF ServeGo, ServeTypes, Stage
<1>8. ServeTypes'
  BY <1>1, <1>2, <1>3, <1>7 DEF ServeTypes
<1>9. Registered'
  <2>1. Reserved' \subseteq Reserved
    BY <1>3 DEF Reserved
  <2> QED BY <1>1, <1>4, <2>1, RegisteredAges
<1>10. Targets'
  <2>1. ASSUME NEW k \in toKill' \cup ToSet(ledger') PROVE k \in Link /\ link[k].installed
    <3>1. ToSet(ledger) \subseteq Link
      BY <1>1 DEF ServeTypes, ToSet
    <3> QED BY <1>1, <1>3, <3>1 DEF Targets, ServeTypes
  <2>2. ASSUME NEW k \in Link, other'[k] # None
        PROVE other'[k] \in Link /\ link[other'[k]].installed
    BY <1>1, <1>3, <2>2 DEF Targets, ServeTypes
  <2> QED BY <1>1, <1>4, <2>1, <2>2, TargetsAge
<1>11. Kept
  BY <1>1, <1>3, <1>4, KeptAll
<1>12. OneOpen'
  BY <1>1, <1>4, <1>11, OneOpenAges
<1>13. Workers'
  <2>1. ASSUME NEW c \in Caller PROVE Worker(c)'
    <3>1. Worker(c)
      BY <1>1 DEF Workers
    <3>2. Where(c) \in AtWork \cup {"wait"} => establishing'[Key(c)].open
      BY <1>3, <3>1 DEF Worker, WorkerFits
    <3> QED BY <1>1, <1>3, <1>4, <3>1, <3>2, WorkerStays
  <2> QED BY <2>1 DEF Workers
<1>14. OneWorker'
  BY <1>1, <1>3 DEF OneWorker, Where, Key
<1>15. Dialled'
  BY <1>1, <1>3, <1>4, DialledAges
<1>16. Serving'
  <2>1. ASSUME NEW k \in Link PROVE ServeFits(k)'
    <3>1. CASE k = l
      BY <1>2, <1>4, <1>7, <3>1 DEF ServeFits
    <3>2. CASE k # l
      <4>1. ServeFits(k)
        BY <1>1 DEF Serving
      <4>2. link'[k] = link[k] /\ serve'[k] = serve[k] /\ (k \in handshakes' <=> k \in handshakes)
        BY <1>2, <1>4, <1>7, <3>2
      <4> QED BY <1>3, <4>1, <4>2 DEF ServeFits
    <3> QED BY <3>1, <3>2
  <2> QED BY <2>1 DEF Serving
<1>17. OwnerReaches'
  <2>1. \A k \in {l} \cap Link : link'[k].outbound /\ closed => link'[k].closing
    BY <1>4
  <2> QED BY <1>1, <1>3, <1>4, <1>11, <2>1, OwnerReachesAges
<1>18. ServerReaches'
  BY <1>2, <1>3 DEF ServerReaches
<1>19. Quiescent'
  BY <1>1, <1>3 DEF Quiescent
<1> QED BY <1>5, <1>6, <1>8, <1>9, <1>10, <1>12, <1>13, <1>14, <1>15, <1>16, <1>17, <1>18, <1>19
        DEF OwnerInv

LEMMA ServeStepKeeps ==
  ASSUME OwnerConstants, OwnerInv, NEW l \in Link, ServeStep(l)
  PROVE  OwnerInv'
BY ServeHandshakeKeeps, ServeCheckKeeps, ServeInstallKeeps, ServeSpawnKeeps, ServeEndsKeeps, Zenon
   DEF ServeStep

-----------------------------------------------------------------------------
(***************************************************************************)
(* Sealing the owner and the server.                                       *)
(***************************************************************************)

\* A Seal adds to what is to be killed and closed.
LEMMA SealReached ==
  ASSUME UNCHANGED <<link, other>>, toKill \subseteq toKill', toClose \subseteq toClose'
  PROVE  \A l \in Link : Reached(l) => Reached(l)'
BY DEF Reached, Doomed

LEMMA SealStep ==
  ASSUME OwnerConstants, OwnerInv, UNCHANGED <<linkVars, callVars, ledger, handshakes, serve, other>>,
         toKill \subseteq toKill', toClose \subseteq toClose',
         toKill' \subseteq Link, toClose' \subseteq Link, \A l \in toKill' : link[l].installed,
         closed' \in BOOLEAN, sealed' \in BOOLEAN, shut' \in {"no", "waiting", "ok"},
         sealed => sealed', OwnerReaches', ServerReaches', Quiescent'
  PROVE  OwnerInv'
<1>1. /\ LinkTypes /\ CallTypes /\ ServeTypes /\ Sounds /\ Registered /\ Targets /\ OneOpen
      /\ Workers /\ OneWorker /\ Dialled /\ Serving
  BY DEF OwnerInv
<1>2. /\ ops' = ops /\ at' = at /\ got' = got /\ establishing' = establishing
      /\ link' = link /\ byIdentity' = byIdentity /\ byEndpoint' = byEndpoint
  BY DEF linkVars, callVars
<1>3. Ages({}, {})
  BY <1>1, StayAges
<1>4. LinkTypes' /\ Sounds' /\ CallTypes' /\ ServeTypes'
  BY <1>1, <1>2 DEF LinkTypes, Sounds, CallTypes, ServeTypes
<1>5. Registered'
  BY <1>1, <1>2 DEF Registered, InRegistry, Reserved
<1>6. Targets'
  BY <1>1, <1>2 DEF Targets
<1>7. OneOpen'
  BY <1>1, <1>2 DEF OneOpen, Doomed
<1>8. Workers'
  <2>1. ASSUME NEW c \in Caller PROVE Worker(c)'
    <3>1. Worker(c)
      BY <1>1 DEF Workers
    <3>2. Where(c) \in AtWork \cup {"wait"} => establishing'[Key(c)].open
      BY <1>2, <3>1 DEF Worker, WorkerFits
    <3> QED BY <1>1, <1>2, <1>3, <3>1, <3>2, WorkerStays
  <2> QED BY <2>1 DEF Workers
<1>9. OneWorker'
  BY <1>1, <1>2 DEF OneWorker, Where, Key
<1>10. Dialled'
  BY <1>1, <1>2 DEF Dialled
<1>11. Serving'
  <2>1. ASSUME NEW k \in Link PROVE ServeFits(k)'
    <3>1. ServeFits(k)
      BY <1>1 DEF Serving
    <3> QED BY <1>1, <1>3, <3>1, ServeStays
  <2> QED BY <2>1 DEF Serving
<1> QED BY <1>4, <1>5, <1>6, <1>7, <1>8, <1>9, <1>10, <1>11 DEF OwnerInv

LEMMA ServerSealKeeps ==
  ASSUME OwnerConstants, OwnerInv, ServerSeal
  PROVE  OwnerInv'
<1>1. /\ ServeTypes /\ Targets /\ Serving /\ OwnerReaches /\ Quiescent
  BY DEF OwnerInv
<1>2. /\ sealed' = TRUE
      /\ toKill' = toKill \cup ToSet(ledger) /\ toClose' = toClose \cup handshakes
      /\ UNCHANGED <<linkVars, ownVars, callVars, ledger, handshakes, serve, other>>
  BY DEF ServerSeal
<1>3. /\ link' = link /\ closed' = closed /\ shut' = shut /\ ops' = ops
      /\ other' = other /\ serve' = serve
  BY <1>2 DEF linkVars, ownVars, callVars
<1>4. ToSet(ledger) \subseteq Link
  BY <1>1 DEF ServeTypes, ToSet
<1>5. \A l \in Link : Reached(l) => Reached(l)'
  BY <1>2, <1>3, SealReached
<1>6. OwnerReaches'
  BY <1>1, <1>3, <1>5 DEF OwnerReaches
<1>7. ServerReaches'
  <2>1. ASSUME NEW l \in Link, serve[l] # "none", serve[l] # "close" PROVE Reached(l)'
    <3>1. serve[l] \in AtHand \/ serve[l] = "over"
      BY <1>1, <2>1 DEF ServeTypes, Stage, AtHand
    <3>2. l \in handshakes \/ link[l].closing \/ l \in ToSet(ledger)
      BY <1>1, <3>1 DEF Serving, ServeFits
    <3> QED BY <1>2, <1>3, <3>2 DEF Reached, Doomed
  <2> QED BY <1>3, <2>1 DEF ServerReaches
<1>8. Quiescent'
  BY <1>1, <1>3 DEF Quiescent
<1>9. toKill' \subseteq Link /\ toClose' \subseteq Link /\ \A l \in toKill' : link[l].installed
  BY <1>1, <1>2, <1>4 DEF ServeTypes, Targets
<1> QED BY <1>1, <1>2, <1>3, <1>6, <1>7, <1>8, <1>9, SealStep DEF ServeTypes

LEMMA OwnerSealKeeps ==
  ASSUME OwnerConstants, OwnerInv, OwnerSeal
  PROVE  OwnerInv'
<1>1. /\ LinkTypes /\ CallTypes /\ ServeTypes /\ Sounds /\ Registered /\ Targets /\ OneOpen
      /\ Dialled /\ ServerReaches /\ Quiescent
  BY DEF OwnerInv
<1> DEFINE K == { byIdentity[p] : p \in Peer } \ {None}
           C == { establishing[e].conn : e \in Endpoint } \ {None}
<1>2. /\ closed' = TRUE /\ toKill' = toKill \cup K /\ toClose' = toClose \cup C
      /\ UNCHANGED <<linkVars, shut, callVars, srvVars, other>>
  BY DEF OwnerSeal
<1>3. /\ link' = link /\ shut' = shut /\ ops' = ops /\ sealed' = sealed
      /\ other' = other /\ serve' = serve /\ ledger' = ledger /\ handshakes' = handshakes
  BY <1>2 DEF linkVars, callVars, srvVars
<1>4. K \subseteq Link /\ \A l \in K : link[l].installed
  BY <1>1 DEF LinkTypes, Registered
<1>5. C \subseteq Link
  BY <1>1 DEF CallTypes, Record
<1>6. \A l \in Link : Reached(l) => Reached(l)'
  BY <1>2, <1>3, SealReached
<1>7. OwnerReaches'
  <2>1. ASSUME NEW l \in Link, link[l].outbound \/ link[l].installed, ~link[l].closing
        PROVE  Reached(l)'
    <3>1. CASE link[l].installed
      <4>1. link[l].peer \in Peer
        BY <1>1, <3>1 DEF Sounds, Sound
      <4>2. byIdentity[link[l].peer] = l \/ Doomed(l)
        BY <1>1, <2>1, <3>1 DEF OneOpen
      <4>3. CASE byIdentity[link[l].peer] = l
        <5>1. l # None
          BY DEF OwnerConstants
        <5> QED BY <1>2, <4>1, <4>3, <5>1 DEF Reached, Doomed
      <4>4. CASE Doomed(l)
        BY <1>6, <4>4 DEF Reached
      <4> QED BY <4>2, <4>3, <4>4
    <3>2. CASE ~link[l].installed
      <4>1. PICK e \in Endpoint : establishing[e].conn = l
        BY <1>1, <2>1, <3>2 DEF Dialled
      <4>2. l \in C
        BY <4>1 DEF OwnerConstants
      <4> QED BY <1>2, <4>2 DEF Reached
    <3> QED BY <3>1, <3>2
  <2>2. ASSUME NEW l \in Link, link[l].closing PROVE Reached(l)'
    BY <1>3, <2>2 DEF Reached
  <2> QED BY <1>3, <2>1, <2>2 DEF OwnerReaches
<1>8. ServerReaches'
  BY <1>1, <1>3, <1>6 DEF ServerReaches
<1>9. Quiescent'
  BY <1>1, <1>3 DEF Quiescent
<1>10. toKill' \subseteq Link /\ toClose' \subseteq Link /\ \A l \in toKill' : link[l].installed
  BY <1>1, <1>2, <1>4, <1>5 DEF ServeTypes, Targets
<1> QED BY <1>1, <1>2, <1>3, <1>7, <1>8, <1>9, <1>10, SealStep DEF ServeTypes

LEMMA OwnerShutdownKeeps ==
  ASSUME OwnerConstants, OwnerInv, OwnerShutdown
  PROVE  OwnerInv'
<1>1. ServeTypes /\ Targets /\ OwnerReaches /\ ServerReaches
  BY DEF OwnerInv
<1>2. /\ UNCHANGED <<linkVars, closed, callVars, srvVars, sealVars>>
      /\ shut' \in {"waiting", "ok"} /\ (shut' = "ok" => ops = {})
  BY DEF OwnerShutdown
<1>3. /\ link' = link /\ closed' = closed /\ ops' = ops /\ sealed' = sealed /\ ledger' = ledger
      /\ handshakes' = handshakes /\ other' = other /\ serve' = serve
      /\ toKill' = toKill /\ toClose' = toClose
  BY <1>2 DEF linkVars, callVars, srvVars, sealVars
<1>4. \A l \in Link : Reached(l) => Reached(l)'
  BY <1>3, SealReached
<1>5. OwnerReaches' /\ ServerReaches'
  BY <1>1, <1>3, <1>4 DEF OwnerReaches, ServerReaches
<1>6. Quiescent'
  BY <1>2, <1>3 DEF Quiescent
<1>7. toKill' \subseteq Link /\ toClose' \subseteq Link /\ \A l \in toKill' : link[l].installed
  BY <1>1, <1>3 DEF ServeTypes, Targets
<1> QED BY <1>1, <1>2, <1>3, <1>5, <1>6, <1>7, SealStep DEF ServeTypes

-----------------------------------------------------------------------------
(***************************************************************************)
(* The owner: the theorems.                                                *)
(***************************************************************************)

LEMMA OwnerStarts ==
  ASSUME OwnerConstants, Init PROVE OwnerInv
<1>1. /\ link = [l \in Link |-> NewLink]
      /\ byIdentity = [p \in Peer |-> None] /\ byEndpoint = [e \in Endpoint |-> None]
      /\ establishing = [e \in Endpoint |-> NoRecord]
      /\ closed = FALSE /\ shut = "no" /\ ops = {}
      /\ at = [c \in Caller |-> <<"idle", None>>] /\ got = [c \in Caller |-> None]
      /\ ledger = <<>> /\ handshakes = {} /\ sealed = FALSE
      /\ serve = [l \in Link |-> "none"]
      /\ other = [l \in Link |-> None] /\ toKill = {} /\ toClose = {}
  BY DEF Init
<1>2. \A l \in Link : link[l] = NewLink /\ serve[l] = "none" /\ other[l] = None
  BY <1>1
<1>3. /\ NewLink \in LinkState /\ Sound(NewLink) /\ ~NewLink.outbound /\ ~NewLink.installed
  BY DEF NewLink, LinkState, Sound
<1>4. NoRecord \in Record /\ ~NoRecord.open /\ ~NoRecord.reserved /\ NoRecord.conn = None
  BY DEF NoRecord, Record
<1>5. \A c \in Caller : Where(c) = "idle" /\ Key(c) = None
  BY <1>1 DEF Where, Key
<1>6. \A e \in Endpoint : establishing[e] = NoRecord
  BY <1>1
<1>7. LinkTypes /\ Sounds
  BY <1>1, <1>2, <1>3 DEF LinkTypes, Sounds
<1>8. CallTypes
  BY <1>1, <1>4 DEF CallTypes, Place
<1>9. ServeTypes
  <2>1. serve \in [Link -> Stage]
    BY <1>1 DEF Stage
  <2>2. other \in [Link -> Link \cup {None}]
    BY <1>1
  <2>3. ledger \in Seq(Link)
    BY <1>1
  <2>4. handshakes \subseteq Link /\ toKill \subseteq Link /\ toClose \subseteq Link
    BY <1>1
  <2> QED BY <1>1, <2>1, <2>2, <2>3, <2>4, Zenon DEF ServeTypes
<1>10. Registered
  <2>1. InRegistry = {} /\ Reserved = {}
    BY <1>1, <1>4, <1>6 DEF InRegistry, Reserved
  <2>2. Cardinality(InRegistry) = 0 /\ Cardinality(Reserved) = 0
    BY <2>1, FS_EmptySet
  <2>3. IsFiniteSet(InRegistry) /\ IsFiniteSet(Reserved)
    BY <2>1, FS_EmptySet
  <2>4. Cardinality(InRegistry) + Cardinality(Reserved) <= MaxSessions
    BY <2>2 DEF OwnerConstants
  <2> QED BY <1>1, <2>3, <2>4 DEF Registered
<1>11. Targets
  <2>1. ToSet(ledger) = {}
    BY <1>1 DEF ToSet
  <2> QED BY <1>1, <1>2, <2>1 DEF Targets
<1>12. OneOpen
  BY <1>2, <1>3 DEF OneOpen
<1>13. Workers
  BY <1>5, Elsewhere DEF Workers, Worker
<1>14. OneWorker
  BY <1>4, <1>5, <1>6 DEF OneWorker, AtWork
<1>15. Dialled
  BY <1>2, <1>3, <1>4, <1>6 DEF Dialled
<1>16. Serving
  BY <1>2 DEF Serving, ServeFits, AtHand
<1>17. OwnerReaches /\ ServerReaches /\ Quiescent
  BY <1>1 DEF OwnerReaches, ServerReaches, Quiescent
<1> QED BY <1>7, <1>8, <1>9, <1>10, <1>11, <1>12, <1>13, <1>14, <1>15, <1>16, <1>17 DEF OwnerInv

LEMMA OwnerNext ==
  ASSUME OwnerConstants, OwnerInv, [Next]_vars PROVE OwnerInv'
<1>1. ASSUME NEW c \in Caller, CallStep(c) \/ AwaitExpires(c) PROVE OwnerInv'
  BY <1>1, CallStepKeeps, AwaitKeeps
<1>2. ASSUME NEW c \in Caller, NEW e \in Endpoint, BeginOperation(c, e) PROVE OwnerInv'
  BY <1>2, BeginOperationKeeps
<1>3. ASSUME NEW l \in Link, ServeStep(l) \/ LinkStep(l) \/ Breaks(l) PROVE OwnerInv'
  BY <1>3, ServeStepKeeps, LinkStepKeeps, BreaksKeeps
<1>4. ASSUME NEW l \in Link, NEW p \in Peer, Accept(l, p) PROVE OwnerInv'
  BY <1>4, AcceptKeeps
<1>5. CASE ServerSeal \/ OwnerSeal \/ OwnerShutdown \/ SweepRelease
  BY <1>5, ServerSealKeeps, OwnerSealKeeps, OwnerShutdownKeeps, SweepReleaseKeeps
<1>6. CASE UNCHANGED vars
  <2>1. UNCHANGED <<linkVars, ownVars, callVars, srvVars, sealVars>>
    BY <1>6 DEF vars
  <2>2. other' = other /\ toKill' = toKill /\ toClose' = toClose /\ link' = link
    BY <2>1 DEF sealVars, linkVars
  <2>3. LinkTypes /\ Sounds /\ ServeTypes
    BY DEF OwnerInv
  <2>4. Ages({}, {})
    BY <2>1, <2>3, StayAges
  <2>5. Kept
    BY <2>2 DEF Kept, Doomed
  <2> QED BY <2>1, <2>2, <2>3, <2>4, <2>5, AgeStep DEF ServeTypes
<1> QED BY <1>1, <1>2, <1>3, <1>4, <1>5, <1>6, Zenon DEF Next

LEMMA OwnerProperties ==
  ASSUME OwnerConstants, OwnerInv PROVE OwnerBounded /\ OwnerSettles
<1>1. /\ LinkTypes /\ CallTypes /\ ServeTypes /\ Registered /\ OneOpen
      /\ Workers /\ OneWorker /\ OwnerReaches /\ ServerReaches /\ Quiescent
  BY DEF OwnerInv
<1>2. TypeOK
  <2>1. \A l \in Link : link[l].resp \in -1 .. 3 /\ link[l].tasks \in 0 .. 2 /\ link[l].due \in 0 .. 3
    BY <1>1 DEF LinkTypes, LinkState
  <2> QED BY <1>1, <2>1 DEF TypeOK, LinkTypes, CallTypes, ServeTypes
<1>3. Occupied <= MaxSessions
  BY <1>1 DEF Registered, InRegistry, Reserved, Occupied
<1>4. OwnerBounded
  BY <1>1, <1>2, <1>3 DEF OwnerBounded, OneOpen
<1>5. SealReachesAll
  BY <1>1 DEF SealReachesAll, OwnerReaches, ServerReaches, Quiescent, Reached
<1>6. RecordsDecided
  <2>1. \A c \in Caller : Where(c) = "wait" => establishing[Key(c)].open
    BY <1>1 DEF Workers, Worker, WorkerFits
  <2>2. \A e \in Endpoint : establishing[e].open =>
          \E c \in Caller : Key(c) = e /\ Where(c) \in AtWork
    BY <1>1 DEF OneWorker
  <2> QED BY <2>1, <2>2 DEF RecordsDecided, AtWork
<1> QED BY <1>4, <1>5, <1>6 DEF OwnerSettles

\* The inductive invariant holds for every number of callers, endpoints, peers and links.
THEOREM OwnerAlways == ASSUME OwnerConstants PROVE Spec => []OwnerInv
<1>1. Init => OwnerInv
  BY OwnerStarts
<1>2. OwnerInv /\ [Next]_vars => OwnerInv'
  BY OwnerNext
<1> QED BY <1>1, <1>2, PTL DEF Spec

\* InstallSession and GetSession: links and dials stay within max_sessions, and two links to
\* one peer are never both left open.
THEOREM OwnerKeepsBounds == ASSUME OwnerConstants PROVE Spec => []OwnerBounded
<1>1. OwnerInv => OwnerBounded
  BY OwnerProperties
<1> QED BY <1>1, OwnerAlways, PTL

\* Seal and FinishEstablishing: sealing reaches every connection, and neither a waiter nor a
\* reserved place is left behind.
THEOREM OwnerSettlesRightly == ASSUME OwnerConstants PROVE Spec => []OwnerSettles
<1>1. OwnerInv => OwnerSettles
  BY OwnerProperties
<1> QED BY <1>1, OwnerAlways, PTL

-----------------------------------------------------------------------------
(***************************************************************************)
(* The admission of requests: the invariant.                               *)
(***************************************************************************)

RequestPlace == {"wire", "unserved", "counted", "queued", "handler", "replying", "framework", "over"}

AdmissionTypeOK ==
  /\ place \in [Request -> RequestPlace]
  /\ terminal \in [Request -> BOOLEAN]
  /\ answers \in [Request -> Nat]
  /\ lease \in [Request -> {"none", "held", "released"}]
  /\ inflight \in Int
  /\ queue \in Seq(Request)
  /\ queueClosed \in BOOLEAN
  /\ drain \in {"no", "waiting", "ok"}

Held == { r \in Request : lease[r] = "held" }

\* The counter and its limit.
CounterExact == inflight = Cardinality(Held) /\ inflight <= MaxInflight

\* A request has its lease from the reader to the end of the handling; only the
\* framework may give it back earlier.
LeaseOf(r) ==
  /\ place[r] = "wire" => lease[r] = "none"
  /\ place[r] \in {"counted", "queued", "handler", "replying"} => lease[r] = "held"
  /\ place[r] = "framework" => lease[r] # "none" /\ r \in Calls

\* One answer and only after the terminal was decided; who leaves with a reply has one.
AnswerOf(r) ==
  /\ answers[r] <= IF terminal[r] THEN 1 ELSE 0
  /\ terminal[r] => r \in HasReply
  /\ place[r] \in {"replying", "over"} /\ r \in HasReply => terminal[r]

\* The queue holds each queued request once.
QueueHolds ==
  /\ \A i \in 1 .. Len(queue) : place[queue[i]] = "queued"
  /\ \A i, j \in 1 .. Len(queue) : queue[i] = queue[j] => i = j

\* A drain closes the queue, and one that succeeded found it empty.
DrainState ==
  /\ drain # "no" => queueClosed
  /\ drain = "ok" => queue = <<>>

AdmissionInv ==
  /\ AdmissionTypeOK
  /\ CounterExact
  /\ \A r \in Request : LeaseOf(r)
  /\ \A r \in Request : AnswerOf(r)
  /\ QueueHolds
  /\ DrainState
  /\ DrainIsFinal

\* The properties follow.
LEMMA AdmissionProperties == AdmissionConstants /\ AdmissionInv => RequestsAccounted
<1> SUFFICES ASSUME AdmissionConstants, AdmissionInv PROVE RequestsAccounted
  OBVIOUS
<1>1. ASSUME NEW r \in Request
      PROVE  /\ answers[r] <= IF r \in HasReply THEN 1 ELSE 0
             /\ place[r] = "over" /\ r \in HasReply => terminal[r]
  BY DEF AdmissionInv, AdmissionTypeOK, AnswerOf
<1>2. CounterExact /\ DrainIsFinal
  BY DEF AdmissionInv
<1> QED BY <1>1, <1>2 DEF RequestsAccounted, AdmissionExact, CounterExact, Held

\* Nothing has arrived yet.
LEMMA AdmissionStart == AdmissionConstants /\ AdmissionInit => AdmissionInv
<1> SUFFICES ASSUME AdmissionConstants, AdmissionInit PROVE AdmissionInv
  OBVIOUS
<1>1. Held = {}
  BY DEF AdmissionInit, Held
<1>2. CounterExact
  BY <1>1, FS_EmptySet DEF AdmissionInit, AdmissionConstants, CounterExact
<1>3. AdmissionTypeOK
  <2>1. place \in [Request -> RequestPlace] /\ answers \in [Request -> Nat]
    BY DEF AdmissionInit, RequestPlace
  <2>2. terminal \in [Request -> BOOLEAN] /\ queueClosed \in BOOLEAN
    BY DEF AdmissionInit
  <2>3. lease \in [Request -> {"none", "held", "released"}] /\ inflight \in Int
    BY DEF AdmissionInit
  <2>4. queue \in Seq(Request) /\ drain \in {"no", "waiting", "ok"}
    BY DEF AdmissionInit
  <2> QED BY <2>1, <2>2, <2>3, <2>4 DEF AdmissionTypeOK
<1>5. QueueHolds
  BY DEF AdmissionInit, QueueHolds
<1>6. DrainState /\ DrainIsFinal
  BY DEF AdmissionInit, DrainState, DrainIsFinal
<1>4. \A r \in Request : LeaseOf(r) /\ AnswerOf(r)
  BY DEF AdmissionInit, LeaseOf, AnswerOf
<1> QED BY <1>2, <1>3, <1>4, <1>5, <1>6 DEF AdmissionInv

-----------------------------------------------------------------------------
(***************************************************************************)
(* The operators.                                                          *)
(***************************************************************************)

\* What Reply leaves behind: the terminal decided, one answer at most.
LEMMA ReplyResult ==
  ASSUME AdmissionTypeOK, NEW r \in HasReply, AnswerOf(r), Reply(r)
  PROVE  /\ terminal' \in [Request -> BOOLEAN] /\ answers' \in [Request -> Nat]
         /\ terminal'[r] = TRUE /\ answers'[r] <= 1
         /\ \A s \in Request \ {r} : terminal'[s] = terminal[s] /\ answers'[s] = answers[s]
<1>0. /\ r \in Request /\ terminal \in [Request -> BOOLEAN] /\ answers \in [Request -> Nat]
      /\ answers[r] <= IF terminal[r] THEN 1 ELSE 0
  BY DEF AdmissionTypeOK, AnswerOf, Request, HasReply
<1>1. CASE terminal[r] = TRUE
  <2>1. UNCHANGED <<terminal, answers>>
    BY <1>1 DEF Reply
  <2> QED BY <1>0, <1>1, <2>1
<1>2. CASE terminal[r] = FALSE
  <2>1. terminal' = [terminal EXCEPT ![r] = TRUE]
    BY <1>2 DEF Reply
  <2>2. answers' = [answers EXCEPT ![r] = answers[r] + 1] \/ answers' = answers
    BY <1>2 DEF Reply, Post
  <2>3. answers[r] = 0
    BY <1>0, <1>2
  <2>4. terminal' \in [Request -> BOOLEAN] /\ terminal'[r] = TRUE
        /\ \A s \in Request \ {r} : terminal'[s] = terminal[s]
    BY <1>0, <2>1
  <2>5. answers' \in [Request -> Nat] /\ answers'[r] <= 1
        /\ \A s \in Request \ {r} : answers'[s] = answers[s]
    BY <1>0, <2>2, <2>3
  <2> QED BY <2>4, <2>5
<1> QED BY <1>0, <1>1, <1>2

\* Reject replies where somebody waits for it.
LEMMA RejectResult ==
  ASSUME AdmissionTypeOK, NEW r \in Request, AnswerOf(r), Reject(r)
  PROVE  /\ terminal' \in [Request -> BOOLEAN] /\ answers' \in [Request -> Nat]
         /\ r \in HasReply => terminal'[r] = TRUE /\ answers'[r] <= 1
         /\ r \notin HasReply => terminal'[r] = terminal[r] /\ answers'[r] = answers[r]
         /\ \A s \in Request \ {r} : terminal'[s] = terminal[s] /\ answers'[s] = answers[s]
<1>1. CASE r \in HasReply
  BY <1>1, ReplyResult DEF Reject
<1>2. CASE r \notin HasReply
  BY <1>2 DEF Reject, AdmissionTypeOK
<1> QED BY <1>1, <1>2

\* Counting a lease and giving it back keep the counter exact.
LEMMA LeaseCounted ==
  ASSUME AdmissionConstants, AdmissionTypeOK, CounterExact, NEW r \in Request
  PROVE  /\ Held' = Held => (inflight' = inflight => CounterExact')
         /\ lease[r] = "none" /\ inflight < MaxInflight
              /\ lease' = [lease EXCEPT ![r] = "held"] /\ inflight' = inflight + 1
              => CounterExact'
         /\ lease[r] = "held" /\ Release(r)
              => CounterExact' /\ lease' = [lease EXCEPT ![r] = "released"]
         /\ lease[r] = "released" /\ Release(r) => UNCHANGED <<lease, inflight>>
<1>1. IsFiniteSet(Held) /\ Cardinality(Held) = inflight /\ inflight <= MaxInflight
  BY FS_Subset DEF AdmissionConstants, CounterExact, Held
<1>2. MaxInflight \in Nat /\ inflight \in Int
  BY DEF AdmissionConstants, AdmissionTypeOK
<1>3. ASSUME Held' = Held, inflight' = inflight PROVE CounterExact'
  BY <1>1, <1>3 DEF CounterExact
<1>4. ASSUME lease[r] = "none", inflight < MaxInflight,
             lease' = [lease EXCEPT ![r] = "held"], inflight' = inflight + 1
      PROVE  CounterExact'
  <2>1. Held' = Held \cup {r} /\ r \notin Held
    BY <1>4 DEF Held, AdmissionTypeOK
  <2> QED BY <1>1, <1>2, <1>4, <2>1, FS_AddElement DEF CounterExact
<1>5. ASSUME lease[r] = "held", Release(r)
      PROVE  CounterExact' /\ lease' = [lease EXCEPT ![r] = "released"]
  <2>1. lease' = [lease EXCEPT ![r] = "released"] /\ inflight' = inflight - 1
    BY <1>5 DEF Release
  <2>2. Held' = Held \ {r} /\ r \in Held
    BY <1>5, <2>1 DEF Held, AdmissionTypeOK
  <2> QED BY <1>1, <1>2, <2>1, <2>2, FS_RemoveElement DEF CounterExact
<1>6. lease[r] = "released" /\ Release(r) => UNCHANGED <<lease, inflight>>
  BY DEF Release
<1> QED BY <1>3, <1>4, <1>5, <1>6

-----------------------------------------------------------------------------
(***************************************************************************)
(* One request moves: what its step has to show for the parts of the       *)
(* invariant that speak of all requests.                                   *)
(***************************************************************************)

\* A step that concerns r alone and leaves the queue and the drain as they are.
LEMMA MoveKeeps ==
  ASSUME AdmissionInv, NEW r \in Request, NEW p \in RequestPlace,
         place[r] # "queued", GoTo(r, p), UNCHANGED <<queue, queueClosed, drain>>,
         terminal' \in [Request -> BOOLEAN], answers' \in [Request -> Nat],
         lease' \in [Request -> {"none", "held", "released"}], inflight' \in Int,
         \A s \in Request \ {r} :
           lease'[s] = lease[s] /\ terminal'[s] = terminal[s] /\ answers'[s] = answers[s],
         CounterExact', LeaseOf(r)', AnswerOf(r)',
         drain = "ok" => \/ p \in {"unserved", "counted", "over"}
                         \/ p = "framework" /\ lease'[r] = "released"
  PROVE  AdmissionInv'
<1>1. place \in [Request -> RequestPlace] /\ queue \in Seq(Request)
  BY DEF AdmissionInv, AdmissionTypeOK
<1>2. /\ place' \in [Request -> RequestPlace] /\ place'[r] = p
      /\ \A s \in Request \ {r} : place'[s] = place[s]
  BY <1>1 DEF GoTo
<1>3. ASSUME NEW s \in Request \ {r} PROVE LeaseOf(s)' /\ AnswerOf(s)'
  <2>1. LeaseOf(s) /\ AnswerOf(s)
    BY DEF AdmissionInv
  <2>2. /\ place'[s] = place[s] /\ lease'[s] = lease[s]
        /\ terminal'[s] = terminal[s] /\ answers'[s] = answers[s]
    BY <1>2
  <2>3. LeaseOf(s)'
    BY <2>1, <2>2 DEF LeaseOf
  <2>4. AnswerOf(s)'
    BY <2>1, <2>2 DEF AnswerOf
  <2> QED BY <2>3, <2>4
<1>4. QueueHolds'
  <2>1. QueueHolds /\ queue' = queue
    BY DEF AdmissionInv
  <2>2. ASSUME NEW i \in 1 .. Len(queue) PROVE place'[queue[i]] = "queued"
    BY <1>1, <1>2, <2>1 DEF QueueHolds
  <2> QED BY <2>1, <2>2 DEF QueueHolds
<1>5. DrainState'
  BY DEF AdmissionInv, DrainState
<1>6. DrainIsFinal'
  <2>1. ASSUME drain = "ok", NEW s \in Request
        PROVE  /\ place'[s] \in {"wire", "unserved", "counted", "framework", "over"}
               /\ place'[s] = "framework" => lease'[s] = "released"
    BY <1>2, <2>1 DEF AdmissionInv, DrainIsFinal
  <2> QED BY <2>1 DEF DrainIsFinal
<1>7. AdmissionTypeOK'
  BY <1>2 DEF AdmissionInv, AdmissionTypeOK
<1> QED BY <1>3, <1>4, <1>5, <1>6, <1>7 DEF AdmissionInv

\* Release by whoever holds the lease of r, or twice by the framework.
LEMMA ReleaseResult ==
  ASSUME AdmissionConstants, AdmissionInv, NEW r \in Request, lease[r] # "none", Release(r)
  PROVE  /\ CounterExact' /\ inflight' \in Int /\ lease'[r] = "released"
         /\ lease' \in [Request -> {"none", "held", "released"}]
         /\ \A s \in Request \ {r} : lease'[s] = lease[s]
<1>1. AdmissionTypeOK /\ CounterExact
  BY DEF AdmissionInv
<1>2. lease \in [Request -> {"none", "held", "released"}] /\ inflight \in Int
  BY <1>1 DEF AdmissionTypeOK
<1>3. CASE lease[r] = "held"
  <2>1. CounterExact' /\ lease' = [lease EXCEPT ![r] = "released"]
    BY <1>1, <1>3, LeaseCounted
  <2>2. inflight' = inflight - 1
    BY <1>3 DEF Release
  <2> QED BY <1>2, <2>1, <2>2
<1>4. CASE lease[r] = "released"
  <2>1. UNCHANGED <<lease, inflight>>
    BY <1>4 DEF Release
  <2>2. CounterExact'
    BY <1>1, <2>1 DEF CounterExact, Held
  <2> QED BY <1>2, <1>4, <2>1, <2>2
<1> QED BY <1>2, <1>3, <1>4

\* NobodyServes: the request ends where it came in.
LEMMA NobodyServesKeeps ==
  ASSUME AdmissionConstants, AdmissionInv, NEW r \in Request, NobodyServes(r)
  PROVE  AdmissionInv'
<1>1. AdmissionTypeOK /\ CounterExact /\ LeaseOf(r) /\ AnswerOf(r)
  BY DEF AdmissionInv
<1>2. /\ place[r] = "wire" /\ GoTo(r, "unserved")
      /\ UNCHANGED <<terminal, answers, lease, inflight, queue, queueClosed, drain>>
  BY DEF NobodyServes
<1>3. /\ terminal' \in [Request -> BOOLEAN] /\ answers' \in [Request -> Nat] /\ inflight' \in Int
      /\ lease' \in [Request -> {"none", "held", "released"}]
  BY <1>1, <1>2 DEF AdmissionTypeOK
<1>4. CounterExact'
  BY <1>1, <1>2 DEF CounterExact, Held
<1>5. place'[r] = "unserved"
  BY <1>1, <1>2 DEF GoTo, AdmissionTypeOK
<1>6. LeaseOf(r)'
  BY <1>5 DEF LeaseOf
<1>7. AnswerOf(r)'
  BY <1>1, <1>2, <1>5 DEF AnswerOf
<1>8. "unserved" \in RequestPlace
  BY DEF RequestPlace
<1> QED BY <1>2, <1>3, <1>4, <1>6, <1>7, <1>8, MoveKeeps

\* CountLease: refused at the limit, or counted.
LEMMA CountLeaseKeeps ==
  ASSUME AdmissionConstants, AdmissionInv, NEW r \in Request, CountLease(r)
  PROVE  AdmissionInv'
<1>1. AdmissionTypeOK /\ CounterExact /\ LeaseOf(r) /\ AnswerOf(r)
  BY DEF AdmissionInv
<1>2. place[r] = "wire" /\ lease[r] = "none" /\ UNCHANGED <<queue, queueClosed, drain>>
  BY <1>1 DEF CountLease, LeaseOf
<1>3. /\ terminal \in [Request -> BOOLEAN] /\ answers \in [Request -> Nat] /\ inflight \in Int
      /\ lease \in [Request -> {"none", "held", "released"}]
  BY <1>1 DEF AdmissionTypeOK
<1>4. CASE inflight >= MaxInflight
  <2>1. GoTo(r, "over") /\ Reject(r) /\ UNCHANGED <<lease, inflight>>
    BY <1>4 DEF CountLease
  <2>2. CounterExact'
    BY <1>1, <2>1 DEF CounterExact, Held
  <2>3. place'[r] = "over"
    BY <1>1, <2>1 DEF GoTo, AdmissionTypeOK
  <2>4. LeaseOf(r)'
    BY <2>3 DEF LeaseOf
  <2>5. AnswerOf(r)'
    BY <1>1, <2>1, <2>3, RejectResult DEF AnswerOf
  <2>6. "over" \in RequestPlace
    BY DEF RequestPlace
  <2> QED BY <1>1, <1>2, <1>3, <2>1, <2>2, <2>4, <2>5, <2>6, RejectResult, MoveKeeps
<1>5. CASE ~(inflight >= MaxInflight)
  <2>1. /\ GoTo(r, "counted") /\ inflight' = inflight + 1
        /\ lease' = [lease EXCEPT ![r] = "held"] /\ UNCHANGED <<terminal, answers>>
    BY <1>5 DEF CountLease
  <2>0. inflight < MaxInflight
    BY <1>3, <1>5 DEF AdmissionConstants
  <2>2. CounterExact'
    BY <1>1, <1>2, <2>0, <2>1, LeaseCounted
  <2>3. place'[r] = "counted" /\ lease'[r] = "held"
    BY <1>1, <1>3, <2>1 DEF GoTo, AdmissionTypeOK
  <2>4. LeaseOf(r)'
    BY <2>3 DEF LeaseOf
  <2>5. AnswerOf(r)'
    BY <1>1, <2>1, <2>3 DEF AnswerOf
  <2>6. "counted" \in RequestPlace
    BY DEF RequestPlace
  <2> QED BY <1>2, <1>3, <2>1, <2>2, <2>4, <2>5, <2>6, MoveKeeps
<1> QED BY <1>4, <1>5

\* Admit: refused by the queue, its lease given back, or put into it.
LEMMA AdmitKeeps ==
  ASSUME AdmissionConstants, AdmissionInv, NEW r \in Request, Admit(r)
  PROVE  AdmissionInv'
<1>1. AdmissionTypeOK /\ CounterExact /\ LeaseOf(r) /\ AnswerOf(r) /\ QueueHolds
  BY DEF AdmissionInv
<1>2. place[r] = "counted" /\ lease[r] = "held" /\ UNCHANGED <<queueClosed, drain>>
  BY <1>1 DEF Admit, LeaseOf
<1>3. CASE queueClosed \/ Len(queue) >= MaxHandlerItems
  <2>1. GoTo(r, "over") /\ Reject(r) /\ Release(r) /\ UNCHANGED queue
    BY <1>3 DEF Admit
  <2>2. place'[r] = "over"
    BY <1>1, <2>1 DEF GoTo, AdmissionTypeOK
  <2>3. LeaseOf(r)'
    BY <2>2 DEF LeaseOf
  <2>4. AnswerOf(r)'
    BY <1>1, <2>1, <2>2, RejectResult DEF AnswerOf
  <2>5. "over" \in RequestPlace
    BY DEF RequestPlace
  <2>6. lease[r] # "none"
    BY <1>2
  <2> QED BY <1>1, <1>2, <2>1, <2>3, <2>4, <2>5, <2>6, RejectResult, ReleaseResult, MoveKeeps
<1>4. CASE ~(queueClosed \/ Len(queue) >= MaxHandlerItems)
  <2>1. /\ GoTo(r, "queued") /\ queue' = Append(queue, r)
        /\ UNCHANGED <<terminal, answers, lease, inflight>>
    BY <1>4 DEF Admit
  <2>2. /\ place \in [Request -> RequestPlace] /\ queue \in Seq(Request)
        /\ place' \in [Request -> RequestPlace] /\ place'[r] = "queued"
        /\ \A s \in Request \ {r} : place'[s] = place[s]
    BY <1>1, <2>1 DEF AdmissionTypeOK, GoTo, RequestPlace
  <2>3. /\ queue' \in Seq(Request) /\ Len(queue') = Len(queue) + 1 /\ Len(queue) \in Nat
        /\ queue'[Len(queue) + 1] = r
        /\ \A i \in 1 .. Len(queue) : queue'[i] = queue[i] /\ queue[i] \in Request
    BY <2>1, <2>2
  <2>4. AdmissionTypeOK'
    BY <1>1, <1>2, <2>1, <2>2, <2>3 DEF AdmissionTypeOK
  <2>5. CounterExact'
    BY <1>1, <2>1 DEF CounterExact, Held
  <2>6. ASSUME NEW s \in Request PROVE LeaseOf(s)' /\ AnswerOf(s)'
    <3>1. LeaseOf(s) /\ AnswerOf(s)
      BY DEF AdmissionInv
    <3>2. LeaseOf(s)'
      BY <1>2, <2>1, <2>2, <3>1 DEF LeaseOf
    <3>3. AnswerOf(s)'
      BY <1>2, <2>1, <2>2, <3>1 DEF AnswerOf
    <3> QED BY <3>2, <3>3
  <2>7. QueueHolds'
    <3>1. ASSUME NEW i \in 1 .. Len(queue) PROVE queue[i] # r /\ place'[queue'[i]] = "queued"
      BY <1>1, <1>2, <2>2, <2>3 DEF QueueHolds
    <3>2. ASSUME NEW i \in 1 .. Len(queue'), NEW j \in 1 .. Len(queue'), queue'[i] = queue'[j]
          PROVE  i = j
      <4>1. i \in 1 .. Len(queue) \/ i = Len(queue) + 1
        BY <2>3
      <4>2. j \in 1 .. Len(queue) \/ j = Len(queue) + 1
        BY <2>3
      <4> QED BY <1>1, <2>3, <3>1, <3>2, <4>1, <4>2 DEF QueueHolds
    <3>3. ASSUME NEW i \in 1 .. Len(queue') PROVE place'[queue'[i]] = "queued"
      <4>1. i \in 1 .. Len(queue) \/ i = Len(queue) + 1
        BY <2>3
      <4> QED BY <2>2, <2>3, <3>1, <4>1
    <3> QED BY <3>2, <3>3 DEF QueueHolds
  <2>8. ~queueClosed /\ drain = "no" /\ drain' = "no"
    BY <1>2, <1>4 DEF AdmissionInv, DrainState
  <2>9. DrainState' /\ DrainIsFinal'
    BY <2>8 DEF DrainState, DrainIsFinal
  <2> QED BY <2>4, <2>5, <2>6, <2>7, <2>9 DEF AdmissionInv
<1> QED BY <1>3, <1>4

\* WorkerTake: the first of the queue comes to the handler.
LEMMA WorkerTakeKeeps ==
  ASSUME AdmissionConstants, AdmissionInv, WorkerTake
  PROVE  AdmissionInv'
<1> DEFINE h == Head(queue)
<1>1. AdmissionTypeOK /\ CounterExact /\ QueueHolds
  BY DEF AdmissionInv
<1>2. /\ queue # <<>> /\ queue' = Tail(queue) /\ place' = [place EXCEPT ![h] = "handler"]
      /\ UNCHANGED <<terminal, answers, lease, inflight, queueClosed, drain>>
  BY DEF WorkerTake, GoTo
<1>3. place \in [Request -> RequestPlace] /\ queue \in Seq(Request)
  BY <1>1 DEF AdmissionTypeOK
<1>4. /\ h \in Request /\ h = queue[1] /\ Len(queue) \in Nat /\ Len(queue) >= 1
      /\ queue' \in Seq(Request) /\ Len(queue') = Len(queue) - 1
      /\ \A i \in 1 .. Len(queue') : queue'[i] = queue[i + 1] /\ queue[i + 1] \in Request
  BY <1>2, <1>3
<1>5. place[h] = "queued"
  BY <1>1, <1>4 DEF QueueHolds
<1> HIDE DEF h
<1>6. /\ place' \in [Request -> RequestPlace] /\ place'[h] = "handler"
      /\ \A s \in Request \ {h} : place'[s] = place[s]
  BY <1>2, <1>3, <1>4 DEF RequestPlace
<1>7. AdmissionTypeOK'
  BY <1>1, <1>2, <1>4, <1>6 DEF AdmissionTypeOK
<1>8. CounterExact'
  BY <1>1, <1>2 DEF CounterExact, Held
<1>9. ASSUME NEW s \in Request PROVE LeaseOf(s)' /\ AnswerOf(s)'
  <2>1. LeaseOf(s) /\ AnswerOf(s)
    BY DEF AdmissionInv
  <2>2. LeaseOf(s)'
    BY <1>2, <1>5, <1>6, <2>1 DEF LeaseOf
  <2>3. AnswerOf(s)'
    BY <1>2, <1>5, <1>6, <2>1 DEF AnswerOf
  <2> QED BY <2>2, <2>3
<1>10. QueueHolds'
  <2>1. ASSUME NEW i \in 1 .. Len(queue')
        PROVE  i + 1 \in 1 .. Len(queue) /\ queue[i + 1] # h /\ queue'[i] = queue[i + 1]
    <3>1. i + 1 \in 1 .. Len(queue) /\ 1 \in 1 .. Len(queue) /\ i + 1 # 1
      BY <1>4
    <3> QED BY <1>1, <1>4, <3>1 DEF QueueHolds
  <2>2. ASSUME NEW i \in 1 .. Len(queue') PROVE place'[queue'[i]] = "queued"
    BY <1>1, <1>4, <1>6, <2>1 DEF QueueHolds
  <2>3. ASSUME NEW i \in 1 .. Len(queue'), NEW j \in 1 .. Len(queue'), queue'[i] = queue'[j]
        PROVE  i = j
    <3>1. i + 1 = j + 1
      BY <1>1, <2>1, <2>3 DEF QueueHolds
    <3> QED BY <1>4, <3>1
  <2> QED BY <2>2, <2>3 DEF QueueHolds
<1>11. drain # "ok" /\ drain' # "ok"
  BY <1>2 DEF AdmissionInv, DrainState
<1>12. DrainState' /\ DrainIsFinal'
  BY <1>2, <1>11 DEF AdmissionInv, DrainState, DrainIsFinal
<1> QED BY <1>7, <1>8, <1>9, <1>10, <1>12 DEF AdmissionInv

\* A request with the worker or the framework is answered.
LEMMA ReplyKeeps ==
  ASSUME AdmissionInv, NEW r \in HasReply, NEW p \in {"replying", "framework"},
         \/ place[r] = "handler" /\ p = "replying"
         \/ place[r] = "framework" /\ p = "framework",
         GoTo(r, p), Reply(r), UNCHANGED <<lease, inflight, queue, queueClosed, drain>>
  PROVE  AdmissionInv'
<1>1. AdmissionTypeOK /\ CounterExact /\ LeaseOf(r) /\ AnswerOf(r) /\ r \in Request
  BY DEF AdmissionInv, HasReply, Request
<1>2. /\ p \in RequestPlace /\ place[r] # "queued" /\ place'[r] = p
      /\ lease \in [Request -> {"none", "held", "released"}] /\ inflight \in Int
  BY <1>1 DEF RequestPlace, GoTo, AdmissionTypeOK
<1>3. CounterExact'
  BY <1>1 DEF CounterExact, Held
<1>4. LeaseOf(r)'
  BY <1>1, <1>2 DEF LeaseOf
<1>5. AnswerOf(r)'
  BY <1>1, <1>2, ReplyResult DEF AnswerOf
<1>6. drain = "ok" => p = "framework" /\ lease'[r] = "released"
  BY <1>1 DEF AdmissionInv, DrainIsFinal
<1> QED BY <1>1, <1>2, <1>3, <1>4, <1>5, <1>6, ReplyResult, MoveKeeps

\* A request with the worker or the framework gives its lease back.
LEMMA ReleaseKeeps ==
  ASSUME AdmissionConstants, AdmissionInv, NEW r \in Request, NEW p \in {"over", "framework"},
         \/ place[r] \in {"handler", "replying"} /\ p = "over"
         \/ place[r] = "framework" /\ p = "framework",
         p = "over" /\ r \in HasReply => terminal[r],
         GoTo(r, p), Release(r), UNCHANGED <<terminal, answers, queue, queueClosed, drain>>
  PROVE  AdmissionInv'
<1>1. AdmissionTypeOK /\ LeaseOf(r) /\ AnswerOf(r)
  BY DEF AdmissionInv
<1>2. p \in RequestPlace /\ place[r] # "queued" /\ place'[r] = p /\ lease[r] # "none"
  BY <1>1 DEF RequestPlace, GoTo, AdmissionTypeOK, LeaseOf
<1>3. /\ CounterExact' /\ inflight' \in Int /\ lease'[r] = "released"
      /\ lease' \in [Request -> {"none", "held", "released"}]
      /\ \A s \in Request \ {r} : lease'[s] = lease[s]
  BY <1>2, ReleaseResult
<1>4. LeaseOf(r)'
  BY <1>1, <1>2, <1>3 DEF LeaseOf
<1>5. AnswerOf(r)'
  BY <1>1, <1>2 DEF AnswerOf
<1>6. drain = "ok" => \/ p = "over"
                      \/ p = "framework" /\ lease'[r] = "released"
  BY <1>3
<1>7. terminal' \in [Request -> BOOLEAN] /\ answers' \in [Request -> Nat]
  BY <1>1 DEF AdmissionTypeOK
<1> QED BY <1>2, <1>3, <1>4, <1>5, <1>6, <1>7, MoveKeeps

\* HandlerAccepts and HandlerRefuses: on to the framework, answered, or over.
LEMMA HandlerKeeps ==
  ASSUME AdmissionConstants, AdmissionInv, NEW r \in Request,
         HandlerAccepts(r) \/ HandlerRefuses(r)
  PROVE  AdmissionInv'
<1>1. place[r] = "handler" /\ UNCHANGED <<queue, queueClosed, drain>>
  BY DEF HandlerAccepts, HandlerRefuses
<1>2. \/ /\ r \in Calls /\ GoTo(r, "framework") /\ UNCHANGED <<terminal, answers, lease, inflight>>
      \/ /\ r \in HasReply /\ GoTo(r, "replying") /\ Reply(r) /\ UNCHANGED <<lease, inflight>>
      \/ /\ r \in PlainSends /\ GoTo(r, "over") /\ Release(r) /\ UNCHANGED <<terminal, answers>>
  BY DEF HandlerAccepts, HandlerRefuses, HasReply
<1>3. CASE r \in Calls /\ GoTo(r, "framework") /\ UNCHANGED <<terminal, answers, lease, inflight>>
  <2>1. AdmissionTypeOK /\ CounterExact /\ LeaseOf(r) /\ AnswerOf(r)
    BY DEF AdmissionInv
  <2>2. "framework" \in RequestPlace /\ place'[r] = "framework" /\ lease[r] = "held"
    BY <1>1, <1>3, <2>1 DEF RequestPlace, GoTo, AdmissionTypeOK, LeaseOf
  <2>3. CounterExact'
    BY <1>3, <2>1 DEF CounterExact, Held
  <2>4. LeaseOf(r)' /\ AnswerOf(r)'
    BY <1>3, <2>1, <2>2 DEF LeaseOf, AnswerOf
  <2>5. drain # "ok"
    BY <1>1 DEF AdmissionInv, DrainIsFinal
  <2>6. /\ terminal' \in [Request -> BOOLEAN] /\ answers' \in [Request -> Nat]
        /\ lease' \in [Request -> {"none", "held", "released"}] /\ inflight' \in Int
    BY <1>3, <2>1 DEF AdmissionTypeOK
  <2> QED BY <1>1, <1>3, <2>2, <2>3, <2>4, <2>5, <2>6, MoveKeeps
<1>4. CASE r \in HasReply /\ GoTo(r, "replying") /\ Reply(r) /\ UNCHANGED <<lease, inflight>>
  BY <1>1, <1>4, ReplyKeeps
<1>5. CASE r \in PlainSends /\ GoTo(r, "over") /\ Release(r) /\ UNCHANGED <<terminal, answers>>
  <2>1. r \notin HasReply
    BY <1>5 DEF AdmissionConstants
  <2> QED BY <1>1, <1>5, <2>1, ReleaseKeeps
<1> QED BY <1>2, <1>3, <1>4, <1>5

\* WorkerGoesOn: the reply was posted, so the terminal is decided.
LEMMA WorkerGoesOnKeeps ==
  ASSUME AdmissionConstants, AdmissionInv, NEW r \in Request, WorkerGoesOn(r)
  PROVE  AdmissionInv'
<1>1. /\ place[r] = "replying" /\ GoTo(r, "over") /\ Release(r)
      /\ UNCHANGED <<terminal, answers, queue, queueClosed, drain>>
  BY DEF WorkerGoesOn
<1>2. r \in HasReply => terminal[r]
  BY <1>1 DEF AdmissionInv, AnswerOf
<1> QED BY <1>1, <1>2, ReleaseKeeps

\* The framework answers, answers again, and lets go.
LEMMA FrameworkKeeps ==
  ASSUME AdmissionConstants, AdmissionInv, NEW r \in Request,
         FrameworkReplies(r) \/ FrameworkRepliesAgain(r) \/ FrameworkReleases(r)
  PROVE  AdmissionInv'
<1>1. place[r] = "framework" /\ UNCHANGED <<place, queue, queueClosed, drain>>
  BY DEF FrameworkReplies, FrameworkRepliesAgain, FrameworkReleases
<1>2. GoTo(r, "framework") /\ r \in HasReply
  BY <1>1 DEF AdmissionInv, AdmissionTypeOK, LeaseOf, GoTo, HasReply
<1>3. CASE FrameworkReplies(r) \/ FrameworkRepliesAgain(r)
  <2>1. Reply(r) /\ UNCHANGED <<lease, inflight>>
    BY <1>3 DEF FrameworkReplies, FrameworkRepliesAgain
  <2> QED BY <1>1, <1>2, <2>1, ReplyKeeps
<1>4. CASE FrameworkReleases(r)
  <2>1. Release(r) /\ UNCHANGED <<terminal, answers>>
    BY <1>4 DEF FrameworkReleases
  <2> QED BY <1>1, <1>2, <2>1, ReleaseKeeps
<1> QED BY <1>3, <1>4

\* Steps the invariant does not speak of: frames settle, links die, nothing happens.
LEMMA OtherwiseKeeps ==
  ASSUME AdmissionInv, UNCHANGED <<place, terminal, answers, lease, inflight, queue, queueClosed,
                                   drain>>
  PROVE  AdmissionInv'
<1>1. AdmissionTypeOK'
  BY DEF AdmissionInv, AdmissionTypeOK
<1>2. CounterExact'
  BY DEF AdmissionInv, CounterExact, Held
<1>3. \A r \in Request : LeaseOf(r)' /\ AnswerOf(r)'
  BY DEF AdmissionInv, LeaseOf, AnswerOf
<1>4. QueueHolds'
  BY DEF AdmissionInv, QueueHolds
<1>5. DrainState' /\ DrainIsFinal'
  BY DEF AdmissionInv, DrainState, DrainIsFinal
<1> QED BY <1>1, <1>2, <1>3, <1>4, <1>5 DEF AdmissionInv

\* DrainBegins and DrainReturns: when no lease is held nobody is on the way.
LEMMA DrainKeeps ==
  ASSUME AdmissionConstants, AdmissionInv, DrainBegins \/ DrainReturns
  PROVE  AdmissionInv'
<1>1. UNCHANGED <<place, terminal, answers, lease, inflight, queue>>
  BY DEF DrainBegins, DrainReturns
<1>2. \/ drain = "no" /\ drain' = "waiting" /\ queueClosed' = TRUE
      \/ /\ drain = "waiting" /\ drain' = "ok" /\ queueClosed' = queueClosed
         /\ inflight = 0 /\ queue = <<>>
  BY DEF DrainBegins, DrainReturns, DrainedLocked
<1>3. AdmissionTypeOK'
  <2>1. /\ place' \in [Request -> RequestPlace] /\ answers' \in [Request -> Nat]
        /\ terminal' \in [Request -> BOOLEAN]
    BY <1>1 DEF AdmissionInv, AdmissionTypeOK
  <2>2. lease' \in [Request -> {"none", "held", "released"}] /\ inflight' \in Int
    BY <1>1 DEF AdmissionInv, AdmissionTypeOK
  <2>3. queue' \in Seq(Request) /\ drain' \in {"no", "waiting", "ok"}
    BY <1>1, <1>2 DEF AdmissionInv, AdmissionTypeOK
  <2>4. queueClosed' \in BOOLEAN
    BY <1>2 DEF AdmissionInv, AdmissionTypeOK
  <2> QED BY <2>1, <2>2, <2>3, <2>4 DEF AdmissionTypeOK
<1>4. CounterExact'
  BY <1>1 DEF AdmissionInv, CounterExact, Held
<1>5. \A r \in Request : LeaseOf(r)' /\ AnswerOf(r)'
  BY <1>1 DEF AdmissionInv, LeaseOf, AnswerOf
<1>6. QueueHolds'
  BY <1>1 DEF AdmissionInv, QueueHolds
<1>7. DrainState'
  BY <1>1, <1>2 DEF AdmissionInv, DrainState
<1>8. DrainIsFinal'
  <2>1. CASE inflight = 0
    <3>1. IsFiniteSet(Held) /\ Cardinality(Held) = 0
      BY <2>1, FS_Subset DEF AdmissionConstants, AdmissionInv, CounterExact, Held
    <3>2. Held = {}
      BY <3>1, FS_EmptySet
    <3>3. ASSUME NEW r \in Request
          PROVE  /\ place[r] \in {"wire", "unserved", "framework", "over"}
                 /\ place[r] = "framework" => lease[r] = "released"
      <4>1. LeaseOf(r) /\ place[r] \in RequestPlace /\ lease[r] \in {"none", "released"}
        BY <3>2 DEF Held, AdmissionInv, AdmissionTypeOK
      <4> QED BY <4>1 DEF LeaseOf, RequestPlace
    <3> QED BY <1>1, <3>3 DEF DrainIsFinal
  <2>2. CASE drain' = "waiting"
    BY <2>2 DEF DrainIsFinal
  <2> QED BY <1>2, <2>1, <2>2
<1> QED BY <1>3, <1>4, <1>5, <1>6, <1>7, <1>8 DEF AdmissionInv

-----------------------------------------------------------------------------
(***************************************************************************)
(* The admission of requests: the theorems.                                *)
(***************************************************************************)

\* The inductive invariant of the admission of requests: where a request is, whether its lease is
\* held and whether it was answered belong together.
THEOREM AdmissionAlways ==
  ASSUME AdmissionConstants
  PROVE  AdmissionSpec => []AdmissionInv
<1>1. ASSUME AdmissionInv, [AdmissionNext]_admissionVars PROVE AdmissionInv'
  <2>1. CASE UNCHANGED admissionVars
    BY <1>1, <2>1, OtherwiseKeeps DEF admissionVars
  <2>2. ASSUME NEW r \in Request, CountLease(r) PROVE AdmissionInv'
    BY <1>1, <2>2, CountLeaseKeeps
  <2>3. ASSUME NEW r \in Request, Admit(r) PROVE AdmissionInv'
    BY <1>1, <2>3, AdmitKeeps
  <2>4. ASSUME NEW r \in Request, HandlerAccepts(r) \/ HandlerRefuses(r) PROVE AdmissionInv'
    BY <1>1, <2>4, HandlerKeeps
  <2>5. ASSUME NEW r \in Request, WorkerGoesOn(r) PROVE AdmissionInv'
    BY <1>1, <2>5, WorkerGoesOnKeeps
  <2>6. ASSUME NEW r \in Request,
               FrameworkReplies(r) \/ FrameworkRepliesAgain(r) \/ FrameworkReleases(r)
        PROVE AdmissionInv'
    BY <1>1, <2>6, FrameworkKeeps
  <2>7. ASSUME NEW r \in Request, Settle(r) \/ LinkDies(r) PROVE AdmissionInv'
    BY <1>1, <2>7, OtherwiseKeeps DEF Settle, LinkDies
  <2>10. ASSUME NEW r \in Request, NobodyServes(r) PROVE AdmissionInv'
    BY <1>1, <2>10, NobodyServesKeeps
  <2>8. CASE WorkerTake
    BY <1>1, <2>8, WorkerTakeKeeps
  <2>9. CASE DrainBegins \/ DrainReturns
    BY <1>1, <2>9, DrainKeeps
  <2> QED BY <1>1, <2>1, <2>2, <2>3, <2>4, <2>5, <2>6, <2>7, <2>8, <2>9, <2>10 DEF AdmissionNext
<1>2. AdmissionInit => AdmissionInv
  BY AdmissionStart
<1> QED BY <1>1, <1>2, PTL DEF AdmissionSpec

\* Whatever the order of readers, worker, framework, writers and drain: the counter of the server
\* is the number of leases held and within its limit, no request is answered twice, none with a
\* reply is over without its terminal decided, and a successful drain left nothing behind.
THEOREM AdmissionCorrect ==
  ASSUME AdmissionConstants
  PROVE  AdmissionSpec => []RequestsAccounted
<1>1. AdmissionInv => RequestsAccounted
  BY AdmissionProperties
<1> QED BY <1>1, AdmissionAlways, PTL

-----------------------------------------------------------------------------
(***************************************************************************)
(* The checkpoints.                                                        *)
(***************************************************************************)

Outside == {"before", "passed", "failed"}
Within  == {"Pause", "ThrowOnce", "released", "thrown", "let", "stopped"}
Inside  == { v \in Visitor : visit[v].at \in Within }

PointState == [generation : Nat, action : {"Pause", "ThrowOnce"}, armed : BOOLEAN,
               expired : BOOLEAN, in_flight : Int]
VisitState == [at : Outside \cup Within, generation : Nat]

HooksTypeOK ==
  /\ point \in PointState
  /\ hooksClosed \in BOOLEAN
  /\ visit \in [Visitor -> VisitState]
  /\ thrown \in [1 .. MaxGeneration -> Nat]

\* The generation of the point is within the bound, and one that is armed has been made.
PointMade ==
  /\ point.generation <= MaxGeneration
  /\ point.armed => point.generation > 0

\* A coroutine that went in holds a generation that was made.
VisitMade(v) == v \in Inside => visit[v].generation \in 1 .. point.generation

\* Thrown once at most, and a generation that threw was made and is not armed any more.
ThrownOnce(g) ==
  /\ thrown[g] <= 1
  /\ thrown[g] > 0 => g <= point.generation /\ ~(point.armed /\ point.generation = g)

FlightExact == point.in_flight = Cardinality(Inside)

HooksInv ==
  /\ HooksTypeOK
  /\ PointMade
  /\ \A v \in Visitor : VisitMade(v)
  /\ \A g \in 1 .. MaxGeneration : ThrownOnce(g)
  /\ FlightExact

\* The property follows.
LEMMA HooksProperty == HooksInv => HookExact
BY DEF HooksInv, HookExact, ThrownOnce, FlightExact, Inside, Within

\* Nothing has happened yet.
LEMMA HooksStart == HooksConstants /\ HooksInit => HooksInv
<1> SUFFICES ASSUME HooksConstants, HooksInit PROVE HooksInv
  OBVIOUS
<1>1. Inside = {}
  BY DEF HooksInit, Inside, Within
<1>2. point \in PointState
  BY DEF HooksInit, PointState
<1>3. visit \in [Visitor -> VisitState] /\ hooksClosed \in BOOLEAN
  BY DEF HooksInit, VisitState, Outside, Within
<1>4. thrown \in [1 .. MaxGeneration -> Nat]
  BY DEF HooksInit
<1>5. PointMade /\ \A v \in Visitor : VisitMade(v)
  BY <1>1 DEF HooksInit, HooksConstants, PointMade, VisitMade
<1>6. \A g \in 1 .. MaxGeneration : ThrownOnce(g)
  BY DEF HooksInit, ThrownOnce
<1>7. FlightExact
  BY <1>1, FS_EmptySet DEF HooksInit, FlightExact
<1> QED BY <1>2, <1>3, <1>4, <1>5, <1>6, <1>7 DEF HooksInv, HooksTypeOK

-----------------------------------------------------------------------------
(***************************************************************************)
(* What the steps have in common.                                          *)
(***************************************************************************)

\* A registration is made or put out; everybody stays where he is.
LEMMA PointKeeps ==
  ASSUME HooksConstants, HooksInv, UNCHANGED <<visit, thrown>>, hooksClosed' \in BOOLEAN,
         point' \in PointState, point'.in_flight = point.in_flight,
         \/ point'.generation = point.generation /\ (point'.armed => point.armed)
         \/ point'.generation = point.generation + 1 /\ point.generation < MaxGeneration
  PROVE  HooksInv'
<1>1. HooksTypeOK /\ PointMade /\ point.generation \in Nat /\ MaxGeneration \in Nat
  BY DEF HooksInv, HooksTypeOK, PointState, HooksConstants
<1>2. HooksTypeOK'
  BY <1>1 DEF HooksTypeOK
<1>3. Inside' = Inside
  BY DEF Inside
<1>4. PointMade'
  BY <1>1 DEF PointMade
<1>5. ASSUME NEW v \in Visitor PROVE VisitMade(v)'
  BY <1>1, <1>3 DEF HooksInv, VisitMade
<1>6. ASSUME NEW g \in 1 .. MaxGeneration PROVE ThrownOnce(g)'
  BY <1>1 DEF HooksInv, ThrownOnce
<1>7. FlightExact'
  BY <1>3 DEF HooksInv, FlightExact
<1> QED BY <1>2, <1>4, <1>5, <1>6, <1>7 DEF HooksInv

\* A point stays a point when one of its fields is set.
LEMMA PointUpdates ==
  ASSUME NEW p \in PointState
  PROVE  /\ [p EXCEPT !.generation = p.generation + 1] \in PointState
         /\ \A a \in {"Pause", "ThrowOnce"} : [p EXCEPT !.action = a] \in PointState
         /\ \A b \in BOOLEAN : [p EXCEPT !.armed = b] \in PointState
         /\ \A b \in BOOLEAN : [p EXCEPT !.expired = b] \in PointState
         /\ \A n \in Int : [p EXCEPT !.in_flight = n] \in PointState
<1>1. [p EXCEPT !.generation = p.generation + 1] \in PointState
  BY DEF PointState
<1>2. \A a \in {"Pause", "ThrowOnce"} : [p EXCEPT !.action = a] \in PointState
  BY DEF PointState
<1>3. \A b \in BOOLEAN : [p EXCEPT !.armed = b] \in PointState
  BY DEF PointState
<1>4. \A b \in BOOLEAN : [p EXCEPT !.expired = b] \in PointState
  BY DEF PointState
<1>5. \A n \in Int : [p EXCEPT !.in_flight = n] \in PointState
  BY DEF PointState
<1> QED BY <1>1, <1>2, <1>3, <1>4, <1>5

\* Arm, Clear, the expiry and the close.
LEMMA RegistrationKeeps ==
  ASSUME HooksConstants, HooksInv,
         \/ \E a \in {"Pause", "ThrowOnce"} : Arm(a)
         \/ \E g \in 1 .. MaxGeneration : Clear(g)
         \/ Expires \/ CloseHooks
  PROVE  HooksInv'
<1>1. point \in PointState /\ hooksClosed \in BOOLEAN
  BY DEF HooksInv, HooksTypeOK
<1>2. ASSUME NEW a \in {"Pause", "ThrowOnce"}, Arm(a) PROVE HooksInv'
  <2>1. /\ UNCHANGED <<visit, thrown, hooksClosed>> /\ point.generation < MaxGeneration
        /\ point' = [point EXCEPT !.generation = point.generation + 1, !.action = a,
                                  !.armed = TRUE, !.expired = FALSE]
    BY <1>2 DEF Arm
  <2>2. point' = [[[[point EXCEPT !.generation = point.generation + 1] EXCEPT !.action = a]
                     EXCEPT !.armed = TRUE] EXCEPT !.expired = FALSE]
    BY <2>1
  <2>3. point' \in PointState
    BY <1>1, <2>2, PointUpdates
  <2>4. point'.in_flight = point.in_flight /\ point'.generation = point.generation + 1
    BY <1>1, <2>1 DEF PointState
  <2> QED BY <1>1, <2>1, <2>3, <2>4, PointKeeps
<1>3. ASSUME (\E g \in 1 .. MaxGeneration : Clear(g)) \/ CloseHooks PROVE HooksInv'
  <2>1. /\ UNCHANGED <<visit, thrown>> /\ hooksClosed' \in BOOLEAN
        /\ point' = [point EXCEPT !.armed = FALSE]
    BY <1>1, <1>3 DEF Clear, CloseHooks
  <2>2. point' \in PointState
    BY <1>1, <2>1 DEF PointState
  <2>3. /\ point'.in_flight = point.in_flight /\ point'.generation = point.generation
        /\ point'.armed = FALSE
    BY <1>1, <2>1 DEF PointState
  <2> QED BY <2>1, <2>2, <2>3, PointKeeps
<1>4. ASSUME Expires PROVE HooksInv'
  <2>1. UNCHANGED <<visit, thrown, hooksClosed>> /\ point' = [point EXCEPT !.expired = TRUE]
    BY <1>4 DEF Expires
  <2>2. point' \in PointState
    BY <1>1, <2>1 DEF PointState
  <2>3. /\ point'.in_flight = point.in_flight /\ point'.generation = point.generation
        /\ point'.armed = point.armed
    BY <1>1, <2>1 DEF PointState
  <2> QED BY <1>1, <2>1, <2>2, <2>3, PointKeeps
<1> QED BY <1>2, <1>3, <1>4

\* One coroutine comes to s; the point may be put out on the way, and in_flight follows.
VisitStep(v, s) ==
  /\ s \in VisitState /\ visit' = [visit EXCEPT ![v] = s] /\ hooksClosed' = hooksClosed
  /\ s.at \in Within => s.generation \in 1 .. point.generation
  /\ point' \in PointState /\ point'.generation = point.generation
  /\ point'.armed => point.armed
  /\ \/ point'.in_flight = point.in_flight /\ (v \in Inside <=> s.at \in Within)
     \/ point'.in_flight = point.in_flight + 1 /\ v \notin Inside /\ s.at \in Within
     \/ point'.in_flight = point.in_flight - 1 /\ v \in Inside /\ s.at \notin Within
  /\ \/ thrown' = thrown
     \/ /\ point.armed /\ ~point'.armed
        /\ thrown' = [thrown EXCEPT ![point.generation] = @ + 1]

\* Such a step keeps everything.
LEMMA VisitKeeps ==
  ASSUME HooksConstants, HooksInv, NEW v \in Visitor, NEW s, VisitStep(v, s)
  PROVE  HooksInv'
<1> USE DEF VisitStep
<1>1. /\ HooksTypeOK /\ PointMade /\ FlightExact /\ point.generation \in Nat
      /\ MaxGeneration \in Nat /\ visit \in [Visitor -> VisitState]
      /\ thrown \in [1 .. MaxGeneration -> Nat] /\ point.in_flight \in Int
  BY DEF HooksInv, HooksTypeOK, PointState, HooksConstants
<1>2. /\ visit' \in [Visitor -> VisitState] /\ visit'[v] = s
      /\ \A w \in Visitor \ {v} : visit'[w] = visit[w]
  BY <1>1
<1>3. point.armed => point.generation \in 1 .. MaxGeneration
  BY <1>1 DEF PointMade
<1>4. thrown' \in [1 .. MaxGeneration -> Nat]
  BY <1>1, <1>3, SMTT(30)
<1>5. HooksTypeOK'
  BY <1>1, <1>2, <1>4 DEF HooksTypeOK
<1>6. PointMade'
  BY <1>1 DEF PointMade
<1>7. ASSUME NEW w \in Visitor PROVE VisitMade(w)'
  <2>1. VisitMade(w)
    BY DEF HooksInv
  <2>2. CASE w = v
    BY <1>2, <2>2 DEF VisitMade, Inside
  <2>3. CASE w # v
    BY <1>2, <2>1, <2>3 DEF VisitMade, Inside
  <2> QED BY <2>2, <2>3
<1>8. ASSUME NEW g \in 1 .. MaxGeneration PROVE ThrownOnce(g)'
  <2>1. ThrownOnce(g) /\ thrown[g] \in Nat
    BY <1>1 DEF HooksInv
  <2>2. CASE thrown' = thrown
    BY <2>1, <2>2 DEF ThrownOnce
  <2>3. CASE /\ point.armed /\ ~point'.armed
             /\ thrown' = [thrown EXCEPT ![point.generation] = @ + 1]
    <3>1. CASE g = point.generation
      <4>1. thrown[g] = 0 /\ thrown'[g] = 1
        BY <1>1, <2>1, <2>3, <3>1 DEF ThrownOnce
      <4> QED BY <1>1, <2>3, <3>1, <4>1 DEF ThrownOnce
    <3>2. CASE g # point.generation
      <4>1. thrown'[g] = thrown[g]
        BY <1>1, <2>3, <3>2
      <4> QED BY <2>1, <2>3, <4>1 DEF ThrownOnce
    <3> QED BY <3>1, <3>2
  <2> QED BY <2>2, <2>3
<1>9. FlightExact'
  <2>1. IsFiniteSet(Inside)
    BY FS_Subset DEF HooksConstants, Inside
  <2>2. CASE point'.in_flight = point.in_flight /\ (v \in Inside <=> s.at \in Within)
    <3>1. Inside' = Inside
      BY <1>2, <2>2 DEF Inside
    <3> QED BY <1>1, <2>2, <3>1 DEF FlightExact
  <2>3. CASE point'.in_flight = point.in_flight + 1 /\ v \notin Inside /\ s.at \in Within
    <3>1. Inside' = Inside \cup {v} /\ v \notin Inside
      BY <1>2, <2>3 DEF Inside
    <3>2. Cardinality(Inside \cup {v}) = Cardinality(Inside) + 1
      BY <2>1, <3>1, FS_AddElement
    <3> QED BY <1>1, <2>3, <3>1, <3>2 DEF FlightExact
  <2>4. CASE point'.in_flight = point.in_flight - 1 /\ v \in Inside /\ s.at \notin Within
    <3>1. Inside' = Inside \ {v} /\ v \in Inside
      BY <1>2, <2>4 DEF Inside
    <3>2. Cardinality(Inside \ {v}) = Cardinality(Inside) - 1
      BY <2>1, <3>1, FS_RemoveElement
    <3> QED BY <1>1, <2>4, <3>1, <3>2 DEF FlightExact
  <2> QED BY <2>2, <2>3, <2>4
<1> QED BY <1>5, <1>6, <1>7, <1>8, <1>9 DEF HooksInv

\* Checkpoint up to the unlock.
LEMMA EnterKeeps ==
  ASSUME HooksConstants, HooksInv, NEW v \in Visitor, Enter(v)
  PROVE  HooksInv'
<1>1. /\ HooksTypeOK /\ PointMade /\ point \in PointState /\ visit \in [Visitor -> VisitState]
      /\ point.generation \in Nat /\ point.armed \in BOOLEAN /\ point.expired \in BOOLEAN
      /\ point.in_flight \in Int /\ point.action \in {"Pause", "ThrowOnce"}
  BY DEF HooksInv, HooksTypeOK, PointState
<1>2. v \notin Inside /\ hooksClosed' = hooksClosed /\ thrown' = thrown
  BY DEF Enter, Inside, Within
<1>3. Looked \in PointState
  BY <1>1, PointUpdates DEF Looked
<1>4. /\ Looked.armed = (point.armed /\ ~point.expired) /\ Looked.generation = point.generation
      /\ Looked.in_flight = point.in_flight
  BY <1>1 DEF Looked, PointState
<1>5. CASE hooksClosed
  <2>1. /\ point' = point
        /\ visit' = [visit EXCEPT ![v] = [at |-> "failed", generation |-> point.generation]]
    BY <1>5 DEF Enter, At
  <2>2. [at |-> "failed", generation |-> point.generation] \in VisitState
    BY <1>1 DEF VisitState, Outside
  <2>3. "failed" \notin Within
    BY DEF Within
  <2>4. VisitStep(v, [at |-> "failed", generation |-> point.generation])
    BY <1>1, <1>2, <2>1, <2>2, <2>3 DEF VisitStep
  <2> QED BY <2>4, VisitKeeps
<1>6. CASE ~hooksClosed /\ ~Looked.armed
  <2>1. /\ point' = Looked
        /\ visit' = [visit EXCEPT ![v] = [at |-> "passed", generation |-> point.generation]]
    BY <1>6 DEF Enter, At
  <2>2. [at |-> "passed", generation |-> point.generation] \in VisitState
    BY <1>1 DEF VisitState, Outside
  <2>3. "passed" \notin Within
    BY DEF Within
  <2>4. VisitStep(v, [at |-> "passed", generation |-> point.generation])
    BY <1>1, <1>2, <1>3, <1>4, <2>1, <2>2, <2>3 DEF VisitStep
  <2> QED BY <2>4, VisitKeeps
<1>7. CASE ~hooksClosed /\ Looked.armed
  <2>1. /\ point' = [Looked EXCEPT !.in_flight = Looked.in_flight + 1]
        /\ visit' = [visit EXCEPT ![v] = [at |-> point.action, generation |-> point.generation]]
    BY <1>7 DEF Enter, At
  <2>2. [at |-> point.action, generation |-> point.generation] \in VisitState
    BY <1>1 DEF VisitState, Outside, Within
  <2>3. point.action \in Within /\ point.generation \in 1 .. point.generation /\ point.armed
    BY <1>1, <1>4, <1>7 DEF Within, PointMade
  <2>4. Looked.in_flight + 1 \in Int
    BY <1>1, <1>4
  <2>5. point' \in PointState
    BY <1>3, <2>1, <2>4, PointUpdates
  <2>6. /\ point'.generation = point.generation /\ point'.in_flight = point.in_flight + 1
        /\ point'.armed = Looked.armed
    BY <1>3, <1>4, <2>1 DEF PointState
  <2>7. VisitStep(v, [at |-> point.action, generation |-> point.generation])
    BY <1>2, <2>1, <2>2, <2>3, <2>5, <2>6 DEF VisitStep
  <2> QED BY <2>7, VisitKeeps
<1> QED BY <1>5, <1>6, <1>7

\* ThrowOnce claimed under the lock, or let pass.
LEMMA ThrowKeeps ==
  ASSUME HooksConstants, HooksInv, NEW v \in Visitor, Throw(v)
  PROVE  HooksInv'
<1>1. /\ HooksTypeOK /\ VisitMade(v) /\ point \in PointState /\ visit \in [Visitor -> VisitState]
      /\ point.in_flight \in Int
  BY DEF HooksInv, HooksTypeOK, PointState
<1>2. v \in Inside /\ hooksClosed' = hooksClosed /\ visit[v] \in VisitState
  BY <1>1 DEF Throw, Inside, Within
<1>3. \A p \in {"thrown", "let"} : /\ [visit[v] EXCEPT !.at = p] \in VisitState
                                   /\ [visit[v] EXCEPT !.at = p].at = p /\ p \in Within
                                   /\ [visit[v] EXCEPT !.at = p].generation = visit[v].generation
  BY <1>2 DEF VisitState, Within
<1>4. visit[v].generation \in 1 .. point.generation
  BY <1>1, <1>2 DEF VisitMade
<1>5. CASE Mine(v)
  <2>1. /\ visit' = [visit EXCEPT ![v] = [visit[v] EXCEPT !.at = "thrown"]]
        /\ point' = [point EXCEPT !.armed = FALSE]
        /\ thrown' = [thrown EXCEPT ![point.generation] = @ + 1] /\ point.armed
    BY <1>1, <1>5 DEF Throw, Leaving, Mine
  <2>2. point' \in PointState
    BY <1>1, <2>1, PointUpdates
  <2>3. /\ point'.generation = point.generation /\ point'.in_flight = point.in_flight
        /\ point'.armed = FALSE
    BY <1>1, <2>1 DEF PointState
  <2>4. VisitStep(v, [visit[v] EXCEPT !.at = "thrown"])
    BY <1>2, <1>3, <1>4, <2>1, <2>2, <2>3 DEF VisitStep
  <2> QED BY <2>4, VisitKeeps
<1>6. CASE ~Mine(v)
  <2>1. /\ visit' = [visit EXCEPT ![v] = [visit[v] EXCEPT !.at = "let"]]
        /\ point' = point /\ thrown' = thrown
    BY <1>1, <1>6 DEF Throw, Leaving
  <2>2. VisitStep(v, [visit[v] EXCEPT !.at = "let"])
    BY <1>1, <1>2, <1>3, <1>4, <2>1 DEF VisitStep
  <2> QED BY <2>2, VisitKeeps
<1> QED BY <1>5, <1>6

\* A slice of a pause, or its end.
LEMMA PauseKeeps ==
  ASSUME HooksConstants, HooksInv, NEW v \in Visitor, PauseSlice(v) \/ Recheck(v) \/ PauseEnds(v)
  PROVE  HooksInv'
<1>1. /\ HooksTypeOK /\ VisitMade(v) /\ point \in PointState /\ visit \in [Visitor -> VisitState]
      /\ point.armed \in BOOLEAN /\ point.expired \in BOOLEAN /\ point.in_flight \in Int
  BY DEF HooksInv, HooksTypeOK, PointState
<1>2. v \in Inside /\ hooksClosed' = hooksClosed /\ thrown' = thrown /\ visit[v] \in VisitState
  BY <1>1 DEF PauseSlice, Recheck, PauseEnds, Inside, Within
<1>3. \A p \in {"stopped", "let", "released"} : /\ [visit[v] EXCEPT !.at = p] \in VisitState
                                    /\ [visit[v] EXCEPT !.at = p].at = p /\ p \in Within
                                    /\ [visit[v] EXCEPT !.at = p].generation = visit[v].generation
  BY <1>2 DEF VisitState, Within
<1>4. visit[v].generation \in 1 .. point.generation
  BY <1>1, <1>2 DEF VisitMade
<1>5. Looked \in PointState
  BY <1>1, PointUpdates DEF Looked
<1>6. /\ Looked.armed = (point.armed /\ ~point.expired) /\ Looked.generation = point.generation
      /\ Looked.in_flight = point.in_flight
  BY <1>1 DEF Looked, PointState
<1>9. point' = point \/ point' = Looked
  BY DEF PauseSlice, Recheck, PauseEnds
<1>7. PICK p \in {"stopped", "let", "released"} : visit' = [visit EXCEPT ![v] = [visit[v] EXCEPT !.at = p]]
  BY <1>1 DEF PauseSlice, Recheck, PauseEnds, Leaving
<1>8. /\ point' \in PointState /\ point'.generation = point.generation
      /\ point'.in_flight = point.in_flight /\ (point'.armed => point.armed)
  BY <1>1, <1>5, <1>6, <1>9
<1>10. VisitStep(v, [visit[v] EXCEPT !.at = p])
  BY <1>2, <1>3, <1>4, <1>7, <1>8 DEF VisitStep
<1> QED BY <1>10, VisitKeeps

\* The destructor of Flight.
LEMMA LeaveKeeps ==
  ASSUME HooksConstants, HooksInv, NEW v \in Visitor, Leave(v)
  PROVE  HooksInv'
<1>1. /\ HooksTypeOK /\ point \in PointState /\ visit \in [Visitor -> VisitState]
      /\ point.in_flight \in Int
  BY DEF HooksInv, HooksTypeOK, PointState
<1>2. /\ v \in Inside /\ hooksClosed' = hooksClosed /\ thrown' = thrown /\ visit[v] \in VisitState
      /\ point' = [point EXCEPT !.in_flight = point.in_flight - 1]
  BY <1>1 DEF Leave, Inside, Within
<1>3. PICK p \in {"passed", "failed"} : visit' = [visit EXCEPT ![v] = [visit[v] EXCEPT !.at = p]]
  BY <1>1 DEF Leave
<1>4. /\ [visit[v] EXCEPT !.at = p] \in VisitState /\ [visit[v] EXCEPT !.at = p].at = p
      /\ p \in Outside /\ p \notin Within
  BY <1>2 DEF VisitState, Within, Outside
<1>5. point.in_flight - 1 \in Int
  BY <1>1
<1>6. point' \in PointState
  BY <1>1, <1>2, <1>5, PointUpdates
<1>7. /\ point'.generation = point.generation /\ point'.in_flight = point.in_flight - 1
      /\ point'.armed = point.armed
  BY <1>1, <1>2 DEF PointState
<1>8. VisitStep(v, [visit[v] EXCEPT !.at = p])
  BY <1>2, <1>3, <1>4, <1>6, <1>7 DEF VisitStep
<1> QED BY <1>8, VisitKeeps

-----------------------------------------------------------------------------
(***************************************************************************)
(* The checkpoints: the theorems.                                          *)
(***************************************************************************)

\* The inductive invariant of the checkpoints: the generation a coroutine brings back to the lock
\* was made, and one that threw is never armed again.
THEOREM HooksAlways ==
  ASSUME HooksConstants
  PROVE  HooksSpec => []HooksInv
<1>1. ASSUME HooksInv, [HooksNext]_hookVars PROVE HooksInv'
  <2>1. CASE UNCHANGED hookVars
    <3>1. HooksTypeOK' /\ PointMade'
      BY <1>1, <2>1 DEF hookVars, HooksInv, HooksTypeOK, PointMade
    <3>2. (\A v \in Visitor : VisitMade(v)') /\ FlightExact'
      BY <1>1, <2>1 DEF hookVars, HooksInv, VisitMade, FlightExact, Inside
    <3>3. \A g \in 1 .. MaxGeneration : ThrownOnce(g)'
      BY <1>1, <2>1 DEF hookVars, HooksInv, ThrownOnce
    <3> QED BY <3>1, <3>2, <3>3 DEF HooksInv
  <2>2. ASSUME NEW v \in Visitor, Enter(v) PROVE HooksInv'
    BY <1>1, <2>2, EnterKeeps
  <2>3. ASSUME NEW v \in Visitor, Throw(v) PROVE HooksInv'
    BY <1>1, <2>3, ThrowKeeps
  <2>4. ASSUME NEW v \in Visitor, PauseSlice(v) \/ Recheck(v) \/ PauseEnds(v) PROVE HooksInv'
    BY <1>1, <2>4, PauseKeeps
  <2>5. ASSUME NEW v \in Visitor, Leave(v) PROVE HooksInv'
    BY <1>1, <2>5, LeaveKeeps
  <2>6. CASE \/ \E a \in {"Pause", "ThrowOnce"} : Arm(a)
             \/ \E g \in 1 .. MaxGeneration : Clear(g)
             \/ Expires \/ CloseHooks
    BY <1>1, <2>6, RegistrationKeeps
  <2> QED BY <1>1, <2>1, <2>2, <2>3, <2>4, <2>5, <2>6 DEF HooksNext
<1>2. HooksInit => HooksInv
  BY HooksStart
<1> QED BY <1>1, <1>2, PTL DEF HooksSpec

\* A registration to throw once throws at most once, whatever replaces or clears it between the
\* two locks of Checkpoint; and in_flight counts exactly the coroutines that are inside.
THEOREM HooksCorrect ==
  ASSUME HooksConstants
  PROVE  HooksSpec => []HookExact
BY HooksAlways, HooksProperty, PTL
=============================================================================
