------------------------------ MODULE RedisPool ------------------------------
(***************************************************************************)
(* The redis connection pool (redis/CoRedisPool.cc): slots of clients, a   *)
(* FIFO of idle ones, a bounded FIFO of waiting callers to whom a returned *)
(* client is handed under the lock, slots retired when their stream broke, *)
(* and an explicit Connect that rebuilds exactly those.  A client is       *)
(* modelled by its number, in the order clients are built; 0 is none.      *)
(***************************************************************************)
EXTENDS Naturals, Sequences, SequencesExt, FiniteSets, Lists

CONSTANTS Borrower,       \* calls that borrow a client
          Size,         \* options.connections
          MaxWaiters,   \* options.max_waiters
          Builds        \* bound: clients ever built

\* What the parameters have to be; assumed wherever they are given values.
RedisPoolAssumption == Size \in Nat \ {0} /\ {MaxWaiters, Builds} \subseteq Nat

VARIABLES borrowClosed, ready, connecting,  \* the pool's bits
          slots,     \* slot -> its client and whether it is alive; none once closed
          available, \* FIFO of idle slots
          borrowWaiters,   \* FIFO of waiting callers
          caller,    \* caller -> where it is, the client it was handed or holds
          client,    \* client -> unborn, healthy, broken or closed
          build,     \* the one Connect that builds: where it is, its targets and clients
          sealing    \* Close's snapshot: clients to close, callers to notify

borrowVars == <<borrowClosed, ready, connecting, slots, available, borrowWaiters, caller, client, build, sealing>>
borrowBits == <<borrowClosed, ready, connecting>>

Slots == 1..Size
Clients == 1..Builds
NoClient == [client |-> 0, alive |-> FALSE]
NoBuild == [pc |-> "idle", targets |-> <<>>, made |-> <<>>]
Nothing == [clients |-> {}, callers |-> {}]
Free == [pc |-> "out", client |-> 0, slot |-> 0, woken |-> FALSE, full |-> FALSE]

BorrowTypes ==
  /\ {borrowClosed, ready, connecting} \subseteq BOOLEAN
  /\ DOMAIN slots \in {{}, Slots}
  /\ ToSet(available) \subseteq Slots /\ ToSet(borrowWaiters) \subseteq Borrower
  /\ Len(borrowWaiters) <= MaxWaiters
  /\ \A c \in Borrower : caller[c].pc \in {"out", "entering", "waiting", "ended", "holding", "returning", "retiring"}
  /\ client \in [Clients -> {"unborn", "healthy", "broken", "closed"}]
  /\ build.pc \in {"idle", "started", "building", "over"}

BorrowInit ==
  /\ borrowClosed = FALSE /\ ready = FALSE /\ connecting = FALSE
  /\ slots = <<>> /\ available = <<>> /\ borrowWaiters = <<>>
  /\ caller = [c \in Borrower |-> Free]
  /\ client = [k \in Clients |-> "unborn"]
  /\ build = NoBuild /\ sealing = Nothing

\* CoRedisCli::Close on each client of a set.
CloseAll(K) == [k \in Clients |-> IF k \in K THEN "closed" ELSE client[k]]

-----------------------------------------------------------------------------
(* Under the lock *)

TryTake == ~borrowClosed /\ ready /\ available # <<>>
Admit == MaxWaiters # 0 /\ Len(borrowWaiters) < MaxWaiters

\* Slip: the returned client goes to the idle ones although somebody waits.
RequeueIdle(C, S, W, A, k, i) ==
  [callers |-> C, waiters |-> W,
   available |-> IF k = 0 \/ i \notin DOMAIN S THEN A ELSE Append(A, i)]

\* A client goes back to its slot: handed to the first waiter, else idle; dropped when
\* the pool is closed or the slot has another client.
Requeue(C, S, W, A, k, i) ==
  IF borrowClosed \/ k = 0 \/ i \notin DOMAIN S \/ S[i].client # k
  THEN [callers |-> C, waiters |-> W, available |-> A]
  ELSE IF W # <<>>
  THEN [callers |-> [C EXCEPT ![Head(W)].client = k, ![Head(W)].slot = i, ![Head(W)].woken = TRUE],
        waiters |-> Tail(W), available |-> A]
  ELSE [callers |-> C, waiters |-> W, available |-> Append(A, i)]

Apply(r) == caller' = r.callers /\ borrowWaiters' = r.waiters /\ available' = r.available

-----------------------------------------------------------------------------
(* Connect *)

\* Nothing to do when every slot is alive; otherwise one Connect at a time builds.
ConnectStart ==
  /\ build.pc = "idle" /\ ~borrowClosed /\ ~connecting
  /\ ready => \E i \in Slots : ~slots[i].alive
  /\ slots' = IF slots = <<>> THEN [i \in Slots |-> NoClient] ELSE slots
  /\ connecting' = TRUE /\ build' = [build EXCEPT !.pc = "started"]
  /\ UNCHANGED <<borrowClosed, ready, available, borrowWaiters, caller, client, sealing>>

Dead == {i \in DOMAIN slots : ~slots[i].alive}

\* The dead slots in their order, read under a lock of its own.
Targets ==
  /\ build.pc = "started"
  /\ \E order \in [1..Cardinality(Dead) -> Dead] :
       /\ ToSet(order) = Dead /\ \A j, l \in DOMAIN order : j < l => order[j] < order[l]
       /\ build' = [build EXCEPT !.pc = "building", !.targets = order]
  /\ UNCHANGED <<borrowBits, slots, available, borrowWaiters, caller, client, sealing>>

Born == Cardinality({k \in Clients : client[k] # "unborn"})

\* One client per target; the first failure closes those built so far.
Build ==
  /\ build.pc = "building" /\ Len(build.made) < Len(build.targets)
  /\ \/ /\ Born < Builds
        /\ client' = [client EXCEPT ![Born + 1] = "healthy"]
        /\ build' = [build EXCEPT !.made = Append(@, Born + 1)]
     \/ /\ client' = CloseAll(ToSet(build.made))
        /\ build' = [build EXCEPT !.pc = "over", !.made = <<>>]
  /\ UNCHANGED <<borrowBits, slots, available, borrowWaiters, caller, sealing>>

\* The build, published or rolled back, is over: under a lock of its own another
\* Connect may start.
BuildOver ==
  /\ build.pc = "over"
  /\ connecting' = FALSE /\ build' = NoBuild
  /\ UNCHANGED <<borrowClosed, ready, slots, available, borrowWaiters, caller, client, sealing>>

\* The built clients take their slots.
Filled ==
  [i \in DOMAIN slots |->
     IF i \in ToSet(build.targets)
     THEN [client |-> build.made[CHOOSE j \in 1..Len(build.targets) : build.targets[j] = i],
           alive |-> TRUE]
     ELSE slots[i]]

\* In the order of the targets each is offered like a returned one.
Offered(S, n) ==
  LET after[j \in 0..n] ==
        IF j = 0 THEN [callers |-> caller, waiters |-> borrowWaiters, available |-> available]
        ELSE Requeue(after[j - 1].callers, S, after[j - 1].waiters, after[j - 1].available,
                     build.made[j], build.targets[j])
  IN  after[n]

Offer ==
  /\ slots' = Filled /\ ready' = TRUE /\ build' = [NoBuild EXCEPT !.pc = "over"]
  /\ Apply(Offered(Filled, Len(build.targets)))
  /\ UNCHANGED <<borrowClosed, connecting, client, sealing>>

\* Slip: the clients are published without a look at Close.
PublishBlindly ==
  build.pc = "building" /\ Len(build.made) = Len(build.targets) /\ Offer

\* All or nothing, unless Close came first.
Publish ==
  /\ build.pc = "building" /\ Len(build.made) = Len(build.targets)
  /\ \/ /\ borrowClosed
        /\ client' = CloseAll(ToSet(build.made))
        /\ build' = [build EXCEPT !.pc = "over", !.made = <<>>]
        /\ UNCHANGED <<borrowBits, slots, available, borrowWaiters, caller, sealing>>
     \/ ~borrowClosed /\ Offer

\* Close seals under the lock and takes everything out of the pool; the clients are
\* closed and the callers notified after it.
ClosePool ==
  /\ ~borrowClosed
  /\ borrowClosed' = TRUE /\ ready' = FALSE
  /\ sealing' = [clients |-> {slots[i].client : i \in DOMAIN slots} \ {0}, callers |-> ToSet(borrowWaiters)]
  /\ borrowWaiters' = <<>> /\ available' = <<>> /\ slots' = <<>>
  /\ UNCHANGED <<connecting, caller, client, build>>

CloseOutside ==
  /\ sealing # Nothing
  /\ client' = CloseAll(sealing.clients)
  /\ caller' = [c \in Borrower |-> IF c \in sealing.callers THEN [caller[c] EXCEPT !.woken = TRUE] ELSE caller[c]]
  /\ sealing' = Nothing
  /\ UNCHANGED <<borrowBits, slots, available, borrowWaiters, build>>

-----------------------------------------------------------------------------
(* A caller *)

Take(c, p) ==
  /\ caller' = [caller EXCEPT ![c].pc = p, ![c].client = slots[Head(available)].client,
                              ![c].slot = Head(available), ![c].woken = TRUE]
  /\ available' = Tail(available)

\* The fast path; a caller that is refused leaves at once.
AcquireClient(c) ==
  /\ caller[c].pc = "out" /\ ~borrowClosed /\ ready
  /\ \/ TryTake /\ Take(c, "holding")
     \/ ~TryTake /\ Admit /\ caller' = [caller EXCEPT ![c].pc = "entering"] /\ UNCHANGED available
  /\ UNCHANGED <<borrowBits, slots, borrowWaiters, client, build, sealing>>

\* The wait is registered, and everything is looked at again.
Register(c) ==
  /\ caller[c].pc = "entering"
  /\ \/ borrowClosed /\ caller' = [caller EXCEPT ![c].pc = "waiting", ![c].woken = TRUE]
        /\ UNCHANGED <<available, borrowWaiters>>
     \/ TryTake /\ Take(c, "waiting") /\ UNCHANGED borrowWaiters
     \/ /\ ~borrowClosed /\ ~TryTake /\ ~Admit
        /\ caller' = [caller EXCEPT ![c].pc = "waiting", ![c].woken = TRUE, ![c].full = TRUE]
        /\ UNCHANGED <<available, borrowWaiters>>
     \/ /\ ~borrowClosed /\ ~TryTake /\ Admit
        /\ caller' = [caller EXCEPT ![c].pc = "waiting"] /\ borrowWaiters' = Append(borrowWaiters, c)
        /\ UNCHANGED available
  /\ UNCHANGED <<borrowBits, slots, client, build, sealing>>

\* A deadline or a cancellation that precedes the notification, or a refused
\* registration, ends the wait.
WaitEnds(c) ==
  /\ caller[c].pc \in {"entering", "waiting"} /\ ~caller[c].woken
  /\ caller' = [caller EXCEPT ![c].pc = "ended"]
  /\ UNCHANGED <<borrowBits, slots, available, borrowWaiters, client, build, sealing>>

\* Slip: a caller whose wait ended forgets what it was handed meanwhile.
SettleForgetful(c) ==
  /\ caller[c].pc = "ended" \/ (caller[c].pc = "waiting" /\ caller[c].woken)
  /\ borrowWaiters' = Without(borrowWaiters, {c})
  /\ IF caller[c].pc = "waiting" /\ ~borrowClosed /\ ~caller[c].full /\ caller[c].client # 0
     THEN caller' = [caller EXCEPT ![c].pc = "holding"]
     ELSE caller' = [caller EXCEPT ![c] = Free]
  /\ UNCHANGED <<borrowBits, slots, available, client, build, sealing>>

\* Back under the lock: out of the queue; a client handed to a caller that cannot have
\* it any more goes on to the next one.
Settle(c) ==
  /\ caller[c].pc = "ended" \/ (caller[c].pc = "waiting" /\ caller[c].woken)
  /\ LET rest == Without(borrowWaiters, {c})
         leaves == [caller EXCEPT ![c] = Free]
     IN IF caller[c].pc = "waiting" /\ ~borrowClosed /\ ~caller[c].full /\ caller[c].client # 0
        THEN /\ caller' = [caller EXCEPT ![c].pc = "holding"]
             /\ borrowWaiters' = rest /\ UNCHANGED available
        ELSE Apply(Requeue(leaves, slots, rest, available, caller[c].client, caller[c].slot))
  /\ UNCHANGED <<borrowBits, slots, client, build, sealing>>

\* The borrowed client has run its command: a stream that is no longer healthy is
\* closed, a healthy client goes back.  The look is taken outside the lock.
GiveBackClient(c) ==
  /\ caller[c].pc = "holding"
  /\ IF client[caller[c].client] = "healthy"
     THEN caller' = [caller EXCEPT ![c].pc = "returning"] /\ UNCHANGED client
     ELSE /\ caller' = [caller EXCEPT ![c].pc = "retiring"]
          /\ client' = CloseAll({caller[c].client})
  /\ UNCHANGED <<borrowBits, slots, available, borrowWaiters, build, sealing>>

Return(c) ==
  /\ caller[c].pc = "returning"
  /\ Apply(Requeue([caller EXCEPT ![c] = Free], slots, borrowWaiters, available, caller[c].client, caller[c].slot))
  /\ UNCHANGED <<borrowBits, slots, client, build, sealing>>

\* Only a slot that still has this client is marked dead.
Retire(c) ==
  /\ caller[c].pc = "retiring"
  /\ slots' = [i \in DOMAIN slots |->
                 IF i = caller[c].slot /\ slots[i].client = caller[c].client
                 THEN [slots[i] EXCEPT !.alive = FALSE] ELSE slots[i]]
  /\ caller' = [caller EXCEPT ![c] = Free]
  /\ UNCHANGED <<borrowBits, available, borrowWaiters, client, build, sealing>>

\* A stream breaks, by a command that failed or by its peer.
Break(k) ==
  /\ client[k] = "healthy"
  /\ client' = [client EXCEPT ![k] = "broken"]
  /\ UNCHANGED <<borrowBits, slots, available, borrowWaiters, caller, build, sealing>>

BorrowNext ==
  \/ ConnectStart \/ Targets \/ Build \/ BuildOver \/ Publish \/ ClosePool \/ CloseOutside
  \/ \E c \in Borrower : \/ AcquireClient(c) \/ Register(c) \/ WaitEnds(c) \/ Settle(c)
                       \/ GiveBackClient(c) \/ Return(c) \/ Retire(c)
  \/ \E k \in Clients : Break(k)

BorrowSpec == BorrowInit /\ [][BorrowNext]_borrowVars

-----------------------------------------------------------------------------
Holders(k) == {c \in Borrower : caller[c].client = k}
Idle(k) == {n \in DOMAIN available : slots[available[n]].client = k}

\* Every client of a living slot is in exactly one place - idle, handed or borrowed -
\* and the client of a dead one in none: a return, a handoff to a caller that has given
\* up, a retirement and a repair lose no client and lend none twice.
PlacesExact ==
  \A i \in DOMAIN slots :
    LET k == slots[i].client IN
      /\ slots[i].alive => Cardinality(Holders(k)) + Cardinality(Idle(k)) = 1
      /\ ~slots[i].alive /\ k # 0 => Holders(k) = {} /\ Idle(k) = {}

\* Nobody waits while a client is idle.
BorrowersFirst == borrowWaiters # <<>> => available = <<>>

\* Once Close and a Connect it overtook are through, no client is open and no caller is
\* left waiting without having been woken.
CloseReachesClients ==
  borrowClosed /\ sealing = Nothing /\ build.pc = "idle" =>
    /\ \A k \in Clients : client[k] \in {"unborn", "closed"}
    /\ \A c \in Borrower : caller[c].pc = "waiting" => caller[c].woken

\* No client is lost, lent twice, kept from a waiter or forgotten by Close.
ClientsKept == BorrowTypes /\ PlacesExact /\ BorrowersFirst /\ CloseReachesClients
=============================================================================
