---------------------------------- MODULE MCPools ----------------------------------
(***************************************************************************)
(* The clients, each explored by itself: subject says which.  Two callers  *)
(* of an HTTP pool of two connections and two origins; two commands, one   *)
(* worker and a closer of a MongoDB owner; two calls on a redis client;    *)
(* three borrowers at a redis pool of two; an HTTP exchange from any of its*)
(* inputs.                                                                 *)
(***************************************************************************)
EXTENDS HttpPool, RedisClient, RedisPool, TLC

CONSTANTS
  Command, Worker, Closer, Starter, Strand, None, MaxCommands, Interims

VARIABLES
  subject,
  mongoClient, cliOpen, starting, handle, state, close, mongoPool, registry,
  ioDead, live, asleep, queue, stopping, mongoWaiters, waitersClosed, sealed,
  posted, mongoPhase, finished, outcome, mongoPc, woken, mongoResult, work,
  hand, tpc, todo, once, fin,
  input, prepared, exchangePc, exchangeClosed, wire, pending, interim,
  exchangePool, exchangeResult

\* The inputs of an exchange: every pair of a url and a base, of up to two client and
\* two request headers, a method that is refused, and every pair of timeouts.
MCPhase == {"read"}
Url(s, h, p, q) == [scheme |-> s, host |-> h, port |-> p, query |-> q]
Plain == Url("http", "v4", "absent", <<>>)
NoBase == Url("none", "none", "absent", <<>>)
Bare == [headers |-> <<>>, params |-> <<>>, timeout |-> [p \in MCPhase |-> "finite"]]
Inherits == [Bare EXCEPT !.timeout = [p \in MCPhase |-> "inherit"]]
Basic == [method |-> "GET", url |-> Plain, base |-> NoBase, client |-> Bare, request |-> Inherits]
Header == [name : {"host", "plain"}, value : {"v1", "v2"}]
Headers == UNION {[1..n -> Header] : n \in 0..2}
Urls == {Url(s, h, p, q) : s \in {"http", "https", "none"}, h \in {"v4", "v6", "name"},
                           p \in {"absent", "80", "8080", "bad"}, q \in {<<>>, <<"v1">>}}
MCInputs ==
  {[Basic EXCEPT !.url = u, !.base = b, !.request.params = <<"v2">>] :
     u \in Urls, b \in {NoBase, Plain}}
    \cup {[Basic EXCEPT !.client.headers = c, !.request.headers = r] : c, r \in Headers}
    \cup {[Basic EXCEPT !.method = "CONNECT"]}
    \cup {[Basic EXCEPT !.client.timeout = [p \in MCPhase |-> c],
                        !.request.timeout = [p \in MCPhase |-> r]] :
            c \in {"off", "finite", "bad"}, r \in {"inherit", "off", "finite", "bad"}}

M == INSTANCE MongoRuntime WITH
       client <- mongoClient, pool <- mongoPool, waiters <- mongoWaiters,
       phase <- mongoPhase, pc <- mongoPc, result <- mongoResult,
       Op <- Command, MaxQueue <- MaxCommands
X == INSTANCE HttpClient WITH
       pc <- exchangePc, closed <- exchangeClosed, pool <- exchangePool,
       result <- exchangeResult, Phase <- MCPhase, Inputs <- MCInputs

ASSUME PoolsConstants == PoolConstants /\ M!MongoConstants /\ RedisClientAssumption /\ RedisPoolAssumption /\ X!HttpClientAssumption

poolVars ==
  <<phase, inflight, pool, waiters, call, shut, drained>>
mongoVars ==
  <<mongoClient, cliOpen, starting, handle, state, close, mongoPool, registry,
    ioDead, live, asleep, queue, stopping, mongoWaiters, waitersClosed,
    sealed, posted, mongoPhase, finished, outcome, mongoPc, woken,
    mongoResult, work, hand, tpc, todo, once, fin>>
exchangeVars ==
  <<input, prepared, exchangePc, exchangeClosed, wire, pending, interim,
    exchangePool, exchangeResult>>

MCInit ==
  /\ subject \in {"pool", "mongo", "redis", "borrow", "exchange"}
  /\ subject = "mongo" \/ mongoClient = FALSE
  /\ subject = "exchange" \/ input = Basic
  /\ Init /\ M!Init /\ RedisInit /\ BorrowInit /\ X!Init

MCNext ==
  /\ UNCHANGED subject
  /\ \/ /\ subject = "pool"
        /\ UNCHANGED <<mongoVars, redisVars, borrowVars, exchangeVars>>
        /\ Next
     \/ /\ subject = "mongo"
        /\ UNCHANGED <<poolVars, redisVars, borrowVars, exchangeVars>>
        /\ M!Next
     \/ /\ subject = "redis"
        /\ UNCHANGED <<poolVars, mongoVars, borrowVars, exchangeVars>>
        /\ RedisNext
     \/ /\ subject = "borrow"
        /\ UNCHANGED <<poolVars, mongoVars, redisVars, exchangeVars>>
        /\ BorrowNext
     \/ /\ subject = "exchange"
        /\ UNCHANGED <<poolVars, mongoVars, redisVars, borrowVars>>
        /\ X!Next

MCSpec == MCInit /\ [][MCNext]_<<subject, poolVars, mongoVars, redisVars, borrowVars, exchangeVars>>

Symmetry == Permutations(Caller) \cup Permutations(Origin)

\* See MongoRuntime: each operation decided once, and nothing left when closed.
MongoExact ==
  /\ [](subject = "mongo" => M!ClosedMeansQuiet /\ M!RegistryExact /\ M!DrainNotMissed)
  /\ M!OneTerminal

\* See HttpClient: well formed on the wire, truthful to the caller.
ExchangeExact == subject = "exchange" => X!ExchangeExact
=============================================================================
