----------------------------- MODULE HttpServer -----------------------------
(***************************************************************************)
(* The HTTP/1.1 server (http/Server.cc): one accept task, one task per     *)
(* accepted connection, and native callers that stop, drain and close.     *)
(* A session is one accepted connection; a request is admitted under the   *)
(* same mutex that seals the server, and its responsibility covers the     *)
(* reply.  A streaming server pulls the reply from a source that Close     *)
(* cancels.  Deadlines and peers are choices; the bytes of a message are   *)
(* abstracted to whether the write was carried out.                        *)
(***************************************************************************)
EXTENDS Naturals, FiniteSets

CONSTANTS
  Session,         \* the connections peers open, one session each
  ServerCaller,    \* native threads calling the server's operations
  MaxConnections,  \* limits.max_connections
  MaxInflight,     \* limits.max_inflight
  Streaming        \* CreateStreaming rather than Create

\* What the parameters have to be; assumed wherever they are given values.
HttpServerAssumption ==
  /\ IsFiniteSet(Session) /\ IsFiniteSet(ServerCaller) /\ "acceptor" \notin ServerCaller
  /\ MaxConnections \in Nat \ {0} /\ MaxInflight \in Nat \ {0} /\ Streaming \in BOOLEAN

VARIABLES started, stopping, serverClosing, draining,   \* the server's four bits
          inflight, serverTasks,                        \* its two counters
          listed,     \* the sessions vector
          ses,        \* Session -> authorized, task_done, source, source_cancelled
          conn,       \* Session -> its connection, as the engine holds it
          serve,      \* Session -> where its task is
          acceptor,   \* the accept task: where it is and with which session
          serverListener,   \* the engine's accepting, up to AcceptingStopped
          todo,       \* Stop's caller -> sources collected and not yet cancelled
          caller,     \* ServerCaller -> where it is
          cancels,    \* ghost: Session -> Cancel calls its source received
          drained,    \* ghost: which draining calls have returned ok
          gone        \* ghost: a WaitStopped has returned ok

serverVars ==
  <<started, stopping, serverClosing, draining, inflight, serverTasks, listed, ses, conn, serve,
    acceptor, serverListener, todo, caller, cancels, drained, gone>>
bits == <<started, stopping, serverClosing, draining>>
ghosts == <<cancels, drained, gone>>

Stopper == ServerCaller \cup {"acceptor"}
Writes == {"reply", "buffer", "head", "chunk", "last"}
\* A write in the connection's hands, past the look at closing.
Flushing == [reply |-> "reply sent", buffer |-> "buffer sent", head |-> "head sent",
             chunk |-> "chunk sent", last |-> "last sent"]
NoTask == {"none", "over"}

ServerTypeOK ==
  /\ {started, stopping, serverClosing, draining, gone} \subseteq BOOLEAN
  /\ {inflight, serverTasks} \subseteq 0..(Cardinality(Session) + 1)
  /\ listed \subseteq Session
  /\ ses \in [Session -> [authorized : BOOLEAN, task_done : BOOLEAN,
                          source : BOOLEAN, source_cancelled : BOOLEAN]]
  /\ conn \in [Session -> {"away", "parked", "open", "asked", "released"}]
  /\ serve \in [Session -> NoTask \cup {"reading", "admitting", "handler", "registering",
                  "starting", "pulling", "cancelling", "cancelnow", "abandon", "settle", "leaving", "lease"}
                  \cup Writes \cup {Flushing[w] : w \in Writes}]
  /\ acceptor.pc \in NoTask \cup {"looking", "asking", "holding", "submit", "register", "drop",
                                "failing", "stopping", "lease"}
  /\ serverListener \in {"open", "stopping", "stopped"}
  /\ todo \in [Stopper -> SUBSET Session]
  /\ caller \in [ServerCaller -> {"idle", "submit", "register", "stop", "close", "seal", "cancel",
                            "cancelseal", "wait", "waitseal", "stopped"}]
  /\ drained \subseteq {"drain", "shutdown", "again"}

ServerInit ==
  /\ started = FALSE /\ stopping = FALSE /\ serverClosing = FALSE /\ draining = FALSE
  /\ inflight = 0 /\ serverTasks = 0
  /\ listed = {}
  /\ ses = [s \in Session |-> [authorized |-> FALSE, task_done |-> FALSE,
                               source |-> FALSE, source_cancelled |-> FALSE]]
  /\ conn = [s \in Session |-> "away"]
  /\ serve = [s \in Session |-> "none"]
  /\ acceptor = [pc |-> "none", at |-> {}]
  /\ serverListener = "open"
  /\ todo = [a \in Stopper |-> {}]
  /\ caller = [c \in ServerCaller |-> "idle"]
  /\ cancels = [s \in Session |-> 0]
  /\ drained = {}
  /\ gone = FALSE

-----------------------------------------------------------------------------
(* The engine's side of a connection. *)

\* RequestClose: a released connection stays so.
Asked(S) == [s \in Session |-> IF s \in S /\ conn[s] = "open" THEN "asked" ELSE conn[s]]

\* A peer connects; the engine parks the connection while it accepts.
Arrive(s) ==
  /\ conn[s] = "away" /\ serverListener = "open"
  /\ conn' = [conn EXCEPT ![s] = "parked"]
  /\ UNCHANGED <<bits, inflight, serverTasks, listed, ses, serve, acceptor, serverListener, todo,
                 caller, ghosts>>

\* The peer goes away, or the connection fails: the engine closes it by itself.
Lose(s) ==
  /\ conn[s] = "open"
  /\ conn' = Asked({s})
  /\ UNCHANGED <<bits, inflight, serverTasks, listed, ses, serve, acceptor, serverListener, todo,
                 caller, ghosts>>

\* A connection asked to close is released once the engine let go of it.
ReleaseConn(s) ==
  /\ conn[s] = "asked"
  /\ conn' = [conn EXCEPT ![s] = "released"]
  /\ UNCHANGED <<bits, inflight, serverTasks, listed, ses, serve, acceptor, serverListener, todo,
                 caller, ghosts>>

\* Accepting is over: what was parked and never taken is closed by the engine.
ListenerStops ==
  /\ serverListener = "stopping"
  /\ serverListener' = "stopped"
  /\ conn' = [s \in Session |-> IF conn[s] = "parked" THEN "released" ELSE conn[s]]
  /\ UNCHANGED <<bits, inflight, serverTasks, listed, ses, serve, acceptor, todo, caller, ghosts>>

-----------------------------------------------------------------------------
(* Stop, Submit, Sweep and the task lease, shared by every actor. *)

\* Sessions whose task is over and whose connection is gone.
Sweep == {s \in listed : ~(ses[s].task_done /\ conn[s] = "released")}

\* Slip: Close seals the server and closes the connections, and leaves the
\* sources that are running to find out by themselves.
StopQuietly(a, force) ==
  /\ stopping' = TRUE
  /\ serverClosing' = (serverClosing \/ force)
  /\ conn' = Asked({s \in listed : serverClosing' \/ ~ses[s].authorized})
  /\ todo' = todo
  /\ ses' = ses

\* Stop, under the mutex: seal, close what holds no request (everything when
\* closing), and collect each running source once.
Stop(a, force) ==
  LET reached == {s \in listed : serverClosing' /\ ses[s].source /\ ~ses[s].source_cancelled} IN
  /\ stopping' = TRUE
  /\ serverClosing' = (serverClosing \/ force)
  /\ conn' = Asked({s \in listed : serverClosing' \/ ~ses[s].authorized})
  /\ todo' = [todo EXCEPT ![a] = reached]
  /\ ses' = [s \in Session |-> IF s \in reached
                               THEN [ses[s] EXCEPT !.source_cancelled = TRUE] ELSE ses[s]]

\* Stop, after the mutex: cancel one collected source.
CancelCollected(a) ==
  \E s \in todo[a] :
    /\ cancels' = [cancels EXCEPT ![s] = @ + 1]
    /\ todo' = [todo EXCEPT ![a] = @ \ {s}]
    /\ UNCHANGED <<bits, inflight, serverTasks, listed, ses, conn, serve, acceptor, serverListener,
                   caller,
                   drained, gone>>

\* Stop's last step.
RequestStopAccepting ==
  serverListener' = IF serverListener = "open" THEN "stopping" ELSE serverListener

\* Submit's reservation: refused for good once the server is sealed.  The accept
\* task is submitted with no session (S = {}).
ReserveTask(S) ==
  IF stopping
  THEN /\ ses' = [s \in Session |-> IF s \in S THEN [ses[s] EXCEPT !.task_done = TRUE] ELSE ses[s]]
       /\ serverTasks' = serverTasks
  ELSE serverTasks' = serverTasks + 1 /\ ses' = ses

\* The last capture of a task is destroyed: only now is the task over.
EndLease(S) ==
  /\ serverTasks' = serverTasks - 1
  /\ ses' = [s \in Session |-> IF s \in S THEN [ses[s] EXCEPT !.task_done = TRUE] ELSE ses[s]]

-----------------------------------------------------------------------------
(* The accept task. *)

AcceptorAt(p, S) == acceptor' = [pc |-> p, at |-> S]

\* One turn: sweep, leave when sealed, wait while the physical places are full.
LookForRoom ==
  /\ acceptor.pc = "looking"
  /\ listed' = Sweep
  /\ AcceptorAt(IF stopping THEN "lease"
                ELSE IF Cardinality(listed') >= MaxConnections THEN "looking" ELSE "asking", {})
  /\ UNCHANGED <<bits, inflight, serverTasks, ses, conn, serve, serverListener, todo, caller, ghosts>>

\* CoAccept returns a connection, a timeout (look again) or an error (stop).
AskForConnection ==
  /\ acceptor.pc = "asking"
  /\ \/ \E s \in Session :
          /\ conn[s] = "parked"
          /\ conn' = [conn EXCEPT ![s] = "open"]
          /\ AcceptorAt("holding", {s})
     \/ AcceptorAt("looking", {}) /\ UNCHANGED conn
     \/ AcceptorAt("failing", {}) /\ UNCHANGED conn
  /\ UNCHANGED <<bits, inflight, serverTasks, listed, ses, serve, serverListener, todo, caller,
                 ghosts>>

\* The taken connection is listed; a server sealed meanwhile drops it at once.
Hold ==
  /\ acceptor.pc = "holding"
  /\ listed' = listed \cup acceptor.at
  /\ IF stopping
     THEN /\ conn' = Asked(acceptor.at)
          /\ ses' = [s \in Session |-> IF s \in acceptor.at
                                       THEN [ses[s] EXCEPT !.task_done = TRUE] ELSE ses[s]]
          /\ AcceptorAt("lease", {})
     ELSE AcceptorAt("submit", acceptor.at) /\ UNCHANGED <<conn, ses>>
  /\ UNCHANGED <<bits, inflight, serverTasks, serve, serverListener, todo, caller, ghosts>>

\* Submit for the session, then its registration with the scheduler.
SubmitSession ==
  /\ acceptor.pc = "submit"
  /\ ReserveTask(acceptor.at)
  /\ AcceptorAt(IF serverTasks' = serverTasks THEN "drop" ELSE "register", acceptor.at)
  /\ UNCHANGED <<bits, inflight, listed, conn, serve, serverListener, todo, caller, ghosts>>

RegisterSession ==
  /\ acceptor.pc = "register"
  /\ \/ /\ serve' = [s \in Session |-> IF s \in acceptor.at THEN "reading" ELSE serve[s]]
        /\ AcceptorAt("looking", {})
        /\ UNCHANGED <<serverTasks, ses>>
     \/ EndLease(acceptor.at) /\ AcceptorAt("drop", acceptor.at) /\ UNCHANGED serve
  /\ UNCHANGED <<bits, inflight, listed, conn, serverListener, todo, caller, ghosts>>

\* A session without a task gives its connection back.
DropSession ==
  /\ acceptor.pc = "drop"
  /\ conn' = Asked(acceptor.at)
  /\ AcceptorAt("looking", {})
  /\ UNCHANGED <<bits, inflight, serverTasks, listed, ses, serve, serverListener, todo, caller,
                 ghosts>>

\* An accept error (or an exception) stops the server from inside.
AcceptTaskFails ==
  /\ acceptor.pc = "failing"
  /\ Stop("acceptor", FALSE)
  /\ AcceptorAt("stopping", {})
  /\ UNCHANGED <<started, draining, inflight, serverTasks, listed, serve, serverListener, caller,
                 ghosts>>

AcceptStops ==
  /\ acceptor.pc = "stopping"
  /\ \/ CancelCollected("acceptor")
     \/ /\ todo["acceptor"] = {}
        /\ RequestStopAccepting
        /\ AcceptorAt("lease", {})
        /\ UNCHANGED <<bits, inflight, serverTasks, listed, ses, conn, serve, todo, caller, ghosts>>

AcceptEnds ==
  /\ acceptor.pc = "lease"
  /\ EndLease({})
  /\ AcceptorAt("over", {})
  /\ UNCHANGED <<bits, inflight, listed, conn, serve, serverListener, todo, caller, ghosts>>

-----------------------------------------------------------------------------
(* A session's task. *)

TaskAt(s, p) == serve[s] = p
TaskTo(s, p) == serve' = [serve EXCEPT ![s] = p]
Serving ==
  <<started, stopping, serverClosing, draining, serverTasks, listed, acceptor, serverListener,
    todo, caller, drained, gone>>

\* The read loop: it ends with a valid request, or with the session (seal, EOF,
\* error, timeout, malformed or unacceptable head).
Read(s) ==
  /\ TaskAt(s, "reading")
  /\ \/ conn[s] = "open" /\ ~stopping /\ TaskTo(s, "admitting")
     \/ TaskTo(s, "leaving")
  /\ UNCHANGED <<Serving, inflight, ses, conn, cancels>>

\* Slip: a request that was read before the seal is still served.
AdmitUnsealed(s) == inflight < MaxInflight

\* What the admission looks at, beside the request's own deadline.
Admissible(s) == ~stopping /\ inflight < MaxInflight

\* One lock decides: the request becomes a responsibility or the session ends.
Admit(s) ==
  /\ TaskAt(s, "admitting")
  /\ \/ /\ Admissible(s)
        /\ ses' = [ses EXCEPT ![s].authorized = TRUE]
        /\ inflight' = inflight + 1
        /\ TaskTo(s, "handler")
     \/ TaskTo(s, "leaving") /\ UNCHANGED <<ses, inflight>>
  /\ UNCHANGED <<Serving, conn, cancels>>

\* The handler answers with a response or, in a streaming server, with a source.
\* Once the total deadline is over the reply is given up, a source included.
Handle(s) ==
  /\ TaskAt(s, "handler")
  /\ \/ TaskTo(s, "reply")
     \/ Streaming /\ TaskTo(s, "registering")
     \/ TaskTo(s, "abandon")
  /\ UNCHANGED <<Serving, inflight, ses, conn, cancels>>

\* Slip: the source is registered without asking whether Close already passed.
RegisterBlindly(s) ==
  /\ TaskAt(s, "registering")
  /\ ses' = [ses EXCEPT ![s].source = TRUE]
  /\ cancels' = [cancels EXCEPT ![s] = 0]
  /\ TaskTo(s, "starting")
  /\ UNCHANGED <<Serving, inflight, conn>>

\* ServeStream registers the source; a Close that collected before sees it here.
RegisterSource(s) ==
  /\ TaskAt(s, "registering")
  /\ LET late == serverClosing /\ ~ses[s].source_cancelled IN
     /\ ses' = [ses EXCEPT ![s].source = TRUE, ![s].source_cancelled = @ \/ late]
     /\ TaskTo(s, IF late THEN "cancelnow" ELSE "starting")
  /\ cancels' = [cancels EXCEPT ![s] = 0]
  /\ UNCHANGED <<Serving, inflight, conn>>

\* The source's Start: an error is answered with 500, a buffered reply is written
\* whole, a stream begins with its head; what cannot be serialised is cancelled.
StartSource(s) ==
  /\ TaskAt(s, "starting")
  /\ \/ \E w \in {"reply", "buffer", "head"} : TaskTo(s, w)
     \/ TaskTo(s, "cancelling")
  /\ UNCHANGED <<Serving, inflight, ses, conn, cancels>>

\* The source's Next: a chunk, the end of the stream, or an error.
PullSource(s) ==
  /\ TaskAt(s, "pulling")
  /\ \/ \E w \in {"chunk", "last"} : TaskTo(s, w)
     \/ TaskTo(s, "cancelling")
  /\ UNCHANGED <<Serving, inflight, ses, conn, cancels>>

\* Where a write leads: the stream goes on after its head and its chunks, and a
\* source whose write failed is cancelled unless its stream was complete.
AfterWrite(w, done) ==
  IF done THEN IF w \in {"head", "chunk"} THEN "pulling" ELSE "settle"
  ELSE IF w \in {"reply", "last"} THEN "abandon" ELSE "cancelling"

\* Write asks whether the server is closing before each piece.
CheckWrite(s) ==
  \E w \in Writes :
    /\ TaskAt(s, w)
    /\ \/ ~serverClosing /\ TaskTo(s, Flushing[w])
       \/ TaskTo(s, AfterWrite(w, FALSE))
    /\ UNCHANGED <<Serving, inflight, ses, conn, cancels>>

\* The connection's write comes back.
Flush(s) ==
  \E w \in Writes, done \in BOOLEAN :
    /\ TaskAt(s, Flushing[w])
    /\ TaskTo(s, AfterWrite(w, done))
    /\ UNCHANGED <<Serving, inflight, ses, conn, cancels>>

\* CancelSource: whoever sets source_cancelled makes the one call.
CancelSource(s) ==
  /\ TaskAt(s, "cancelling")
  /\ ses' = [ses EXCEPT ![s].source_cancelled = TRUE]
  /\ TaskTo(s, IF ses[s].source_cancelled THEN "abandon" ELSE "cancelnow")
  /\ UNCHANGED <<Serving, inflight, conn, cancels>>

CancelNow(s) ==
  /\ TaskAt(s, "cancelnow")
  /\ cancels' = [cancels EXCEPT ![s] = @ + 1]
  /\ TaskTo(s, "abandon")
  /\ UNCHANGED <<Serving, inflight, ses, conn>>

\* A reply that was not sent seals the connection before it stops counting.
AbandonReply(s) ==
  /\ TaskAt(s, "abandon")
  /\ conn' = Asked({s})
  /\ TaskTo(s, "settle")
  /\ UNCHANGED <<Serving, inflight, ses, cancels>>

\* Slip: the reply's place is given back and the session keeps its authorisation.
SettleReplyAuthorized(s) ==
  /\ TaskAt(s, "settle")
  /\ ses' = [ses EXCEPT ![s].source = FALSE]
  /\ inflight' = inflight - 1
  /\ \/ conn[s] = "open" /\ ~stopping /\ TaskTo(s, "reading")
     \/ TaskTo(s, "leaving")
  /\ UNCHANGED <<Serving, conn, cancels>>

\* The responsibility ends; the connection is kept for the next request or left.
SettleReply(s) ==
  /\ TaskAt(s, "settle")
  /\ ses' = [ses EXCEPT ![s].authorized = FALSE, ![s].source = FALSE]
  /\ inflight' = inflight - 1
  /\ \/ conn[s] = "open" /\ ~stopping /\ TaskTo(s, "reading")
     \/ TaskTo(s, "leaving")
  /\ UNCHANGED <<Serving, conn, cancels>>

\* An exception (allocation, codec) leaves Serve from anywhere within a reply.
Throw(s) ==
  /\ serve[s] \in {"handler", "starting", "pulling"}
  /\ TaskTo(s, "leaving")
  /\ UNCHANGED <<Serving, inflight, ses, conn, cancels>>

\* The task's end: close the connection and settle what Serve left unsettled.
LeaveSession(s) ==
  /\ TaskAt(s, "leaving")
  /\ conn' = Asked({s})
  /\ ses' = [ses EXCEPT ![s].authorized = FALSE]
  /\ inflight' = IF ses[s].authorized THEN inflight - 1 ELSE inflight
  /\ TaskTo(s, "lease")
  /\ UNCHANGED <<Serving, cancels>>

EndTask(s) ==
  /\ TaskAt(s, "lease")
  /\ EndLease({s})
  /\ TaskTo(s, "over")
  /\ UNCHANGED <<bits, inflight, listed, conn, acceptor, serverListener, todo, caller, ghosts>>

SessionStep(s) ==
  \/ Read(s) \/ Admit(s) \/ Handle(s) \/ RegisterSource(s) \/ StartSource(s) \/ PullSource(s)
  \/ CheckWrite(s) \/ Flush(s) \/ CancelSource(s) \/ CancelNow(s) \/ AbandonReply(s) \/ SettleReply(s)
  \/ Throw(s) \/ LeaveSession(s) \/ EndTask(s)

-----------------------------------------------------------------------------
(* The native callers. *)

CallerAt(c, p) == caller' = [caller EXCEPT ![c] = p]
Calling == <<inflight, listed, serve, cancels>>

\* Start: once, and never after the seal; it submits the accept task.
StartServer(c) ==
  /\ caller[c] = "idle" /\ ~stopping /\ ~started
  /\ started' = TRUE
  /\ CallerAt(c, "submit")
  /\ UNCHANGED <<stopping, serverClosing, draining, serverTasks, ses, conn, acceptor,
                 serverListener, todo, drained,
                 gone, Calling>>

SubmitAccept(c) ==
  /\ caller[c] = "submit"
  /\ ReserveTask({})
  /\ CallerAt(c, IF serverTasks' = serverTasks THEN "stop" ELSE "register")
  /\ UNCHANGED <<bits, conn, acceptor, serverListener, todo, drained, gone, Calling>>

RegisterAccept(c) ==
  /\ caller[c] = "register"
  /\ \/ AcceptorAt("looking", {}) /\ CallerAt(c, "idle") /\ UNCHANGED <<serverTasks, ses>>
     \/ EndLease({}) /\ CallerAt(c, "stop") /\ UNCHANGED acceptor
  /\ UNCHANGED <<bits, conn, serverListener, todo, drained, gone, Calling>>

\* StopAccepting, Close and Shutdown enter Stop; a second Shutdown answers at
\* once, and a closed server answers with its reason.
Request(c) ==
  /\ caller[c] = "idle"
  /\ \/ \E p \in {"stop", "close"} : CallerAt(c, p) /\ UNCHANGED <<draining, drained>>
     \/ ~serverClosing /\ ~draining /\ draining' = TRUE /\ CallerAt(c, "seal") /\ UNCHANGED drained
     \/ /\ ~serverClosing /\ draining /\ inflight = 0
        /\ drained' = drained \cup {"again"}
        /\ UNCHANGED <<draining, caller>>
  /\ UNCHANGED <<started, stopping, serverClosing, serverTasks, ses, conn, acceptor,
                 serverListener, todo, gone,
                 Calling>>

StopCall(c) ==
  /\ caller[c] \in {"stop", "close", "seal"}
  /\ Stop(c, caller[c] = "close")
  /\ CallerAt(c, IF caller[c] = "seal" THEN "cancelseal" ELSE "cancel")
  /\ UNCHANGED <<started, draining, serverTasks, acceptor, serverListener, drained, gone, Calling>>

\* The sources are cancelled outside the mutex; then accepting is stopped.
StopFinishes(c) ==
  /\ caller[c] \in {"cancel", "cancelseal"}
  /\ \/ CancelCollected(c)
     \/ /\ todo[c] = {}
        /\ RequestStopAccepting
        /\ CallerAt(c, IF caller[c] = "cancel" THEN "idle" ELSE "waitseal")
        /\ UNCHANGED <<bits, serverTasks, ses, conn, acceptor, todo, drained, gone, Calling>>

\* Drain and WaitStopped are refused before the seal.
Wait(c) ==
  /\ caller[c] = "idle" /\ stopping
  /\ \E p \in {"wait", "stopped"} : CallerAt(c, p)
  /\ UNCHANGED <<bits, serverTasks, ses, conn, acceptor, serverListener, todo, drained, gone,
                 Calling>>

\* Drain and Shutdown wait for the last responsibility, for Close or for time.
Drained(c) ==
  /\ caller[c] \in {"wait", "waitseal"}
  /\ drained' = IF inflight = 0
                THEN drained \cup {IF caller[c] = "wait" THEN "drain" ELSE "shutdown"} ELSE drained
  /\ CallerAt(c, "idle")
  /\ UNCHANGED <<bits, serverTasks, ses, conn, acceptor, serverListener, todo, gone, Calling>>

\* WaitStopped: no task, no session with a live connection, accepting confirmed.
Stopped(c) ==
  /\ caller[c] = "stopped"
  /\ listed' = Sweep
  /\ gone' = (gone \/ (serverTasks = 0 /\ listed' = {} /\ serverListener = "stopped"))
  /\ CallerAt(c, "idle")
  /\ UNCHANGED <<bits, inflight, serverTasks, ses, conn, serve, acceptor, serverListener, todo,
                 cancels, drained>>

ServerCallerStep(c) ==
  \/ StartServer(c) \/ SubmitAccept(c) \/ RegisterAccept(c) \/ Request(c) \/ StopCall(c)
  \/ StopFinishes(c) \/ Wait(c) \/ Drained(c) \/ Stopped(c)

AcceptorStep ==
  \/ LookForRoom \/ AskForConnection \/ Hold \/ SubmitSession \/ RegisterSession \/ DropSession
  \/ AcceptTaskFails \/ AcceptStops \/ AcceptEnds

ServerNext ==
  \/ \E s \in Session : Arrive(s) \/ Lose(s) \/ ReleaseConn(s) \/ SessionStep(s)
  \/ ListenerStops
  \/ AcceptorStep
  \/ \E c \in ServerCaller : ServerCallerStep(c)

ServerSpec == ServerInit /\ [][ServerNext]_serverVars

-----------------------------------------------------------------------------
(* Properties. *)

Working == {s \in Session : serve[s] \notin NoTask}

\* The two counters are exact and bounded: inflight counts the admitted requests
\* whose reply is not settled, tasks the leases that are alive, and connections
\* that are not released never exceed max_connections.
InflightExact ==
  /\ inflight = Cardinality({s \in Session : ses[s].authorized})
  /\ inflight <= MaxInflight
  /\ serverTasks = Cardinality(Working) + Cardinality({x \in {1} : acceptor.pc \notin NoTask})
             + Cardinality({x \in {1} : acceptor.pc = "register"})
             + Cardinality({c \in ServerCaller : caller[c] = "register"})
  /\ Cardinality({s \in Session : conn[s] \in {"open", "asked"}}) <= MaxConnections

\* A Drain or a sealing Shutdown that returned ok is final (no request is admitted
\* or settled afterwards), and so is WaitStopped: no task, session or accept comes
\* back to life.
StopIsFinal ==
  /\ drained \cap {"drain", "shutdown"} # {} => stopping /\ inflight = 0
  /\ gone => /\ serverTasks = 0 /\ inflight = 0 /\ Sweep = {} /\ serverListener = "stopped"
             /\ \A s \in Session : conn[s] \notin {"open", "asked"}

\* The server's counters tell its sessions, until a stop that is final.
SessionsExact == ServerTypeOK /\ InflightExact /\ StopIsFinal

\* Close reaches every source that runs: it is marked, the mark has exactly one
\* caller that makes the one Cancel call, and no source is cancelled twice.
CloseReachesSources ==
  \A s \in Session :
    /\ cancels[s] <= 1
    /\ serverClosing /\ s \in listed /\ ses[s].source => ses[s].source_cancelled
    /\ ses[s].source /\ ses[s].source_cancelled =>
         cancels[s] + Cardinality({a \in Stopper : s \in todo[a]})
           + Cardinality({x \in {1} : serve[s] = "cancelnow"}) = 1

\* What Server.hpp says of Shutdown: ok means that the server is drained, for a
\* repeated call too.
AgainIsFinal == "again" \in drained => inflight = 0
=============================================================================
