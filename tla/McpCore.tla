------------------------------ MODULE McpCore ------------------------------
(***************************************************************************)
(* The core of the MCP server: the places that bound the requests in       *)
(* flight, the owner that gives each request one terminal state, the       *)
(* subscriptions, which keep a place after their request has returned, and *)
(* Close, which seals all of them.  Frames of one session may be handled   *)
(* concurrently, and a cancel is a frame of its own that needs no place.   *)
(*                                                                         *)
(* A step is one critical section or one call of a sink or a handler.  The *)
(* body of a request is reduced to how it is dispatched (its kind); sinks  *)
(* stay mounted, and each canceller and each session's teardown acts once. *)
(***************************************************************************)
EXTENDS Naturals, FiniteSets, SequencesExt

CONSTANTS
  Frame,        \* requests that may arrive
  Cancel,       \* cancelled notifications that may arrive
  Session,      \* sessions
  Id,           \* request ids as the clients choose them
  MaxInflight,  \* ServerOptions::max_inflight_requests
  MaxPublish    \* bound on PublishResourceChanged

\* What the parameters have to be; assumed wherever they are given values.
McpAssumption == MaxInflight \in Nat \ {0} /\ MaxPublish \in Nat

VARIABLES
  started, closed,
  inflight,   \* places in use
  accepted,   \* sessions whose initialize was accepted
  frame,      \* per request: where it stands, its kind, session, id, terminal
              \* state and answers
  owners,     \* requests registered as in flight
  subs,       \* subscriptions in token order, by their listen request
  acked,      \* subscriptions whose acknowledgement was marked sent
  heard,      \* what each subscription's sink was given, in order
  cancel,     \* per canceller: where it stands, whom it names, what it took
  draining,   \* subscriptions taken by Close whose places are not back yet
  leaving,    \* per session torn down: the subscriptions it took
  ended,      \* and how many of them have been told of the end
  publisher,  \* whether somebody publishes a change and saw the server open
  publishing, \* subscriptions still to be told of the current change
  published

mcpVars == <<started, closed, inflight, accepted, frame, owners, subs, acked,
             heard, cancel, draining, leaving, ended, publisher, publishing,
             published>>

Kind == {"plain", "initialize", "legacy", "modern", "listen"}
Terminal == {"none", "completed", "cancelled", "timedOut", "closed"}

\* Requests and subscriptions that hold a place.
HasPlace == {"admitted", "dispatched", "gate", "running", "listening", "joining", "inserted",
             "told", "produced", "commit", "settling", "retiring", "releasing"}
PlacesOf(f) == (IF frame[f].pc \in HasPlace THEN 1 ELSE 0)
             + (IF frame[f].pc = "joining" THEN 1 ELSE 0)

SumPlaces == FoldSet(LAMBDA f, n : n + PlacesOf(f), 0, Frame)
SumLeaving == FoldSet(LAMBDA s, n : n + Len(leaving[s]), 0, Session)

McpInit ==
  /\ started = FALSE /\ closed = FALSE /\ inflight = 0 /\ accepted = {}
  /\ frame \in [Frame -> [pc : {"idle"}, kind : Kind, session : Session, id : Id,
                          terminal : {"none"}, answers : {<<>>}]]
  /\ owners = {} /\ subs = <<>> /\ acked = {}
  /\ heard = [f \in Frame |-> <<>>]
  /\ cancel \in [Cancel -> [pc : {"idle"}, session : Session, id : Id, entry : {<<>>},
                            victims : {{}}]]
  /\ draining = 0 /\ leaving = [s \in Session |-> <<>>] /\ ended = [s \in Session |-> 0]
  /\ publisher = "idle" /\ publishing = <<>> /\ published = 0

-----------------------------------------------------------------------------
Same(f, s, i) == frame[f].session = s /\ frame[f].id = i
Tell(f, what) == heard' = [heard EXCEPT ![f] = Append(@, what)]

\* A terminal state is taken once: who comes second leaves it alone.
TryFinish(F, kind) ==
  [f \in Frame |-> IF f \in F /\ frame[f].terminal = "none"
                     THEN [frame[f] EXCEPT !.terminal = kind] ELSE frame[f]]

Start ==
  /\ ~started /\ ~closed /\ started' = TRUE
  /\ UNCHANGED <<closed, inflight, accepted, frame, owners, subs, acked, heard,
                 cancel, draining, leaving, ended, publisher, publishing,
                 published>>

\* A request takes a place; without one it is refused and nothing is kept.
Admit(f) ==
  /\ frame[f].pc = "idle"
  /\ LET ok == started /\ ~closed /\ inflight < MaxInflight
     IN /\ inflight' = IF ok THEN inflight + 1 ELSE inflight
        /\ frame' = [frame EXCEPT ![f].pc = IF ok THEN "admitted" ELSE "refused"]
  /\ UNCHANGED <<started, closed, accepted, owners, subs, acked, heard, cancel,
                 draining, leaving, ended, publisher, publishing, published>>

\* One request per session and id: looked up and entered under one lock.
RegisterRequestOwner(f) ==
  /\ frame[f].pc = "admitted"
  /\ IF \E g \in owners : Same(g, frame[f].session, frame[f].id)
       THEN /\ frame' = [frame EXCEPT ![f].pc = "releasing",
                                      ![f].answers = Append(@, "duplicate")]
            /\ UNCHANGED owners
       ELSE /\ frame' = [frame EXCEPT ![f].pc = "dispatched"]
            /\ owners' = owners \cup {f}
  /\ UNCHANGED <<started, closed, inflight, accepted, subs, acked, heard,
                 cancel, draining, leaving, ended, publisher, publishing,
                 published>>

\* A valid initialize is accepted in one critical section of the session.
HandleInitialize(f) ==
  accepted' = IF frame[f].kind = "initialize" THEN accepted \cup {frame[f].session} ELSE accepted

\* Which requests reach a handler: a modern one carries its own envelope, a
\* legacy one needs the initialize of its session.
ToHandler(f) ==
  \/ frame[f].kind = "modern"
  \/ frame[f].kind = "legacy" /\ frame[f].session \in accepted

\* A listen whose id has a live subscription of the session is turned away.
ToListen(f) ==
  /\ frame[f].kind = "listen"
  /\ ~\E n \in DOMAIN subs : Same(subs[n], frame[f].session, frame[f].id)

Dispatch(f) ==
  /\ frame[f].pc = "dispatched"
  /\ frame' = [frame EXCEPT ![f].pc = IF ToHandler(f) THEN "gate"
                                     ELSE IF ToListen(f) THEN "listening" ELSE "produced"]
  /\ HandleInitialize(f)
  /\ UNCHANGED <<started, closed, inflight, owners, subs, acked, heard, cancel,
                 draining, leaving, ended, publisher, publishing, published>>

\* The gate before a handler and Close exclude each other.
EnterCallback(f) ==
  /\ frame[f].pc = "gate"
  /\ frame' = [frame EXCEPT ![f].pc = IF closed THEN "settling" ELSE "running"]
  /\ UNCHANGED <<started, closed, inflight, accepted, owners, subs, acked,
                 heard, cancel, draining, leaving, ended, publisher,
                 publishing, published>>

HandlerReturns(f) ==
  /\ frame[f].pc = "running"
  /\ frame' = [frame EXCEPT ![f].pc = "produced"]
  /\ UNCHANGED <<started, closed, inflight, accepted, owners, subs, acked,
                 heard, cancel, draining, leaving, ended, publisher,
                 publishing, published>>

-----------------------------------------------------------------------------
\* Slip: no limit for a subscription.
AdmitUnlimited(f) ==
  /\ frame[f].pc = "listening"
  /\ inflight' = IF closed THEN inflight ELSE inflight + 1
  /\ frame' = [frame EXCEPT ![f].pc = IF closed THEN "settling" ELSE "joining"]
  /\ UNCHANGED <<started, closed, accepted, owners, subs, acked, heard, cancel,
                 draining, leaving, ended, publisher, publishing, published>>

\* A listen takes a second place for the subscription while it holds its own.
AdmitForSubscription(f) ==
  /\ frame[f].pc = "listening"
  /\ LET ok == ~closed /\ inflight <= MaxInflight
     IN /\ inflight' = IF ok THEN inflight + 1 ELSE inflight
        /\ frame' = [frame EXCEPT ![f].pc = IF ok THEN "joining" ELSE "settling"]
  /\ UNCHANGED <<started, closed, accepted, owners, subs, acked, heard, cancel,
                 draining, leaving, ended, publisher, publishing, published>>

InsertSubscription(f) ==
  /\ frame[f].pc = "joining"
  /\ subs' = Append(subs, f)
  /\ frame' = [frame EXCEPT ![f].pc = "inserted"]
  /\ UNCHANGED <<started, closed, inflight, accepted, owners, acked, heard,
                 cancel, draining, leaving, ended, publisher, publishing,
                 published>>

EmitAck(f) ==
  /\ frame[f].pc = "inserted"
  /\ Tell(f, "ack")
  /\ frame' = [frame EXCEPT ![f].pc = "told"]
  /\ UNCHANGED <<started, closed, inflight, accepted, owners, subs, acked,
                 cancel, draining, leaving, ended, publisher, publishing,
                 published>>

\* The entry is looked up again: it may have been removed meanwhile.
MarkAcked(f) ==
  /\ frame[f].pc = "told"
  /\ acked' = IF Contains(subs, f) THEN acked \cup {f} ELSE acked
  /\ frame' = [frame EXCEPT ![f].pc = "settling"]
  /\ UNCHANGED <<started, closed, inflight, accepted, owners, subs, heard,
                 cancel, draining, leaving, ended, publisher, publishing,
                 published>>

-----------------------------------------------------------------------------
\* Slip: the seal is not looked at.
PassOn(f) ==
  /\ frame[f].pc = "produced"
  /\ frame' = [frame EXCEPT ![f].pc = "commit"]
  /\ UNCHANGED <<started, closed, inflight, accepted, owners, subs, acked,
                 heard, cancel, draining, leaving, ended, publisher,
                 publishing, published>>

\* Nothing is answered once the server is sealed.
Sealed(f) ==
  /\ frame[f].pc = "produced"
  /\ frame' = IF closed
                THEN [TryFinish({f}, "closed") EXCEPT ![f].pc = "retiring"]
                ELSE [frame EXCEPT ![f].pc = "commit"]
  /\ UNCHANGED <<started, closed, inflight, accepted, owners, subs, acked,
                 heard, cancel, draining, leaving, ended, publisher,
                 publishing, published>>

\* Slip: the answer goes out whoever took the terminal state.
CommitAlways(f) ==
  /\ frame[f].pc = "commit"
  /\ frame' = [TryFinish({f}, "completed") EXCEPT ![f].pc = "retiring",
                                                   ![f].answers = Append(@, "result")]
  /\ UNCHANGED <<started, closed, inflight, accepted, owners, subs, acked,
                 heard, cancel, draining, leaving, ended, publisher,
                 publishing, published>>

\* The answer goes to whoever takes the terminal state; a deadline that has
\* passed takes it first.
Commit(f) ==
  /\ frame[f].pc = "commit"
  /\ \E late \in BOOLEAN :
       frame' =
         [TryFinish({f}, IF late THEN "timedOut" ELSE "completed") EXCEPT
            ![f].pc = "retiring",
            ![f].answers = IF frame[f].terminal # "none" THEN @
                           ELSE Append(@, IF late THEN "deadline" ELSE "result")]
  /\ UNCHANGED <<started, closed, inflight, accepted, owners, subs, acked,
                 heard, cancel, draining, leaving, ended, publisher,
                 publishing, published>>

\* A request without an answer is finished too.
Settle(f) ==
  /\ frame[f].pc = "settling"
  /\ frame' = [TryFinish({f}, "completed") EXCEPT ![f].pc = "retiring"]
  /\ UNCHANGED <<started, closed, inflight, accepted, owners, subs, acked,
                 heard, cancel, draining, leaving, ended, publisher,
                 publishing, published>>

RetireOwner(f) ==
  /\ frame[f].pc = "retiring"
  /\ owners' = owners \ {f}
  /\ frame' = [frame EXCEPT ![f].pc = "releasing"]
  /\ UNCHANGED <<started, closed, inflight, accepted, subs, acked, heard,
                 cancel, draining, leaving, ended, publisher, publishing,
                 published>>

Release(f) ==
  /\ frame[f].pc = "releasing"
  /\ inflight' = inflight - 1
  /\ frame' = [frame EXCEPT ![f].pc = "done"]
  /\ UNCHANGED <<started, closed, accepted, owners, subs, acked, heard, cancel,
                 draining, leaving, ended, publisher, publishing, published>>

-----------------------------------------------------------------------------
\* A cancel of its session and id: the subscription first, then the request.
EndSubscription(c) ==
  /\ cancel[c].pc = "idle"
  /\ LET mine == SelectInSeq(subs, LAMBDA f : Same(f, cancel[c].session, cancel[c].id))
     IN IF mine = 0
          THEN cancel' = [cancel EXCEPT ![c].pc = "aborting"] /\ UNCHANGED subs
          ELSE /\ cancel' = [cancel EXCEPT ![c].pc = "ending", ![c].entry = <<subs[mine]>>]
               /\ subs' = RemoveAt(subs, mine)
  /\ UNCHANGED <<started, closed, inflight, accepted, frame, owners, acked,
                 heard, draining, leaving, ended, publisher, publishing,
                 published>>

\* The end of the flow is told outside the lock, then the place comes back.
CancelTellsEnd(c) ==
  /\ cancel[c].pc = "ending"
  /\ Tell(Head(cancel[c].entry), "end")
  /\ cancel' = [cancel EXCEPT ![c].pc = "releasing"]
  /\ UNCHANGED <<started, closed, inflight, accepted, frame, owners, subs,
                 acked, draining, leaving, ended, publisher, publishing,
                 published>>

CancelReleases(c) ==
  /\ cancel[c].pc = "releasing"
  /\ inflight' = inflight - 1
  /\ cancel' = [cancel EXCEPT ![c].pc = "aborting", ![c].entry = <<>>]
  /\ UNCHANGED <<started, closed, accepted, frame, owners, subs, acked, heard,
                 draining, leaving, ended, publisher, publishing, published>>

\* The requests of the session and id leave the table under its lock,
CancelInflightForSession(c) ==
  /\ cancel[c].pc = "aborting"
  /\ LET victims == {f \in owners : Same(f, cancel[c].session, cancel[c].id)}
     IN /\ owners' = owners \ victims
        /\ cancel' = [cancel EXCEPT ![c].pc = "finishing", ![c].victims = victims]
  /\ UNCHANGED <<started, closed, inflight, accepted, frame, subs, acked, heard,
                 draining, leaving, ended, publisher, publishing, published>>

\* and are finished outside it, unless they have finished meanwhile.
FinishCancelled(c) ==
  /\ cancel[c].pc = "finishing"
  /\ frame' = TryFinish(cancel[c].victims, "cancelled")
  /\ cancel' = [cancel EXCEPT ![c].pc = "done", ![c].victims = {}]
  /\ UNCHANGED <<started, closed, inflight, accepted, owners, subs, acked, heard,
                 draining, leaving, ended, publisher, publishing, published>>

\* The transport of session s goes away and ends its subscriptions.
EndAllSubscriptions(s) ==
  /\ LET mine == SelectSeq(subs, LAMBDA f : frame[f].session = s)
     IN mine # <<>> /\ leaving[s] = <<>> /\ leaving' = [leaving EXCEPT ![s] = mine]
  /\ subs' = SelectSeq(subs, LAMBDA f : frame[f].session # s)
  /\ UNCHANGED <<started, closed, inflight, accepted, frame, owners, acked,
                 heard, cancel, draining, ended, publisher, publishing, published>>

\* Each of them is told outside the lock,
EndNext(s) ==
  /\ ended[s] < Len(leaving[s])
  /\ Tell(leaving[s][ended[s] + 1], "end")
  /\ ended' = [ended EXCEPT ![s] = @ + 1]
  /\ UNCHANGED <<started, closed, inflight, accepted, frame, owners, subs, acked,
                 cancel, draining, leaving, publisher, publishing, published>>

\* and their places come back when the list dies.
LeavingDies(s) ==
  /\ leaving[s] # <<>> /\ ended[s] = Len(leaving[s])
  /\ leaving' = [leaving EXCEPT ![s] = Tail(@)] /\ ended' = [ended EXCEPT ![s] = @ - 1]
  /\ inflight' = inflight - 1
  /\ UNCHANGED <<started, closed, accepted, frame, owners, subs, acked, heard,
                 cancel, draining, publisher, publishing, published>>

\* Close seals, takes the subscriptions and finishes every registered request.
Close ==
  /\ ~closed /\ closed' = TRUE
  /\ draining' = Len(subs) /\ subs' = <<>>
  /\ frame' = TryFinish(owners, "closed") /\ owners' = {}
  /\ UNCHANGED <<started, inflight, accepted, acked, heard, cancel, leaving,
                 ended, publisher, publishing, published>>

CloseReleases ==
  /\ draining > 0
  /\ draining' = draining - 1 /\ inflight' = inflight - 1
  /\ UNCHANGED <<started, closed, accepted, frame, owners, subs, acked, heard,
                 cancel, leaving, ended, publisher, publishing, published>>

\* A publisher looks at the seal first, under a lock of its own;
FindOpen ==
  /\ started /\ ~closed /\ published < MaxPublish /\ publisher = "idle" /\ publishing = <<>>
  /\ publisher' = "open" /\ published' = published + 1
  /\ UNCHANGED <<started, closed, inflight, accepted, frame, owners, subs, acked,
                 heard, cancel, draining, leaving, ended, publishing>>

\* Slip: subscriptions that were not acknowledged are told as well.
PublishToAll ==
  /\ publisher = "open" /\ publisher' = "idle"
  /\ publishing' = subs
  /\ UNCHANGED <<started, closed, inflight, accepted, frame, owners, subs, acked,
                 heard, cancel, draining, leaving, ended, published>>

\* a change of a resource then goes to the acknowledged subscriptions; the list is
\* taken under the lock and the sinks are called after it.
PublishResourceChanged ==
  /\ publisher = "open" /\ publisher' = "idle"
  /\ publishing' = SelectSeq(subs, LAMBDA f : f \in acked)
  /\ UNCHANGED <<started, closed, inflight, accepted, frame, owners, subs, acked,
                 heard, cancel, draining, leaving, ended, published>>

DeliverUpdate ==
  /\ publishing # <<>>
  /\ Tell(Head(publishing), "update") /\ publishing' = Tail(publishing)
  /\ UNCHANGED <<started, closed, inflight, accepted, frame, owners, subs,
                 acked, cancel, draining, leaving, ended, publisher, published>>

McpNext ==
  \/ Start \/ Close \/ CloseReleases \/ FindOpen \/ PublishResourceChanged \/ DeliverUpdate
  \/ \E f \in Frame :
       \/ Admit(f) \/ RegisterRequestOwner(f) \/ Dispatch(f) \/ EnterCallback(f) \/ HandlerReturns(f)
       \/ AdmitForSubscription(f) \/ InsertSubscription(f) \/ EmitAck(f) \/ MarkAcked(f)
       \/ Sealed(f) \/ Commit(f) \/ Settle(f) \/ RetireOwner(f) \/ Release(f)
  \/ \E c \in Cancel :
       \/ EndSubscription(c) \/ CancelTellsEnd(c) \/ CancelReleases(c)
       \/ CancelInflightForSession(c) \/ FinishCancelled(c)
  \/ \E s \in Session : EndAllSubscriptions(s) \/ EndNext(s) \/ LeavingDies(s)

McpSpec == McpInit /\ [][McpNext]_mcpVars

-----------------------------------------------------------------------------
\* Every place in use has one holder, a request, a subscription or somebody who
\* is about to give the place of a subscription back, and the limit is exceeded
\* by one place at most, for the moment in which a listen holds two (Admission
\* moves with the entry; Registry.cc:1350-1353).
PlacesExact ==
  /\ inflight = SumPlaces + Len(subs) + draining
              + Cardinality({c \in Cancel : cancel[c].pc \in {"ending", "releasing"}})
              + SumLeaving
  /\ inflight <= MaxInflight + 1

\* A request is answered at most once, only by whoever took its terminal state,
\* and never after a cancel or Close took it; requests of one session in flight
\* under one id, neither cancelled nor sealed, are one (Registry.cc:1510-1518).
AnswersExact ==
  /\ \A f \in Frame :
       /\ Len(frame[f].answers) <= 1
       /\ Contains(frame[f].answers, "result") => frame[f].terminal = "completed"
       /\ Contains(frame[f].answers, "deadline") => frame[f].terminal = "timedOut"
       /\ frame[f].pc = "done" /\ frame[f].answers = <<>> => frame[f].terminal # "none"
  /\ \A f, g \in owners : Same(f, frame[g].session, frame[g].id) => f = g

Taken(f) == \E c \in Cancel : f \in cancel[c].victims

\* Close is a line: after it no handler starts and no request is answered, but
\* for a duplicate that was turned away before its body was looked at, and for
\* one that a cancel has taken out of Close's reach and not finished yet
\* (EnterCallback, Sealed and TryFinish; Registry.cc:323-336, 619-625).
ClosedIsSilent ==
  [][closed => \A f \in Frame :
       /\ frame'[f].pc = "running" => frame[f].pc = "running"
       /\ frame'[f].answers # frame[f].answers =>
            Last(frame'[f].answers) = "duplicate" \/ Taken(f)]_mcpVars

\* Nothing at all is answered after the seal, but for duplicates ("no response
\* after the seal"; Registry.cc:330).  Something is: a request past the gate that
\* a cancel took out of the table before Close looked at it and finishes later.
NoAnswerAfterSeal ==
  [][closed => \A f \in Frame :
       frame'[f].answers # frame[f].answers => Last(frame'[f].answers) = "duplicate"]_mcpVars

\* No change is told to a subscription before its acknowledgement was given to
\* the sink (ack_sent is set after the ack went out; Registry.cc:1437-1449).
AckBeforeUpdates ==
  \A f \in Frame : Contains(heard[f], "update") => Head(heard[f]) = "ack"

\* A cancel that found the listen request in flight leaves no subscription of it
\* behind (the cancel reaches a request from its registration on;
\* Registry.cc:604-606).  It does: the request is only marked, and enters its
\* subscription afterwards.
CancelReachesListen ==
  \A f \in Frame :
    frame[f].pc = "done" /\ frame[f].terminal = "cancelled" => ~Contains(subs, f)
=============================================================================
