------------------------------ MODULE RpcHooks ------------------------------
(***************************************************************************)
(* The checkpoints of a session owner (SessionHooks): one point, its       *)
(* registration, and the coroutines that pass it.  The points share only   *)
(* the lock and m_closed.                                                  *)
(***************************************************************************)
EXTENDS Naturals, FiniteSets

CONSTANTS Visitor, MaxGeneration   \* coroutines; bound on Arm

\* What the parameters have to be; assumed wherever they are given values.
HooksConstants == IsFiniteSet(Visitor) /\ MaxGeneration \in Nat

VARIABLES
  point,      \* PointState: [generation, action, armed, expired, in_flight]
  hooksClosed,
  visit,      \* of each coroutine: [at, generation]
  thrown      \* generations of which a visitor was thrown

hookVars == <<point, hooksClosed, visit, thrown>>

HooksInit ==
  /\ point = [generation |-> 0, action |-> "Pause", armed |-> FALSE, expired |-> FALSE,
              in_flight |-> 0]
  /\ hooksClosed = FALSE
  /\ visit = [v \in Visitor |-> [at |-> "before", generation |-> 0]]
  /\ thrown = [g \in 1 .. MaxGeneration |-> 0]

Arm(a) ==
  /\ ~hooksClosed /\ point.generation < MaxGeneration
  /\ point' = [point EXCEPT !.generation = @ + 1, !.action = a, !.armed = TRUE, !.expired = FALSE]
  /\ UNCHANGED <<hooksClosed, visit, thrown>>

Clear(g) ==
  /\ ~hooksClosed /\ point.armed /\ point.generation = g
  /\ point' = [point EXCEPT !.armed = FALSE]
  /\ UNCHANGED <<hooksClosed, visit, thrown>>

\* expires_at passes; the registration stays until somebody looks.
Expires ==
  /\ point.armed /\ ~point.expired /\ point' = [point EXCEPT !.expired = TRUE]
  /\ UNCHANGED <<hooksClosed, visit, thrown>>

CloseHooks ==
  /\ ~hooksClosed /\ hooksClosed' = TRUE /\ point' = [point EXCEPT !.armed = FALSE]
  /\ UNCHANGED <<visit, thrown>>

At(v, p) == visit' = [visit EXCEPT ![v] = [at |-> p, generation |-> point.generation]]

Looked == [point EXCEPT !.armed = @ /\ ~point.expired]

\* Checkpoint up to the unlock: pass, fail, or go in.
Enter(v) ==
  /\ visit[v].at = "before"
  /\ IF hooksClosed THEN At(v, "failed") /\ UNCHANGED point
     ELSE IF ~Looked.armed THEN At(v, "passed") /\ point' = Looked
     ELSE At(v, point.action) /\ point' = [Looked EXCEPT !.in_flight = @ + 1]
  /\ UNCHANGED <<hooksClosed, thrown>>

Mine(v) == point.armed /\ point.generation = visit[v].generation

Leaving(v, p) == visit' = [visit EXCEPT ![v].at = p]

\* Slip: what was read at the first lock is trusted at the second.
ThrowStale(v) ==
  /\ visit[v].at = "ThrowOnce"
  /\ Leaving(v, "thrown") /\ point' = [point EXCEPT !.armed = FALSE]
  /\ thrown' = [thrown EXCEPT ![visit[v].generation] = @ + 1]
  /\ UNCHANGED hooksClosed

\* ThrowOnce is claimed under the lock; whoever is late passes.
Throw(v) ==
  /\ visit[v].at = "ThrowOnce"
  /\ IF Mine(v)
     THEN /\ Leaving(v, "thrown") /\ point' = [point EXCEPT !.armed = FALSE]
          /\ thrown' = [thrown EXCEPT ![visit[v].generation] = @ + 1]
     ELSE Leaving(v, "let") /\ UNCHANGED <<point, thrown>>
  /\ UNCHANGED hooksClosed

\* One slice of a pause.
PauseSlice(v) ==
  /\ visit[v].at = "Pause"
  /\ IF hooksClosed THEN Leaving(v, "stopped") /\ UNCHANGED point
     ELSE /\ point' = Looked
          /\ ~(Looked.armed /\ Mine(v)) /\ Leaving(v, "released")
  /\ UNCHANGED <<hooksClosed, thrown>>

\* Past the pause the ends of its owners and the deadline are looked at once more.
Recheck(v) ==
  /\ visit[v].at = "released"
  /\ \E p \in {"let", "stopped"} : Leaving(v, p)
  /\ UNCHANGED <<point, hooksClosed, thrown>>

\* The deadline of the operation, a cancellation, or the end of the link.
PauseEnds(v) ==
  /\ visit[v].at = "Pause" /\ Leaving(v, "stopped")
  /\ UNCHANGED <<point, hooksClosed, thrown>>

\* The destructor of Flight, on every way out.
Leave(v) ==
  /\ visit[v].at \in {"thrown", "let", "stopped"}
  /\ point' = [point EXCEPT !.in_flight = @ - 1]
  /\ visit' = [visit EXCEPT ![v].at = IF @ = "let" THEN "passed" ELSE "failed"]
  /\ UNCHANGED <<hooksClosed, thrown>>

HooksNext ==
  \/ \E v \in Visitor : Enter(v) \/ Throw(v) \/ PauseSlice(v) \/ Recheck(v) \/ PauseEnds(v) \/ Leave(v)
  \/ \E a \in {"Pause", "ThrowOnce"} : Arm(a)
  \/ \E g \in 1 .. MaxGeneration : Clear(g)
  \/ Expires \/ CloseHooks

HooksSpec == HooksInit /\ [][HooksNext]_hookVars

\* A registration to throw once throws at most once, whatever replaces or
\* clears it between the two locks; and in_flight counts exactly the coroutines
\* that are inside.
HookExact ==
  /\ \A g \in 1 .. MaxGeneration : thrown[g] <= 1
  /\ point.in_flight = Cardinality({ v \in Visitor :
       visit[v].at \in {"Pause", "ThrowOnce", "released", "thrown", "let", "stopped"} })
=============================================================================
