----------------------------------- MODULE MCNet -----------------------------------
(***************************************************************************)
(* The net layer, each part explored by itself: subject says which.  A     *)
(* queue of two cells that wraps, merges and spills; two readers of one    *)
(* ring; two connections and two threads at a reactor; two dials at an     *)
(* engine that admits one at a time; two connections arriving at a         *)
(* listener with room for one.                                             *)
(***************************************************************************)
EXTENDS OutboundQueue, ReceiveRing, Reactor, EngineDial, EngineAccept, TLC

VARIABLE subject

ASSUME NetConstants ==
  /\ QueueConstants /\ ReactorConstants /\ EngineDialConstants /\ EngineAcceptConstants

queueVars ==
  <<queue>>
ringVars ==
  <<holder, ring, pending, detached, eof, error, closed, rawRetry, moved,
    dataHub, releaseHub, woken, read, taken, dirty, closeRequested, opc,
    fromPump, buf, held, again, round, granted, paused, stopped, waiting,
    ownerClosed, received, fin>>

MCInit ==
  /\ subject \in {"queue", "ring", "reactor", "dial", "accept"}
  /\ subject = "dial" \/ raw = FALSE
  /\ subject = "accept" \/ mode = "client"
  /\ QueueInit /\ Init /\ ReactorInit /\ DialInit /\ AcceptInit

MCNext ==
  /\ UNCHANGED subject
  /\ \/ /\ subject = "queue"
        /\ UNCHANGED <<ringVars, reactorVars, dialVars, acceptVars>>
        /\ QueueNext
     \/ /\ subject = "ring"
        /\ UNCHANGED <<queueVars, reactorVars, dialVars, acceptVars>>
        /\ Next
     \/ /\ subject = "reactor"
        /\ UNCHANGED <<queueVars, ringVars, dialVars, acceptVars>>
        /\ ReactorNext
     \/ /\ subject = "dial"
        /\ UNCHANGED <<queueVars, ringVars, reactorVars, acceptVars>>
        /\ DialNext
     \/ /\ subject = "accept"
        /\ UNCHANGED <<queueVars, ringVars, reactorVars, dialVars>>
        /\ AcceptNext

MCSpec == MCInit /\ [][MCNext]_<<subject, queueVars, ringVars, reactorVars, dialVars, acceptVars>>

Symmetry == Permutations(Reader)
=============================================================================
