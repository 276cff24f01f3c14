------------------------------ MODULE McpStdio ------------------------------
(***************************************************************************)
(* The stdio transport of the MCP server: a reader coroutine that handles  *)
(* lines one after another, a writer coroutine that empties a bounded      *)
(* queue of frames into a pipe that may be full, a sink that any thread    *)
(* may call, and the teardown that the end of the input and Close share.   *)
(*                                                                         *)
(* A frame is its number, written in Parts pieces.  Every wait of the code *)
(* has a timer, so that a wait is a step that may be taken again at any    *)
(* time; what a wake-up saves is time and not modelled.                    *)
(***************************************************************************)
EXTENDS Naturals, FiniteSets, SequencesExt

CONSTANTS Parts, MaxPending, MaxFrames

\* What the parameters have to be; assumed wherever they are given values.
StdioAssumption == Parts \in Nat \ {0} /\ MaxPending \in Nat \ {0} /\ MaxFrames \in Nat

VARIABLES
  at,        \* where the reader, the writer and the host calling Close stand
  offered,   \* per actor: frames it still has to put into the queue
  queue, made,
  hand,      \* the writer's frame and how many parts of it were written
  written,   \* parts in the pipe, each by the number of its frame
  dropped, abandoned,
  live,      \* subscriptions of the session that the core still lists
  inputSealed, outputSealed, mounted, tearing, done

stdioVars == <<at, offered, queue, made, hand, written, dropped, abandoned, live,
               inputSealed, outputSealed, mounted, tearing, done>>
sealVars == <<inputSealed, outputSealed, mounted, tearing, done>>

Actor == {"reader", "writer", "host"}
NoHand == <<0, 0>>
Go(a, place) == at' = [at EXCEPT ![a] = place]

\* The loop of the reader and of the writer is left: m_reader_exited.
Exited(a) == at[a] \in {"exited", "taken", "ending", "seal", "check", "drain", "finish",
                         "unmount", "gone"}

StdioInit ==
  /\ at = [reader |-> "read", writer |-> "look", host |-> "idle"]
  /\ offered = [a \in Actor |-> <<>>]
  /\ queue = <<>> /\ made = 0 /\ hand = NoHand /\ written = <<>>
  /\ dropped = 0 /\ abandoned = 0 /\ live = 0
  /\ inputSealed = FALSE /\ outputSealed = FALSE /\ mounted = TRUE
  /\ tearing = FALSE /\ done = FALSE

-----------------------------------------------------------------------------
\* The reader looks at the seal before it reads, and not again for the lines of
\* one read; a line is answered, starts a subscription, or ends the channel.
ReadLine ==
  /\ at.reader = "read" /\ ~inputSealed
  /\ Go("reader", "line")
  /\ UNCHANGED <<offered, queue, made, hand, written, dropped, abandoned, live, sealVars>>

\* A line that starts or cancels a subscription has its frame told through the
\* sink: the acknowledgement, or the end.  Without a sink there is no frame.
DispatchLine ==
  /\ at.reader = "line" /\ live' \in {0, 1}
  /\ \/ /\ made < MaxFrames /\ (mounted \/ live' = live)
        /\ made' = made + 1 /\ Go("reader", "offer")
        /\ offered' = [offered EXCEPT !.reader = <<made + 1>>]
     \/ /\ ~mounted \/ live' = live
        /\ \E next \in {"line", "read", "exited"} : Go("reader", next)
        /\ UNCHANGED <<made, offered>>
  /\ UNCHANGED <<queue, hand, written, dropped, abandoned, sealVars>>

\* The end of the input, an error, or the seal ends the loop.
ReadEnds ==
  /\ at.reader = "read" /\ Go("reader", "exited")
  /\ UNCHANGED <<offered, queue, made, hand, written, dropped, abandoned, live, sealVars>>

\* One look at the queue.  A full queue is waited for by a coroutine, until its
\* deadline, and costs every other caller the frame at once.
Put(n) ==
  \/ /\ outputSealed
     /\ abandoned' = abandoned + 1 /\ UNCHANGED <<queue, dropped>>
  \/ /\ ~outputSealed /\ Len(queue) < MaxPending
     /\ queue' = Append(queue, n) /\ UNCHANGED <<dropped, abandoned>>
  \/ /\ ~outputSealed /\ Len(queue) >= MaxPending
     /\ dropped' = dropped + 1 /\ UNCHANGED <<queue, abandoned>>

Enqueue(a, next) ==
  /\ offered[a] # <<>> /\ Put(Head(offered[a]))
  /\ offered' = [offered EXCEPT ![a] = Tail(@)]
  /\ Go(a, next)
  /\ UNCHANGED <<made, hand, written, live, sealVars>>

ReaderEnqueues == at.reader = "offer" /\ Enqueue("reader", "line")

\* A change published by some thread while the sink is mounted.
SinkCalled ==
  /\ mounted /\ made < MaxFrames /\ made' = made + 1
  /\ Put(made + 1)
  /\ UNCHANGED <<at, offered, hand, written, live, sealVars>>

-----------------------------------------------------------------------------
\* The writer takes the next frame; without one it leaves once the input is
\* sealed.
TakeFrame ==
  /\ at.writer = "look"
  /\ IF queue # <<>>
       THEN hand' = <<Head(queue), 0>> /\ queue' = Tail(queue) /\ Go("writer", "write")
       ELSE /\ inputSealed \/ outputSealed
            /\ Go("writer", "exited") /\ UNCHANGED <<hand, queue>>
  /\ UNCHANGED <<offered, made, written, dropped, abandoned, live, sealVars>>

\* The pipe takes one more part.
WritePart ==
  /\ at.writer = "write"
  /\ written' = Append(written, hand[1])
  /\ IF hand[2] + 1 = Parts
       THEN hand' = NoHand /\ Go("writer", "look")
       ELSE hand' = [hand EXCEPT ![2] = @ + 1] /\ UNCHANGED at
  /\ UNCHANGED <<offered, queue, made, dropped, abandoned, live, sealVars>>

\* Slip: a frame given up by the writer is not counted.
GiveUpUncounted ==
  /\ at.writer = "write" /\ (inputSealed \/ outputSealed)
  /\ hand' = NoHand /\ Go("writer", "look")
  /\ UNCHANGED <<offered, queue, made, written, dropped, abandoned, live, sealVars>>

\* The pipe is full and a seal ends the wait for it: the frame is given up,
\* however much of it was written, and the next one is begun.
GiveUpFrame ==
  /\ at.writer = "write" /\ (inputSealed \/ outputSealed)
  /\ abandoned' = abandoned + 1 /\ hand' = NoHand /\ Go("writer", "look")
  /\ UNCHANGED <<offered, queue, made, written, dropped, live, sealVars>>

WriteFails ==
  /\ at.writer = "write"
  /\ abandoned' = abandoned + 1 /\ hand' = NoHand /\ Go("writer", "exited")
  /\ UNCHANGED <<offered, queue, made, written, dropped, live, sealVars>>

-----------------------------------------------------------------------------
\* The first of the reader and the host takes the teardown.
BeginTeardown(a) ==
  /\ <<a, at[a]>> \in {<<"reader", "exited">>, <<"host", "idle">>}
  /\ tearing' = TRUE
  /\ Go(a, IF ~tearing THEN "taken" ELSE IF a = "host" THEN "wait" ELSE "check")
  /\ UNCHANGED <<offered, queue, made, hand, written, dropped, abandoned, live,
                 inputSealed, outputSealed, mounted, done>>

\* It ends the subscriptions while the queue is open and the writer at work,
\* then seals.
EndSubscriptions(a) ==
  /\ at[a] = "taken"
  /\ live' = 0 /\ made' = made + live
  /\ offered' = [offered EXCEPT ![a] = IF live = 1 THEN <<made + 1>> ELSE <<>>]
  /\ Go(a, IF live = 1 THEN "ending" ELSE "seal")
  /\ UNCHANGED <<queue, hand, written, dropped, abandoned, sealVars>>

TellEnd(a) == at[a] = "ending" /\ Enqueue(a, "seal")

SealInput(a) ==
  /\ at[a] = "seal"
  /\ inputSealed' = TRUE /\ Go(a, "check")
  /\ UNCHANGED <<offered, queue, made, hand, written, dropped, abandoned, live,
                 outputSealed, mounted, tearing, done>>

\* The writer left its loop and looks whether it is the last.
WriterLeaves ==
  /\ at.writer = "exited" /\ Go("writer", "check")
  /\ UNCHANGED <<offered, queue, made, hand, written, dropped, abandoned, live, sealVars>>

\* A teardown that is done is done once.
CheckDone(a) ==
  /\ at[a] = "check" /\ Go(a, IF done THEN "gone" ELSE "drain")
  /\ UNCHANGED <<offered, queue, made, hand, written, dropped, abandoned, live, sealVars>>

\* The host waits for both coroutines, for a time; a coroutine leaves the rest to
\* the last one.
DrainEnds(a) ==
  /\ at[a] = "drain"
  /\ Go(a, IF a = "host" \/ (Exited("reader") /\ Exited("writer")) THEN "finish" ELSE "gone")
  /\ UNCHANGED <<offered, queue, made, hand, written, dropped, abandoned, live, sealVars>>

\* Whoever finishes seals the queue and gives up what is left in it,
TryFinishTeardown(a) ==
  /\ at[a] = "finish"
  /\ outputSealed' = TRUE
  /\ abandoned' = abandoned + Len(queue) /\ queue' = <<>>
  /\ Go(a, "unmount")
  /\ UNCHANGED <<offered, made, hand, written, dropped, live, inputSealed, mounted, tearing, done>>

\* takes the sink away and reports what it found.
Unmount(a) ==
  /\ at[a] = "unmount"
  /\ mounted' = FALSE /\ done' = TRUE
  /\ Go(a, "gone")
  /\ UNCHANGED <<offered, queue, made, hand, written, dropped, abandoned, live,
                 inputSealed, outputSealed, tearing>>

\* A Close that came second waits for the first.
CloseReturns ==
  /\ at.host = "wait" /\ done /\ Go("host", "gone")
  /\ UNCHANGED <<offered, queue, made, hand, written, dropped, abandoned, live, sealVars>>

Reader == ReadLine \/ DispatchLine \/ ReadEnds \/ ReaderEnqueues
Writer == TakeFrame \/ WritePart \/ GiveUpFrame \/ WriteFails \/ WriterLeaves
Teardown(a) ==
  \/ BeginTeardown(a) \/ EndSubscriptions(a) \/ TellEnd(a) \/ SealInput(a)
  \/ CheckDone(a) \/ DrainEnds(a) \/ TryFinishTeardown(a) \/ Unmount(a)

StdioNext ==
  \/ Reader \/ Writer \/ SinkCalled \/ CloseReturns
  \/ \E a \in Actor : Teardown(a)

StdioSpec == StdioInit /\ [][StdioNext]_stdioVars

-----------------------------------------------------------------------------
HeldFrames == Cardinality({a \in Actor : offered[a] # <<>>}) + (IF hand = NoHand THEN 0 ELSE 1)
Complete == {n \in 1..MaxFrames + 1 : Cardinality({k \in DOMAIN written : written[k] = n}) = Parts}

\* No frame is lost without a trace: each one is written in full, dropped for
\* want of room, given up and counted, or still on its way (the counters of the
\* evidence, StdioTransport.cc:177-182, 399-414, 482-488).
FramesAccounted ==
  made = Cardinality(Complete) + dropped + abandoned + Len(queue) + HeldFrames

\* The pipe carries whole lines: a frame that was begun is finished before the
\* next one (frames are written line by line, StdioTransport.cc:10).  It does
\* not: a frame given up in its middle is followed by the next one.
LinesWhole ==
  \A k \in DOMAIN written : \A n \in DOMAIN written :
    k < n /\ written[k] # written[n] => written[k] \in Complete
=============================================================================
