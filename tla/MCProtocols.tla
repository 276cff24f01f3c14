-------------------------------- MODULE MCProtocols --------------------------------
(***************************************************************************)
(* The protocols above the net layer, each part explored by itself: subject*)
(* says which.  The two sides of an RPC handshake; four requests at a link *)
(* that admits two; two visitors of a checkpoint; two MCP requests of two  *)
(* sessions, a cancel and a change; three frames of a stdio server; one MCP*)
(* exchange over HTTP of any of its shapes; one frame at a time at an MCP  *)
(* registry.                                                               *)
(***************************************************************************)
EXTENDS McpRequests, RpcAdmission, RpcHooks, TLC

CONSTANTS
  Chunk, MaxData, Frame, Cancel, Session, Id, MaxPlaces, MaxPublish, Parts,
  MaxPending, MaxFrames, MaxEvents, MaxChanges

VARIABLES
  subject,
  smaller, phase, epoch, wire, decoder, stash, handshakeSent, received, gaveUp,
  coreStarted, closed, coreInflight, coreAccepted, coreFrame, owners, subs,
  coreAcked, heard, cancel, draining, leaving, ended, publisher, publishing, corePublished,
  stdioAt, offered, stdioQueue, made, hand, written, stdioDropped, abandoned,
  live, inputSealed, outputSealed, mounted, tearing, done,
  request, httpAt, reply, listed, httpAcked, sink, calling, httpPublished,
  captured, body, httpDropped, cancelled, detached, httpSent

MCKeys == [resources |-> 1..2, prompts |-> 1..1, tools |-> 1..1]

H == INSTANCE RpcHandshake WITH
       sent <- handshakeSent
C == INSTANCE McpCore WITH
       started <- coreStarted, inflight <- coreInflight,
       accepted <- coreAccepted, frame <- coreFrame, acked <- coreAcked,
       published <- corePublished, MaxInflight <- MaxPlaces
S == INSTANCE McpStdio WITH
       at <- stdioAt, queue <- stdioQueue, dropped <- stdioDropped
X == INSTANCE McpHttp WITH
       at <- httpAt, acked <- httpAcked, published <- httpPublished,
       dropped <- httpDropped, sent <- httpSent, MaxPublish <- MaxChanges

ASSUME ProtocolsConstants == AdmissionConstants /\ HooksConstants /\ C!McpAssumption /\ S!StdioAssumption /\ X!HttpAssumption /\ RequestsAssumption

handshakeVars ==
  <<smaller, phase, epoch, wire, decoder, stash, handshakeSent, received,
    gaveUp>>
coreVars ==
  <<coreStarted, closed, coreInflight, coreAccepted, coreFrame, owners, subs,
    coreAcked, heard, cancel, draining, leaving, ended, publisher, publishing, corePublished>>
stdioVars ==
  <<stdioAt, offered, stdioQueue, made, hand, written, stdioDropped,
    abandoned, live, inputSealed, outputSealed, mounted, tearing, done>>
httpVars ==
  <<request, httpAt, reply, listed, httpAcked, sink, calling, httpPublished,
    captured, body, httpDropped, cancelled, detached, httpSent>>
requestsVars ==
  <<registry, started, serverClosed, pageSize, accepted, initialized, frame,
    answer, walk>>

\* What the core starts with where it is not the subject.
SomeSession == CHOOSE s \in Session : TRUE
SomeId == CHOOSE i \in Id : TRUE
SomeFrame == [pc |-> "idle", kind |-> "plain", session |-> SomeSession, id |-> SomeId,
              terminal |-> "none", answers |-> <<>>]
SomeCancel == [pc |-> "idle", session |-> SomeSession, id |-> SomeId, entry |-> <<>>,
               victims |-> {}]

\* An initialize, and a plain or legacy request without one, go the way of a modern
\* request without its handler, and a cancel of a session without requests finds
\* nothing: they are left out.  The session of the cancel is the first; so only the
\* frames are symmetric.
MCInit ==
  /\ subject \in {"handshake", "admission", "hooks", "core", "stdio", "http", "requests"}
  /\ subject = "handshake" \/ smaller = "neither"
  /\ subject = "core" \/ coreFrame = [f \in Frame |-> SomeFrame]
  /\ subject = "core" \/ cancel = [c \in Cancel |-> SomeCancel]
  /\ subject = "http" \/ request = X!Good
  /\ subject = "requests" \/ pageSize = SizeMax
  /\ H!HandshakeInit /\ AdmissionInit /\ HooksInit /\ C!McpInit /\ S!StdioInit /\ X!McpHttpInit /\ RequestsInit
  /\ subject = "core" =>
       /\ \A f \in Frame : coreFrame[f].kind # "plain"
       /\ \A f \in Frame : coreFrame[f].kind \in {"initialize", "legacy"} =>
            \E g \in Frame : /\ coreFrame[g].session = coreFrame[f].session
                             /\ {coreFrame[g].kind, coreFrame[f].kind} = {"initialize", "legacy"}
       /\ \A c \in Cancel : cancel[c].session = SomeSession
       /\ \E f \in Frame : coreFrame[f].session = SomeSession

MCNext ==
  /\ UNCHANGED subject
  /\ \/ /\ subject = "handshake"
        /\ UNCHANGED <<admissionVars, hookVars, coreVars, stdioVars, httpVars, requestsVars>>
        /\ H!HandshakeNext
     \/ /\ subject = "admission"
        /\ UNCHANGED <<handshakeVars, hookVars, coreVars, stdioVars, httpVars, requestsVars>>
        /\ AdmissionNext
     \/ /\ subject = "hooks"
        /\ UNCHANGED <<handshakeVars, admissionVars, coreVars, stdioVars, httpVars, requestsVars>>
        /\ HooksNext
     \/ /\ subject = "core"
        /\ UNCHANGED <<handshakeVars, admissionVars, hookVars, stdioVars, httpVars, requestsVars>>
        /\ C!McpNext
     \/ /\ subject = "stdio"
        /\ UNCHANGED <<handshakeVars, admissionVars, hookVars, coreVars, httpVars, requestsVars>>
        /\ S!StdioNext
     \/ /\ subject = "http"
        /\ UNCHANGED <<handshakeVars, admissionVars, hookVars, coreVars, stdioVars, requestsVars>>
        /\ X!McpHttpNext
     \/ /\ subject = "requests"
        /\ UNCHANGED <<handshakeVars, admissionVars, hookVars, coreVars, stdioVars, httpVars>>
        /\ RequestsNext

MCSpec == MCInit /\ [][MCNext]_<<subject, handshakeVars, admissionVars, hookVars, coreVars, stdioVars, httpVars, requestsVars>>

Symmetry == Permutations(Frame)

\* See RpcHandshake: the two sides agree, and no byte is lost at the hand-over
\* from the handshake to the reader of the link.
HandshakeExact == subject = "handshake" => H!HandshakeExact

\* See McpCore: it counts its places, answers each request once and is silent once
\* closed.
CoreCorrect ==
  /\ [](subject = "core" => C!PlacesExact /\ C!AnswersExact /\ C!AckBeforeUpdates)
  /\ C!ClosedIsSilent

\* See McpStdio: every frame is written whole, counted as dropped or still held.
FramesAccounted == subject = "stdio" => S!FramesAccounted

\* See McpHttp: one reply, by the gates, and a stream that holds what it must.
HttpExact == subject = "http" => X!HttpExact
=============================================================================
