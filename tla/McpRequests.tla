---------------------------- MODULE McpRequests ----------------------------
(***************************************************************************)
(* What the MCP core makes of one frame after another: the ladder from the *)
(* raw text to a request of one of the two eras, the registry the methods  *)
(* answer from, frozen by Start, and the paging of its lists.  Who owns a  *)
(* request while it is handled is in McpCore.                              *)
(***************************************************************************)
EXTENDS Integers, FiniteSets, SequencesExt

CONSTANTS Keys, MaxRegistrations, SizeMax

Kind == {"resources", "prompts", "tools"}

\* What the parameters have to be; assumed wherever they are given values.
RequestsAssumption ==
  /\ DOMAIN Keys = Kind /\ \A k \in Kind : Keys[k] \subseteq Nat \ {0}
  /\ MaxRegistrations \in Nat \ {0} /\ SizeMax \in Nat \ {0}

VARIABLES
  registry, started, serverClosed,
  pageSize,
  accepted, initialized,     \* the session of the older era
  frame, answer,             \* the frame at hand and what was made of it
  walk                       \* a client that follows the cursors of a list

requestVars == <<registry, started, serverClosed, pageSize, accepted, initialized,
                 frame, answer, walk>>

-----------------------------------------------------------------------------
NoCursor == -1
BadCursor == -2
Finished == -3

Silent == [id |-> "none", code |-> "none", page |-> <<>>, next |-> NoCursor, ran |-> FALSE]
Refused == [Silent EXCEPT !.id = "unknown", !.code = "unavailable"]

\* A frame, as far as the ladder tells them apart.  key 0 is a name that is
\* missing or no text; shapes of capabilities are those of one known member.
ListOf == [resources |-> "resources/list", prompts |-> "prompts/list", tools |-> "tools/list"]
CallOf == [resources |-> "resources/read", prompts |-> "prompts/get", tools |-> "tools/call"]
Templates == "resources/templates/list"
Family(method) ==
  {k \in Kind : method \in {ListOf[k], CallOf[k]} \/ (k = "resources" /\ method = Templates)}

Legacy == [shape |-> "good", id |-> "known", mixed |-> FALSE, method |-> "ping", params |-> "object",
           meta |-> "absent", member |-> "roots", value |-> "absent", cursor |-> NoCursor, key |-> 1,
           args |-> "good", retry |-> "none", produced |-> "good"]
Modern == [Legacy EXCEPT !.meta = "good"]
Idle == [Legacy EXCEPT !.shape = "none"]

Member == {"experimental", "roots", "sampling", "elicitation", "extensions", "tasks"}
Values == {"absent", "object", "scalar", "badInside"}
Produced == {"fails", "throws", "empty", "good", "badText", "undeclared", "offSchema", "needsInput"}

Envelopes ==
  { [Legacy EXCEPT !.shape = s, !.id = i] :
      s \in {"broken", "notObject", "badVersion"}, i \in {"none", "known", "unknowable"} }
    \cup { [Legacy EXCEPT !.id = i, !.mixed = x, !.method = t, !.params = p] :
             i \in {"none", "known", "unknowable"}, x \in BOOLEAN,
             t \in {"missing", "ping", "initialized"}, p \in {"none", "scalar", "array", "object"} }
Metas ==
  { [f EXCEPT !.method = t, !.member = m, !.value = v] :
      f \in {Legacy, Modern}, t \in {"initialize", "server/discover"}, m \in Member, v \in Values }
    \cup { [Modern EXCEPT !.method = t, !.meta = e, !.retry = r, !.id = i] :
             t \in {"initialized", "unknown", "server/discover", ListOf.tools},
             i \in {"none", "known"}, r \in {"bad", "good"},
             e \in {"noVersion", "versionNotText", "noCaps", "capsNotObject", "otherVersion", "good"} }
    \cup { [Legacy EXCEPT !.method = "initialize", !.args = a, !.params = p] :
             a \in {"good", "bad"}, p \in {"none", "array", "object"} }
Lists ==
  { [f EXCEPT !.method = t, !.cursor = c] :
      f \in {Legacy, Modern}, t \in {ListOf[k] : k \in Kind} \cup {Templates},
      c \in {BadCursor, NoCursor} \cup 0..(Cardinality(Keys.resources) + 1) }
Invocations ==
  { [f EXCEPT !.method = CallOf[k], !.key = x, !.args = a] :
      f \in {Legacy, Modern}, k \in Kind, x \in {0, 1},
      a \in {"none", "notObject", "notText", "missing", "offSchema", "good"} }
    \cup { [f EXCEPT !.method = CallOf[k], !.produced = o] :
             f \in {Legacy, Modern}, k \in Kind, o \in Produced }
    \cup { [f EXCEPT !.method = CallOf[k], !.produced = "needsInput", !.member = "sampling",
                     !.value = "object"] : f \in {Legacy, Modern}, k \in Kind }
Frames == Envelopes \cup Metas \cup Lists \cup Invocations

RequestsInit ==
  /\ registry = [k \in Kind |-> {}] /\ started = FALSE /\ serverClosed = FALSE
  /\ pageSize \in {1, SizeMax}
  /\ accepted = FALSE /\ initialized = FALSE
  /\ frame = Idle /\ answer = Silent
  /\ walk = [next |-> NoCursor, got |-> <<>>]

-----------------------------------------------------------------------------
\* Slip: the registry can still grow while it is served.
StillOpen(k, key, valid) ==
  /\ ~serverClosed /\ valid /\ key \notin registry[k]
  /\ Cardinality(registry.resources) + Cardinality(registry.prompts) < MaxRegistrations

\* A definition that is whole, new and whose schema, if it has one, compiles is
\* entered while there is room.  Tools count all entries, the others not the tools.
Accepts(k, key, valid) ==
  /\ ~serverClosed /\ ~started /\ valid /\ key \notin registry[k]
  /\ LET others == IF k = "tools" THEN Cardinality(registry.tools) ELSE 0
     IN Cardinality(registry.resources) + Cardinality(registry.prompts) + others < MaxRegistrations

Add(k, key, valid) ==
  /\ registry' = IF Accepts(k, key, valid) THEN [registry EXCEPT ![k] = @ \cup {key}] ELSE registry
  /\ UNCHANGED <<started, serverClosed, pageSize, accepted, initialized, frame, answer, walk>>

Freeze ==
  /\ ~serverClosed /\ ~started /\ started' = TRUE
  /\ UNCHANGED <<registry, serverClosed, pageSize, accepted, initialized, frame, answer, walk>>

CloseServer ==
  /\ serverClosed' = TRUE
  /\ UNCHANGED <<registry, started, pageSize, accepted, initialized, frame, answer, walk>>

-----------------------------------------------------------------------------
\* Slip: a frame without an id is a notification before its method is known.
AnyWithoutId(f) == f.shape = "good" /\ f.id = "none"

\* The basic envelope is right and there is no id: nothing may be answered.
Recognised(f) == f.shape = "good" /\ f.id = "none" /\ ~f.mixed /\ f.method # "missing"

\* The first thing wrong with the frame, and the id that answer carries.
Envelope(f) ==
  CASE f.shape = "broken" -> "parseError"
    [] f.shape \in {"notObject", "badVersion"} -> "invalidRequest"
    [] f.shape = "good" /\ (f.id = "unknowable" \/ f.mixed \/ f.method = "missing") -> "invalidRequest"
    [] f.shape = "good" /\ f.id # "unknowable" /\ ~f.mixed /\ f.method # "missing"
         /\ f.params = "scalar" -> "invalidParams"
    [] OTHER -> "good"
Detected(f) == IF f.shape = "good" /\ f.id = "known" THEN "known" ELSE "unknown"

\* The presence of the version alone makes a request modern; half an envelope is
\* then told what it lacks.
IsModern(f) == f.params = "object" /\ f.meta \notin {"absent", "noVersion"}

CapabilitiesOk(f) ==
  CASE f.member \in {"experimental", "sampling", "elicitation"} -> f.value \in {"absent", "object"}
    [] f.member = "roots" -> f.value \in {"absent", "object"} \cup (IF IsModern(f) THEN {"badInside"} ELSE {})
    [] f.member = "extensions" -> IsModern(f) => f.value \in {"absent", "object"}
    [] f.member = "tasks" -> ~IsModern(f) => f.value \in {"absent", "object"}

MetaFailure(f) ==
  CASE f.meta \in {"versionNotText", "noCaps", "capsNotObject"} -> "invalidParams"
    [] f.meta = "otherVersion" -> "unsupportedVersion"
    [] f.meta = "good" /\ ~CapabilitiesOk(f) -> "invalidParams"
    [] OTHER -> "none"

Available(method) == \E k \in Family(method) : registry[k] # {}

\* Slip: the end of a page is added before it is bounded, and wraps.
EndWraps(begin, size) ==
  LET sum == (begin + pageSize) % (SizeMax + 1) IN IF sum < size THEN sum ELSE size

\* The page is bounded before it is added: begin is at most size.
PageEnd(begin, size) == begin + (IF pageSize < size - begin THEN pageSize ELSE size - begin)

\* Each entry stands for the JSON of its definition.
Items(all, begin, end) == SubSeq(all, begin + 1, end)

\* No template can be registered: their list is served, and empty.
Listed(f, k) == IF f.method = Templates THEN {} ELSE registry[k]

\* The registry is a sorted map and a cursor a position in it.
List(f, k) ==
  LET all == SetToSortSeq(Listed(f, k), <)
      begin == IF f.cursor = NoCursor THEN 0 ELSE f.cursor
      end == PageEnd(begin, Len(all))
  IN IF f.cursor = BadCursor \/ begin > Len(all)
       THEN [Silent EXCEPT !.id = "known", !.code = "invalidParams"]
       ELSE [id |-> "known", code |-> "result", page |-> Items(all, begin, end),
             next |-> IF end < Len(all) THEN end ELSE Finished, ran |-> FALSE]

\* Arguments are checked before the handler: an object, texts only and nothing
\* missing for a prompt, in keeping with its schema for a tool.
ArgumentsOk(f, k) ==
  CASE k = "resources" -> TRUE
    [] k = "prompts" -> f.args \notin {"notObject", "notText", "missing"}
    [] k = "tools" -> f.args \notin {"notObject", "offSchema"}

\* What becomes of what the handler gave or threw.
Outcome(f, k) ==
  CASE f.produced \in {"fails", "throws"} -> "internalError"
    [] f.produced = "empty" /\ k # "tools" -> "internalError"
    [] f.produced = "badText" /\ k = "prompts" -> "internalError"
    [] f.produced \in {"undeclared", "offSchema"} /\ k = "tools" -> "internalError"
    [] f.produced = "needsInput" /\ k = "tools" ->
         IF ~IsModern(f) THEN "internalError"
         ELSE IF f.value = "object" THEN "inputRequired" ELSE "missingCapability"
    [] OTHER -> "result"

Call(f, k) ==
  IF f.key \notin registry[k] \/ ~ArgumentsOk(f, k)
    THEN [Silent EXCEPT !.id = "known", !.code = "invalidParams"]
    ELSE [Silent EXCEPT !.id = "known", !.code = Outcome(f, k), !.ran = TRUE]

Business(f) ==
  LET k == CHOOSE x \in Family(f.method) : TRUE
  IN IF f.params \in {"scalar", "array"} THEN [Silent EXCEPT !.id = "known", !.code = "invalidParams"]
     ELSE IF f.method \in {ListOf[k], Templates} THEN List(f, k) ELSE Call(f, k)

Code(c) == [Silent EXCEPT !.id = "known", !.code = c]

DispatchModern(f) ==
  CASE MetaFailure(f) # "none" -> Code(MetaFailure(f))
    [] MetaFailure(f) = "none" /\ f.method = "server/discover" -> Code("result")
    [] MetaFailure(f) = "none" /\ f.method # "server/discover" /\ f.retry = "bad" -> Code("invalidParams")
    [] OTHER -> IF Available(f.method) THEN Business(f) ELSE Code("methodNotFound")

Initialize(f) ==
  Code(IF f.params = "object" /\ f.args = "good" /\ CapabilitiesOk(f) THEN "result" ELSE "invalidParams")

\* A method that is not served is unknown, whatever the state of the session.
DispatchLegacy(f) ==
  CASE f.method = "initialize" -> Initialize(f)
    [] f.method = "ping" -> Code("result")
    [] OTHER -> IF ~Available(f.method) THEN Code("methodNotFound")
                ELSE IF accepted THEN Business(f) ELSE Code("invalidParams")

Dispatch(f) ==
  CASE Recognised(f) -> Silent
    [] ~Recognised(f) /\ Envelope(f) # "good" -> [Code(Envelope(f)) EXCEPT !.id = Detected(f)]
    [] OTHER -> IF IsModern(f) THEN DispatchModern(f) ELSE DispatchLegacy(f)

\* One frame.  Only an initialize or its notification moves the session, and
\* only one of the older era.
HandleFrame(f) ==
  /\ frame = Idle /\ frame' = f
  /\ answer' = IF Recognised(f) \/ (started /\ ~serverClosed) THEN Dispatch(f) ELSE Refused
  /\ accepted' = (accepted \/ (f.method = "initialize" /\ ~IsModern(f) /\ answer'.code = "result"))
  /\ initialized' = (initialized \/ (Recognised(f) /\ Envelope(f) = "good" /\ f.method = "initialized" /\ ~IsModern(f)))
  /\ walk' = IF /\ f.method = ListOf.resources /\ answer'.code = "result"
                /\ f.cursor = walk.next
               THEN [next |-> answer'.next, got |-> walk.got \o answer'.page]
               ELSE walk
  /\ UNCHANGED <<registry, started, serverClosed, pageSize>>

\* The transport takes the answer and reads on.
Deliver ==
  /\ frame # Idle /\ answer' = Silent /\ frame' = Idle
  /\ UNCHANGED <<registry, started, serverClosed, pageSize, accepted, initialized, walk>>

RequestsNext ==
  \/ \E k \in Kind, valid \in BOOLEAN : \E key \in Keys[k] : Add(k, key, valid)
  \/ Freeze \/ CloseServer \/ Deliver
  \/ \E f \in Frames : HandleFrame(f)

RequestsSpec == RequestsInit /\ [][RequestsNext]_requestVars

-----------------------------------------------------------------------------
\* A frame with an id is answered with that id, one whose id cannot be known
\* with none, and silence is kept only for what a client may not expect an
\* answer to: a whole request without an id, however wrong its parameters
\* (ParseRequestFrame and Dispatch; Protocol.cc:235-321, Registry.cc:657-683).
AnswersMatchIds ==
  frame # Idle =>
    /\ answer.code = "none" =>
         frame.shape = "good" /\ frame.id = "none" /\ ~frame.mixed /\ frame.method # "missing"
    /\ answer.code \notin {"none", "unavailable"} =>
         /\ answer.id = "known" <=> (frame.shape = "good" /\ frame.id = "known")
         /\ frame.id = "none" => frame.shape # "good" \/ frame.mixed \/ frame.method = "missing"

\* Who follows the cursors from the start gets every entry once and in order;
\* a cursor of the client's own making never leads backwards (the lists of
\* Registry.cc:903-938, 997-1060).
PagesExact ==
  LET all == SetToSortSeq(registry.resources, <)
  IN /\ IF walk.next = Finished THEN walk.got = all
        ELSE walk.got = SubSeq(all, 1, IF walk.next = NoCursor THEN 0 ELSE walk.next)
     /\ answer.next \notin {NoCursor, Finished} => answer.next > frame.cursor

\* Every frame gets its own answer, and every list all of its entries.
RequestsExact == AnswersMatchIds /\ PagesExact

\* The registrations of all kinds share one bounded pool (McpServer.hpp:58,
\* Server.hpp:266).  They do not: resources and prompts do not count the tools.
PoolShared ==
  Cardinality(registry.resources) + Cardinality(registry.prompts)
    + Cardinality(registry.tools) <= MaxRegistrations
=============================================================================
