---------------------------- MODULE MCRpcSession ----------------------------
(***************************************************************************)
(* A link of an RPC session with a call and a reply that compete for one   *)
(* lane, a one-way frame on another and a posted error frame on the third; *)
(* and, by itself, an HTTP server with two sessions and room for one:      *)
(* subject says which.                                                     *)
(***************************************************************************)
EXTENDS RpcSession, HttpServer

CONSTANTS a, b, c, r
MCCalls == {a}
MCTells == {b, c}
MCReplies == {r}
MCLane == [o \in {a, b, c, r} |->
             IF o = c THEN "system" ELSE IF o = b THEN "service" ELSE "actor"]

VARIABLE subject

ASSUME HttpServerConstants == HttpServerAssumption

MCInit ==
  /\ subject \in {"link", "server"}
  /\ Init /\ ServerInit

MCNext ==
  /\ UNCHANGED subject
  /\ \/ subject = "link" /\ UNCHANGED serverVars /\ Next
     \/ subject = "server" /\ UNCHANGED vars /\ ServerNext

MCSpec == MCInit /\ [][MCNext]_<<subject, vars, serverVars>>
=============================================================================
