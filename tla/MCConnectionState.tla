------------------------- MODULE MCConnectionState -------------------------
(* ConnectionState for TLC.  MCConnectionWrites follows the writes of one   *)
(* caller through partial sends, overflow segments, refusals, send errors   *)
(* and every way to close; MCConnectionWaits has two callers compete for    *)
(* one place, one byte and one seat in each hub.                            *)
EXTENDS ConnectionState
=============================================================================
