--------------------------- MODULE MCChatRecovery ---------------------------
(***************************************************************************)
(* Two API processes, chains of three or four nodes, two claims.  A tick is *)
(* ten minutes: a heartbeat is stale after three, and a lease of one lasts  *)
(* at least as long as the five minutes of the code.                        *)
(***************************************************************************)
EXTENDS ChatRecovery

TwoProcs == {"api-1", "api-2"}
=============================================================================
