--------------------------- MODULE MCMinixInTurn ----------------------------
(***************************************************************************)
(* Programs of up to three processes that deal with one child at a time,   *)
(* for which MinixProc implements UnixProc; the second makes every other   *)
(* call as well, over memory words and handlers that change.               *)
(***************************************************************************)
EXTENDS MCMinixProc, MinixUnix
=============================================================================
