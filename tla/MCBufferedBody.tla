--------------------------- MODULE MCBufferedBody ---------------------------
(***************************************************************************)
(* A small instance of BufferedBody: a channel at its floor of four.       *)
(***************************************************************************)
EXTENDS BufferedBody
=============================================================================
