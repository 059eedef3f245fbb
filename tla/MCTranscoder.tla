---------------------------- MODULE MCTranscoder ----------------------------
(***************************************************************************)
(* Small instances of Transcoder.                                          *)
(***************************************************************************)
EXTENDS Transcoder
=============================================================================
