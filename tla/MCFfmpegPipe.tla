---------------------------- MODULE MCFfmpegPipe ----------------------------
(***************************************************************************)
(* Small instances of FfmpegPipe.                                          *)
(***************************************************************************)
EXTENDS FfmpegPipe
=============================================================================
