---------------------------- MODULE MCDnsSdChild ----------------------------
(***************************************************************************)
(* Small instances of DnsSdChild: up to two handlers that panic.           *)
(***************************************************************************)
EXTENDS DnsSdChild
=============================================================================
