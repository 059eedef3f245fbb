-------------------------- MODULE MCAdvertisement --------------------------
(***************************************************************************)
(* A small instance of Advertisement: two handlers that panic.             *)
(***************************************************************************)
EXTENDS Advertisement
=============================================================================
