---------------------------- MODULE MCClientView ----------------------------
(* A few servers that come and go, for TLC: the .cfg files give the numbers. *)
EXTENDS ClientView
=============================================================================
