---------------------------- MODULE MCFailover ----------------------------
(* Short chains, for TLC: the .cfg files give the numbers. *)
EXTENDS Failover
===========================================================================
