---------------------------- MODULE MCMembership ----------------------------
(* Instances of Membership for TLC: the servers are model values. *)
EXTENDS Membership, TLC

Symmetry == Permutations(Servers)
=============================================================================
