------------------------------ MODULE TableMap ------------------------------
(***************************************************************************)
(* What table.h promises: a map from keys to values.  An operation takes   *)
(* effect at once and returns as its comment says.                         *)
(***************************************************************************)
EXTENDS FiniteSets, Sequences, Functions

CONSTANTS Keys, Values,
          Absent  \* NULL, or a key without an entry

VARIABLES map,
          reply   \* the last call and what it returned

Stored == {k \in Keys : map[k] # Absent}

TMInit ==
  /\ map = [k \in Keys |-> Absent]
  /\ reply = <<"create", 0>>

\* 0, whether the key is new or its entry is replaced.
Put(k, v) ==
  /\ map' = [map EXCEPT ![k] = v]
  /\ reply' = <<"put", k, v, 0>>

Get(k) ==
  /\ reply' = <<"get", k, map[k]>>
  /\ UNCHANGED map

\* 0 if the entry was removed, 1 if there was none.
Remove(k) ==
  /\ map' = [map EXCEPT ![k] = Absent]
  /\ reply' = <<"remove", k, IF k \in Stored THEN 0 ELSE 1>>

Size ==
  /\ reply' = <<"size", Cardinality(Stored)>>
  /\ UNCHANGED map

\* Every key once, in any order; NULL for an empty table.
GetKeys ==
  /\ reply'[1] = "keys"
  /\ IF Stored = {} THEN reply'[2] = Absent
     ELSE /\ reply'[2] \in [1..Cardinality(Stored) -> Stored]
          /\ IsInjective(reply'[2])
  /\ UNCHANGED map

TMNext ==
  \/ \E k \in Keys : Get(k) \/ Remove(k) \/ \E v \in Values : Put(k, v)
  \/ Size \/ GetKeys

TMSpec == TMInit /\ [][TMNext]_<<map, reply>>
=============================================================================
