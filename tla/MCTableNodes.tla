---------------------------- MODULE MCTableNodes ----------------------------
(* Instances of TableNodes for TLC. *)
EXTENDS TableNodes, TLC

\* "a", "b" and "c": strings of one byte.
TwoKeys == {<<97>>, <<98>>}
ThreeKeys == TwoKeys \cup {<<99>>}
ByteStrcmp(s, t) == s[1] - t[1]
UnitSignStrcmp(s, t) == IF s = t THEN 0 ELSE IF s[1] < t[1] THEN -1 ELSE 1

\* Where every thread reads and writes, threads and values have no order.
Symmetry == Permutations(Threads) \cup Permutations(Values)
=============================================================================
