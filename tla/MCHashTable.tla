---------------------------- MODULE MCHashTable ----------------------------
(* Instances of HashTable for TLC: strings of bytes and two strcmps. *)
EXTENDS HashTable

\* "a", "b", "ba" and "c".
a == <<97>>
b == <<98>>
ba == <<98, 97>>
c == <<99>>

\* The terminator counts as a byte.
Byte(s, i) == IF i <= Len(s) THEN s[i] ELSE 0

\* glibc: the difference of the first bytes that differ.
Difference(s, t) ==
  IF s = t THEN 0
  ELSE LET i == CHOOSE n \in 1..3 : Byte(s, n) # Byte(t, n)
                  /\ \A m \in 1..(n-1) : Byte(s, m) = Byte(t, m)
       IN Byte(s, i) - Byte(t, i)

\* A libc that returns -1, 0 or 1.
Sign(n) == IF n < 0 THEN -1 ELSE IF n > 0 THEN 1 ELSE 0

AllKeys == {a, b, ba, c}
ThreeKeys == {a, b, c}
ByteStrcmp(s, t) == Difference(s, t)
UnitSignStrcmp(s, t) == Sign(Difference(s, t))

\* Lists hold at most MaxNodes entries.
MaxNodes == 4
Short == \A h \in DOMAIN lists : Len(lists[h]) <= MaxNodes
=============================================================================
