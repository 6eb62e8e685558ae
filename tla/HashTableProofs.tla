-------------------------- MODULE HashTableProofs --------------------------
(***************************************************************************)
(* Proofs about HashTable for every set of keys and values, every number   *)
(* of lists and every strcmp.                                              *)
(***************************************************************************)
EXTENDS HashTable, FiniteSetTheorems, WellFoundedInduction, TLAPS

-----------------------------------------------------------------------------
(* Folds *)

LEMMA LeastExists ==
  ASSUME NEW S \in SUBSET Nat, S # {}
  PROVE  \E n \in S : \A m \in S : n <= m
<1> DEFINE R == OpToRel(<, Nat)
<1>1. IsWellFoundedOn(R, Nat)
  BY NatLessThanWellFounded
<1>2. \A x, y \in Nat : y < x => <<y, x>> \in R
  BY DEF OpToRel
<1> HIDE DEF R
<1>3. PICK x \in S : \A y \in S : ~ (<<y, x>> \in R)
  BY <1>1, WFMin
<1>4. \A y \in S : ~ (y < x)
  BY <1>2, <1>3
<1>5. QED
  BY <1>4

\* Two ways to fold the same set agree if they start and go on alike.
LEMMA FoldsAgree ==
  ASSUME NEW S, IsFiniteSet(S), NEW f, NEW g, f[{}] = g[{}],
         \A s \in SUBSET S : s # {} =>
           \E x \in s : f[s \ {x}] = g[s \ {x}] => f[s] = g[s]
  PROVE  f[S] = g[S]
<1> DEFINE Bad == {Cardinality(s) : s \in {r \in SUBSET S : f[r] # g[r]}}
<1> SUFFICES ASSUME f[S] # g[S] PROVE FALSE
  OBVIOUS
<1>1. \A s \in SUBSET S : IsFiniteSet(s) /\ Cardinality(s) \in Nat
  BY FS_Subset, FS_CardinalityType
<1>2. PICK n \in Bad : \A m \in Bad : n <= m
  <2>1. Bad \in SUBSET Nat /\ Cardinality(S) \in Bad
    BY <1>1
  <2> HIDE DEF Bad
  <2>2. QED
    BY <2>1, LeastExists
<1>3. PICK s \in SUBSET S : f[s] # g[s] /\ Cardinality(s) = n
  OBVIOUS
<1>4. PICK x \in s : f[s \ {x}] = g[s \ {x}] => f[s] = g[s]
  BY <1>3
<1>5. s \ {x} \in SUBSET S /\ f[s \ {x}] # g[s \ {x}]
  BY <1>3, <1>4
<1>6. Cardinality(s \ {x}) = n - 1
  BY <1>1, <1>3, FS_RemoveElement
<1>7. n <= n - 1
  BY <1>2, <1>5, <1>6
<1>8. QED
  BY <1>1, <1>3, <1>7

\* A sum in which all but one of the terms are 0.
LEMMA SumOfOne ==
  ASSUME NEW S, IsFiniteSet(S), NEW a \in S, NEW L \in [S -> Nat],
         \A x \in S : x # a => L[x] = 0
  PROVE  SumFunction(L) = L[a]
<1> DEFINE E(f) == f = [s \in SUBSET S |-> IF s = {} THEN 0
                         ELSE LET x == CHOOSE x \in s : TRUE IN L[x] + f[s \ {x}]]
           it == CHOOSE f : E(f)
           one == [s \in SUBSET S |-> IF a \in s THEN L[a] ELSE 0]
<1>0. DOMAIN L = S
  OBVIOUS
<1>1. SumFunction(L) = it[S]
  BY <1>0 DEF SumFunction, SumFunctionOnSet, FoldFunctionOnSet, MapThenFoldSet
<1>3. \A s \in SUBSET S : s # {} => (CHOOSE x \in s : TRUE) \in s
  OBVIOUS
<1>4. \A x \in S : L[x] \in Nat
  OBVIOUS
<1>4a. ASSUME NEW s \in SUBSET S, NEW x \in s PROVE one[s] = L[x] + one[s \ {x}]
  <2>1. s \ {x} \in SUBSET S
    OBVIOUS
  <2>2. CASE x = a
    <3>1. one[s] = L[a] /\ one[s \ {x}] = 0
      BY <2>1, <2>2
    <3>2. QED
      BY <1>4, <2>2, <3>1
  <2>3. CASE x # a
    <3>1. one[s] = one[s \ {x}] /\ one[s] \in Nat
      BY <1>4, <2>1, <2>3
    <3>2. L[x] = 0
      BY <2>3
    <3>3. QED
      BY <3>1, <3>2
  <2>4. QED
    BY <2>2, <2>3
<1>5. E(one)
  <2>1. one = [s \in SUBSET S |-> one[s]]
    OBVIOUS
  <2>2. one[{}] = 0
    OBVIOUS
  <2> HIDE DEF one
  <2>3. \A s \in SUBSET S : s # {} =>
          one[s] = LET x == CHOOSE x \in s : TRUE IN L[x] + one[s \ {x}]
    BY <1>3, <1>4a
  <2>4. QED
    BY <2>1, <2>2, <2>3
<1>6. E(it)
  <2> HIDE DEF E, one
  <2> QED BY <1>5
<1>7. it[{}] = one[{}]
  BY <1>6
<1>8. ASSUME NEW s \in SUBSET S, s # {}
      PROVE \E x \in s : it[s \ {x}] = one[s \ {x}] => it[s] = one[s]
  <2> DEFINE x == CHOOSE x \in s : TRUE
  <2>1. x \in s
    BY <1>3, <1>8
  <2>2. it[s] = L[x] + it[s \ {x}]
    BY <1>6, <1>8
  <2> HIDE DEF it, x, one
  <2>3. QED
    BY <1>4a, <2>1, <2>2
<1>9. it[S] = one[S]
  <2> HIDE DEF it, one
  <2> QED BY <1>7, <1>8, FoldsAgree
<1>10. QED
  BY <1>1, <1>9

\* A concatenation in which only the first sequence has elements.
LEMMA FlattenOfOne ==
  ASSUME NEW n \in Nat \ {0}, NEW T, NEW q, q \in [1..n -> Seq(T)],
         \A i \in 2..n : q[i] = <<>>
  PROVE  FlattenSeq(q) = q[1]
<1> DEFINE E(f) == f = [i \in 1..n |-> IF i = 1 THEN q[i] ELSE f[i-1] \o q[i]]
           it == CHOOSE f : E(f)
           first == [i \in 1..n |-> q[1]]
<1>0. Len(q) = n /\ n # 0
  OBVIOUS
<1>1. FlattenSeq(q) = it[n]
  BY <1>0 DEF FlattenSeq
<1>2. q[1] \in Seq(T)
  OBVIOUS
<1>3. q[1] \o <<>> = q[1]
  BY <1>2
<1>4. E(first)
  <2>1. ASSUME NEW i \in 1..n, i # 1 PROVE first[i-1] \o q[i] = q[1]
    <3>1. i - 1 \in 1..n /\ i \in 2..n
      BY <2>1
    <3>2. first[i-1] = q[1] /\ q[i] = <<>>
      BY <3>1
    <3>3. QED
      BY <1>3, <3>2
  <2>2. \A i \in 1..n : (IF i = 1 THEN q[i] ELSE first[i-1] \o q[i]) = q[1]
    BY <2>1
  <2>3. QED
    BY <2>2
<1>5. PICK f : f = it
  OBVIOUS
<1>5a. /\ f = [i \in 1..n |-> IF i = 1 THEN q[i] ELSE f[i-1] \o q[i]]
       /\ FlattenSeq(q) = f[n]
  <2>1. E(it)
    <3> HIDE DEF E, first
    <3> QED BY <1>4
  <2> HIDE DEF it
  <2>2. QED
    BY <1>1, <1>5, <2>1
<1> HIDE DEF it, E
<1>6. f[1] = q[1]
  BY <1>5a
<1>7. ASSUME NEW i \in 2..n, f[i-1] = q[1] PROVE f[i] = q[1]
  <2>1. i \in 1..n /\ i # 1
    OBVIOUS
  <2>2. f[i] = f[i-1] \o q[i]
    BY <1>5a, <2>1
  <2>3. QED
    BY <1>3, <1>7, <2>2
<1> DEFINE Bad == {i \in 1..n : f[i] # q[1]}
<1>8. CASE Bad = {}
  <2>1. f[n] = q[1]
    BY <1>0, <1>8
  <2>2. QED
    BY <1>5a, <2>1
<1>9. CASE Bad # {}
  <2>1. Bad \in SUBSET Nat
    OBVIOUS
  <2>2. PICK i \in Bad : \A j \in Bad : i <= j
    <3> HIDE DEF Bad
    <3> QED BY <1>9, <2>1, LeastExists
  <2>3. i \in 2..n
    BY <1>6
  <2>4. i - 1 \in 1..n /\ i - 1 \notin Bad
    BY <2>2, <2>3
  <2>5. f[i-1] = q[1]
    BY <2>4
  <2>6. QED
    BY <1>7, <2>3, <2>5
<1>10. QED
  BY <1>8, <1>9

-----------------------------------------------------------------------------
(* The lists that operations use, and what they do to one *)

\* A product that starts at 0 stays 0: every key belongs to list 0.
LEMMA HashIsZero ==
  ASSUME NEW k \in Keys
  PROVE  HashFunction(k) = 0 /\ 0 \in 0..(NLists - 1)
<1> DEFINE S == DOMAIN k
           E(f) == f = [s \in SUBSET S |-> IF s = {} THEN 0
                         ELSE LET x == CHOOSE x \in s : TRUE IN f[s \ {x}] * k[x]]
           it == CHOOSE f : E(f)
           zero == [s \in SUBSET S |-> 0]
<1>0. k \in Seq(Int)
  BY TableAssumption
<1>1. HashFunction(k) = it[S] % NLists
  BY DEF HashFunction, FoldSeq, FoldFunction, FoldFunctionOnSet, MapThenFoldSet
<1>2. IsFiniteSet(S)
  BY <1>0, FS_Interval
<1>3. \A s \in SUBSET S : s # {} => (CHOOSE x \in s : TRUE) \in s
  OBVIOUS
<1>4. \A x \in S : 0 * k[x] = 0
  BY <1>0
<1>5. E(zero)
  BY <1>3, <1>4
<1>6. E(it)
  <2> HIDE DEF E, zero
  <2> QED BY <1>5
<1>7. it[{}] = zero[{}]
  BY <1>6
<1>8. ASSUME NEW s \in SUBSET S, s # {}
      PROVE \E x \in s : it[s \ {x}] = zero[s \ {x}] => it[s] = zero[s]
  <2> DEFINE x == CHOOSE x \in s : TRUE
  <2>1. x \in s /\ s \ {x} \in SUBSET S /\ 0 * k[x] = 0
    BY <1>3, <1>4, <1>8
  <2>2. it[s] = it[s \ {x}] * k[x]
    BY <1>6, <1>8
  <2> HIDE DEF it, x
  <2>3. QED
    BY <2>1, <2>2
<1>9. it[S] = zero[S]
  <2> HIDE DEF it, zero
  <2> QED BY <1>2, <1>7, <1>8, FoldsAgree
<1>10. it[S] = 0
  <2> HIDE DEF it
  <2> QED BY <1>9
<1>11. QED
  <2> HIDE DEF it
  <2> QED BY <1>1, <1>10, TableAssumption

LEMMA ListType ==
  ASSUME TypeOK, NEW k \in Keys
  PROVE  /\ HashFunction(k) \in DOMAIN lists
         /\ List(k) \in Seq(Entries) /\ Len(List(k)) \in Nat
  BY HashIsZero DEF TypeOK, List

\* r is the list l of n entries with e inserted at place i.
Inserted(l, n, e, i, r) ==
  /\ r \in Seq(Entries) /\ Len(r) = n + 1
  /\ r[i] = e
  /\ \A j \in 1..(i-1) : r[j] = l[j]
  /\ \A j \in (i+1)..(n+1) : r[j] = l[j-1]

\* r is the list l of n entries without the entry at place i.
Removed(l, n, i, r) ==
  /\ r \in Seq(Entries) /\ Len(r) = n - 1
  /\ \A j \in 1..(i-1) : r[j] = l[j]
  /\ \A j \in i..(n-1) : r[j] = l[j+1]

LEMMA InsertShape ==
  ASSUME NEW l \in Seq(Entries), NEW n \in Nat, Len(l) = n,
         NEW e \in Entries, NEW i \in 1..(n + 1), NEW r, r = InsertAt(l, i, e)
  PROVE  Inserted(l, n, e, i, r)
<1>1. r = SubSeq(l, 1, i-1) \o <<e>> \o SubSeq(l, i, n)
  BY DEF InsertAt
<1>2. r \in Seq(Entries) /\ Len(r) = n + 1
  BY <1>1
<1>3. r[i] = e
  BY <1>1
<1>4. \A j \in 1..(i-1) : r[j] = l[j]
  BY <1>1
<1>5. \A j \in (i+1)..(n+1) : r[j] = l[j-1]
  BY <1>1
<1>6. QED
  BY <1>2, <1>3, <1>4, <1>5 DEF Inserted

LEMMA RemoveShape ==
  ASSUME NEW l \in Seq(Entries), NEW n \in Nat, Len(l) = n,
         NEW i \in 1..n, NEW r, r = RemoveAt(l, i)
  PROVE  Removed(l, n, i, r)
<1>1. r = SubSeq(l, 1, i-1) \o SubSeq(l, i+1, n)
  BY DEF RemoveAt
<1>2. r \in Seq(Entries) /\ Len(r) = n - 1
  BY <1>1
<1>3. \A j \in 1..(i-1) : r[j] = l[j]
  BY <1>1
<1>4. \A j \in i..(n-1) : r[j] = l[j+1]
  <2> TAKE j \in i..(n-1)
  <2> DEFINE p == SubSeq(l, 1, i-1)
             s == SubSeq(l, i+1, n)
  <2>1. r[j] = s[j - (i-1)]
    <3>1. r = p \o s
      BY <1>1
    <3>2. p \in Seq(Entries) /\ Len(p) = i - 1
      OBVIOUS
    <3>3. s \in Seq(Entries) /\ Len(s) = n - i
      OBVIOUS
    <3> HIDE DEF p, s
    <3>4. QED
      BY <3>1, <3>2, <3>3
  <2>2. j - (i-1) \in 1..(n-i) /\ (j - (i-1)) + i = j + 1
    OBVIOUS
  <2>3. \A m \in 1..(n-i) : s[m] = l[m+i]
    OBVIOUS
  <2> HIDE DEF s
  <2>4. QED
    BY <2>1, <2>2, <2>3
<1>5. QED
  BY <1>2, <1>3, <1>4 DEF Removed

\* Where list_add stops, and the list it leaves.
Added(l, n, e, i, r) ==
  /\ r \in Seq(Entries) /\ r[i] = e
  /\ \/ /\ i <= n /\ l[i].key = e.key /\ Len(r) = n
        /\ \A j \in 1..n : j # i => r[j] = l[j]
     \/ /\ i <= n => Strcmp(l[i].key, e.key) = 1
        /\ Inserted(l, n, e, i, r)

LEMMA AddShape ==
  ASSUME NEW l \in Seq(Entries), NEW n \in Nat, Len(l) = n,
         NEW e \in Entries, NEW i \in 1..(n + 1), FirstPlace(l, e.key, Stops, i),
         NEW r, r = ListAdd(l, e, i)
  PROVE  Added(l, n, e, i, r)
<1>1. e.key \in Keys
  BY DEF Entries
<1>2. CASE i <= n /\ Strcmp(l[i].key, e.key) = 0
  <2>1. l[i] \in Entries /\ l[i].key \in Keys
    <3>1. l[i] \in Entries
      BY <1>2
    <3>2. QED
      BY <3>1 DEF Entries
  <2>2. l[i].key = e.key
    BY <1>1, <1>2, <2>1, StrcmpAssumption
  <2>3. r = [l EXCEPT ![i] = e]
    BY <1>2 DEF ListAdd, ReplaceAt
  <2>4. r \in Seq(Entries) /\ Len(r) = n /\ r[i] = e
        /\ \A j \in 1..n : j # i => r[j] = l[j]
    BY <1>2, <2>3
  <2>5. QED
    BY <1>2, <2>2, <2>4 DEF Added
<1>3. CASE ~(i <= n /\ Strcmp(l[i].key, e.key) = 0)
  <2>1. r = InsertAt(l, i, e)
    BY <1>3 DEF ListAdd
  <2>2. i <= n => Strcmp(l[i].key, e.key) = 1
    BY <1>3 DEF FirstPlace, Stops
  <2>3. Inserted(l, n, e, i, r)
    BY <2>1, InsertShape
  <2>4. r \in Seq(Entries) /\ r[i] = e
    BY <2>3 DEF Inserted
  <2>5. QED
    BY <2>2, <2>3, <2>4 DEF Added
<1>4. QED
  BY <1>2, <1>3

\* What a put and a remove do to the one list they touch.
Touches(h, r) == lists' = [lists EXCEPT ![h] = r] /\ r = lists'[h]

LEMMA PutEffect ==
  ASSUME TypeOK, NEW k \in Keys, NEW v \in Values, TablePut(k, v),
         NEW h, h = HashFunction(k), NEW e, e = [key |-> k, value |-> v]
  PROVE  \E n \in Nat : \E i \in 1..(n + 1) : \E r :
           /\ lists[h] \in Seq(Entries) /\ Len(lists[h]) = n
           /\ FirstPlace(lists[h], k, Stops, i)
           /\ Added(lists[h], n, e, i, r)
           /\ Touches(h, r)
<1>1. h \in DOMAIN lists /\ lists[h] \in Seq(Entries)
  BY ListType DEF List
<1>2. e \in Entries /\ e.key = k
  BY DEF Entries
<1>3. PICK i \in 1..(Len(lists[h]) + 1) :
        /\ FirstPlace(lists[h], k, Stops, i)
        /\ lists' = [lists EXCEPT ![h] = ListAdd(lists[h], e, i)]
  BY DEF TablePut, List
<1>4. PICK n \in Nat : Len(lists[h]) = n
  BY <1>1
<1>5. Added(lists[h], n, e, i, ListAdd(lists[h], e, i))
  BY <1>1, <1>2, <1>3, <1>4, AddShape
<1>6. Touches(h, ListAdd(lists[h], e, i))
  BY <1>1, <1>3 DEF Touches
<1>7. QED
  BY <1>1, <1>3, <1>4, <1>5, <1>6

LEMMA RemoveEffect ==
  ASSUME TypeOK, NEW k \in Keys, TableRemove(k), NEW h, h = HashFunction(k)
  PROVE  \/ lists' = lists
         \/ \E n \in Nat : \E i \in 1..n : \E r :
              /\ lists[h] \in Seq(Entries) /\ Len(lists[h]) = n
              /\ Finds(lists[h], k, i)
              /\ Removed(lists[h], n, i, r)
              /\ Touches(h, r)
<1>1. h \in DOMAIN lists /\ lists[h] \in Seq(Entries)
  BY ListType DEF List
<1>2. PICK n \in Nat : Len(lists[h]) = n
  BY <1>1
<1>3. CASE lists' = lists
  BY <1>3
<1>4. CASE lists' # lists
  <2>1. PICK i \in 1..n :
          /\ Finds(lists[h], k, i)
          /\ lists' = [lists EXCEPT ![h] = RemoveAt(lists[h], i)]
    BY <1>2, <1>4 DEF TableRemove, List
  <2>2. Removed(lists[h], n, i, RemoveAt(lists[h], i))
    BY <1>1, <1>2, RemoveShape
  <2>3. Touches(h, RemoveAt(lists[h], i))
    BY <1>1, <2>1 DEF Touches
  <2>4. QED
    BY <1>1, <1>2, <2>1, <2>2, <2>3
<1>5. QED
  BY <1>3, <1>4

\* The operations that only read.
LEMMA Reading ==
  ASSUME Next, \A k \in Keys : ~TableRemove(k) /\ \A v \in Values : ~TablePut(k, v)
  PROVE  UNCHANGED lists
  BY DEF Next, TableGet, TableSize, TableGetKeys

-----------------------------------------------------------------------------
(* Every list is a list of entries *)

LEMMA TypeStep == TypeOK /\ [Next]_vars => TypeOK'
<1> SUFFICES ASSUME TypeOK, [Next]_vars PROVE TypeOK'
  OBVIOUS
<1>1. ASSUME NEW k \in Keys, NEW v \in Values, TablePut(k, v) PROVE TypeOK'
  <2>1. PICK r : r \in Seq(Entries) /\ Touches(HashFunction(k), r)
    BY <1>1, PutEffect DEF Added
  <2>2. QED
    BY <2>1 DEF TypeOK, Touches
<1>2. ASSUME NEW k \in Keys, TableRemove(k) PROVE TypeOK'
  <2>1. CASE lists' = lists
    BY <2>1 DEF TypeOK
  <2>2. ASSUME NEW r, r \in Seq(Entries), Touches(HashFunction(k), r) PROVE TypeOK'
    BY <2>2 DEF TypeOK, Touches
  <2>3. QED
    BY <1>2, <2>1, <2>2, RemoveEffect DEF Removed
<1>3. CASE UNCHANGED lists
  BY <1>3 DEF TypeOK
<1>4. QED
  BY <1>1, <1>2, <1>3, Reading DEF vars

LEMMA TypeInit == Init => TypeOK
  BY TableAssumption DEF Init, TypeOK

\* table.c keeps lists of entries, whatever the order of the operations.
THEOREM TypeCorrect == Spec => []TypeOK
  BY TypeInit, TypeStep, PTL DEF Spec

-----------------------------------------------------------------------------
(* With a strcmp that returns -1, 0 or 1 every list is sorted *)

Increasing(l, n) == \A i, j \in 1..n : i < j => Strcmp(l[i].key, l[j].key) < 0

LEMMA KeyType ==
  ASSUME NEW l \in Seq(Entries), NEW n \in Nat, Len(l) = n, NEW i \in 1..n
  PROVE  l[i].key \in Keys
<1>1. l[i] \in Entries
  OBVIOUS
<1>2. QED
  BY <1>1 DEF Entries

LEMMA AddSorted ==
  ASSUME UnitStrcmp, NEW l \in Seq(Entries), NEW n \in Nat, Len(l) = n,
         NEW e \in Entries, NEW i \in 1..(n + 1), FirstPlace(l, e.key, Stops, i),
         NEW r, Added(l, n, e, i, r), Increasing(l, n)
  PROVE  Increasing(r, Len(r))
<1>1. e.key \in Keys
  BY DEF Entries
<1>2. \A j \in 1..n : l[j].key \in Keys
  BY KeyType
<1>3. \A j \in 1..(i-1) : Strcmp(l[j].key, e.key) < 0
  BY <1>1, <1>2 DEF UnitStrcmp, FirstPlace, Stops
<1>4. CASE /\ i <= n /\ l[i].key = e.key /\ Len(r) = n /\ r[i] = e
           /\ \A j \in 1..n : j # i => r[j] = l[j]
  <2>1. \A j \in 1..n : r[j].key = l[j].key
    BY <1>4
  <2>2. QED
    BY <1>4, <2>1 DEF Increasing
<1>5. CASE /\ i <= n => Strcmp(l[i].key, e.key) = 1
           /\ Inserted(l, n, e, i, r)
  <2>1. Len(r) = n + 1 /\ r[i] = e
        /\ (\A j \in 1..(i-1) : r[j] = l[j])
        /\ \A j \in (i+1)..(n+1) : r[j] = l[j-1] /\ j - 1 \in i..n
    BY <1>5 DEF Inserted
  <2>2. \A j \in i..n : Strcmp(e.key, l[j].key) < 0
    <3> TAKE j \in i..n
    <3>1. i <= n /\ i \in 1..n /\ j \in 1..n
      OBVIOUS
    <3>2. Strcmp(e.key, l[i].key) < 0
      <4>1. Strcmp(l[i].key, e.key) > 0
        BY <1>5, <3>1
      <4>2. QED
        BY <1>1, <1>2, <3>1, <4>1, StrcmpAssumption
    <3>3. CASE j = i
      BY <3>2, <3>3
    <3>4. CASE j # i
      <4>1. Strcmp(l[i].key, l[j].key) < 0
        BY <3>1, <3>4 DEF Increasing
      <4>2. QED
        BY <1>1, <1>2, <3>1, <3>2, <4>1, StrcmpAssumption
    <3>5. QED
      BY <3>3, <3>4
  <2> SUFFICES ASSUME NEW a \in 1..(n+1), NEW b \in 1..(n+1), a < b
               PROVE  Strcmp(r[a].key, r[b].key) < 0
    BY <2>1 DEF Increasing
  <2>3. CASE a < i /\ b < i
    BY <2>1, <2>3 DEF Increasing
  <2>4. CASE a < i /\ b = i
    BY <1>3, <2>1, <2>4
  <2>5. CASE a < i /\ b > i
    <3>1. r[a] = l[a] /\ r[b] = l[b-1] /\ a < b - 1 /\ a \in 1..n /\ b - 1 \in 1..n
      BY <2>1, <2>5
    <3>2. QED
      BY <3>1 DEF Increasing
  <2>6. CASE a = i /\ b > i
    BY <2>1, <2>2, <2>6
  <2>7. CASE a > i
    <3>1. r[a] = l[a-1] /\ r[b] = l[b-1] /\ a - 1 < b - 1 /\ a - 1 \in 1..n /\ b - 1 \in 1..n
      BY <2>1, <2>7
    <3>2. QED
      BY <3>1 DEF Increasing
  <2>8. QED
    BY <2>3, <2>4, <2>5, <2>6, <2>7
<1>6. QED
  BY <1>4, <1>5 DEF Added

LEMMA RemoveSorted ==
  ASSUME NEW l, NEW n \in Nat, NEW i \in 1..n, NEW r, Removed(l, n, i, r), Increasing(l, n)
  PROVE  Increasing(r, Len(r))
<1>1. Len(r) = n - 1
      /\ (\A j \in 1..(i-1) : r[j] = l[j])
      /\ \A j \in i..(n-1) : r[j] = l[j+1]
  BY DEF Removed
<1> DEFINE from(j) == IF j < i THEN j ELSE j + 1
<1>2. \A j \in 1..(n-1) : r[j] = l[from(j)] /\ from(j) \in 1..n
  BY <1>1
<1>3. \A a, b \in 1..(n-1) : a < b => from(a) < from(b)
  OBVIOUS
<1> HIDE DEF from
<1>4. \A a, b \in 1..(n-1) : a < b => Strcmp(l[from(a)].key, l[from(b)].key) < 0
  BY <1>2, <1>3 DEF Increasing
<1>5. SUFFICES ASSUME NEW a \in 1..(n-1), NEW b \in 1..(n-1), a < b
               PROVE  Strcmp(r[a].key, r[b].key) < 0
  BY <1>1 DEF Increasing
<1>6. r[a] = l[from(a)] /\ r[b] = l[from(b)]
  BY <1>2
<1>7. QED
  BY <1>4, <1>5, <1>6

LEMMA SortedStep == UnitStrcmp /\ TypeOK /\ Sorted /\ [Next]_vars => Sorted'
<1> SUFFICES ASSUME UnitStrcmp, TypeOK, Sorted, [Next]_vars PROVE Sorted'
  OBVIOUS
<1>1. \A h \in DOMAIN lists : Increasing(lists[h], Len(lists[h]))
  BY DEF Sorted, Increasing
<1>2. ASSUME NEW k \in Keys, NEW r, Increasing(r, Len(r)), Touches(HashFunction(k), r)
      PROVE  Sorted'
  BY <1>1, <1>2 DEF Sorted, Increasing, Touches
<1>3. ASSUME NEW k \in Keys, NEW v \in Values, TablePut(k, v) PROVE Sorted'
  <2> DEFINE h == HashFunction(k)
             e == [key |-> k, value |-> v]
  <2>1. e \in Entries /\ e.key = k /\ h \in DOMAIN lists
    BY ListType DEF Entries
  <2> HIDE DEF e
  <2>2. PICK n \in Nat : \E i \in 1..(n + 1) : \E r :
          /\ lists[h] \in Seq(Entries) /\ Len(lists[h]) = n
          /\ FirstPlace(lists[h], k, Stops, i)
          /\ Added(lists[h], n, e, i, r)
          /\ Touches(h, r)
    BY <1>3, PutEffect DEF e
  <2>2a. PICK i \in 1..(n + 1) : \E r :
          /\ lists[h] \in Seq(Entries) /\ Len(lists[h]) = n
          /\ FirstPlace(lists[h], e.key, Stops, i)
          /\ Added(lists[h], n, e, i, r)
          /\ Touches(h, r)
    BY <2>1, <2>2
  <2>3. PICK r :
          /\ lists[h] \in Seq(Entries) /\ Len(lists[h]) = n
          /\ FirstPlace(lists[h], e.key, Stops, i)
          /\ Added(lists[h], n, e, i, r)
          /\ Touches(h, r)
    BY <2>2a
  <2>4. Increasing(r, Len(r))
    BY <1>1, <2>1, <2>3, AddSorted
  <2>5. QED
    BY <1>2, <2>3, <2>4
<1>4. ASSUME NEW k \in Keys, TableRemove(k) PROVE Sorted'
  <2> DEFINE h == HashFunction(k)
  <2>1. h \in DOMAIN lists
    BY ListType
  <2>2. CASE lists' = lists
    BY <2>2 DEF Sorted
  <2>3. ASSUME NEW n \in Nat, NEW i \in 1..n, NEW r, Len(lists[h]) = n,
               Removed(lists[h], n, i, r), Touches(h, r)
        PROVE  Sorted'
    BY <1>1, <1>2, <2>1, <2>3, RemoveSorted
  <2>4. QED
    BY <1>4, <2>2, <2>3, RemoveEffect
<1>5. CASE UNCHANGED lists
  BY <1>5 DEF Sorted
<1>6. QED
  BY <1>3, <1>4, <1>5, Reading DEF vars

\* With a strcmp that returns -1, 0 or 1, as entry_compare says it does, list_add
\* keeps every list strictly increasing, so that no key is ever there twice.
THEOREM SortedAlways ==
  ASSUME UnitStrcmp PROVE Spec => []Sorted
<1>1. Init => Sorted
  BY DEF Init, Sorted
<1>2. UnitStrcmp
  OBVIOUS
<1>3. TypeOK /\ Sorted /\ [Next]_vars => Sorted'
  BY <1>2, SortedStep
<1>4. QED
  BY <1>1, <1>3, TypeCorrect, PTL DEF Spec

-----------------------------------------------------------------------------
(* What was put is found, with any strcmp *)

LEMMA GetFirst ==
  ASSUME NEW l \in Seq(Entries), NEW k \in Keys, NEW i \in 1..Len(l), Finds(l, k, i)
  PROVE  ListGet(l, k) = l[i].value
<1>1. ASSUME NEW j \in 1..Len(l), Finds(l, k, j) PROVE j = i
  <2>1. i \in Int /\ j \in Int /\ Strcmp(l[i].key, k) = 0 /\ Strcmp(l[j].key, k) = 0
    BY <1>1 DEF Finds, FirstPlace
  <2>2. ~(i < j) /\ ~(j < i)
    BY <1>1, <2>1 DEF Finds, FirstPlace
  <2>3. QED
    BY <2>1, <2>2
<1>2. QED
  BY <1>1 DEF ListGet

LEMMA PutFound ==
  ASSUME TypeOK, NEW k \in Keys, NEW v \in Values, TablePut(k, v)
  PROVE  Lookup(k)' = v
<1> DEFINE h == HashFunction(k)
           e == [key |-> k, value |-> v]
<1>1. e \in Entries /\ e.key = k /\ e.value = v
  BY DEF Entries
<1> HIDE DEF e
<1>2. PICK n \in Nat : \E i \in 1..(n + 1) : \E r :
        /\ lists[h] \in Seq(Entries) /\ Len(lists[h]) = n
        /\ FirstPlace(lists[h], k, Stops, i)
        /\ Added(lists[h], n, e, i, r)
        /\ Touches(h, r)
  BY PutEffect DEF e
<1>2a. PICK i \in 1..(n + 1) : \E r :
        /\ FirstPlace(lists[h], k, Stops, i)
        /\ Added(lists[h], n, e, i, r)
        /\ Touches(h, r)
  BY <1>2
<1>3. PICK r :
        /\ FirstPlace(lists[h], k, Stops, i)
        /\ Added(lists[h], n, e, i, r)
        /\ Touches(h, r)
  BY <1>2a
<1>4. /\ r \in Seq(Entries) /\ r[i] = e /\ i \in 1..Len(r)
      /\ \A j \in 1..(i-1) : r[j] = lists[h][j]
  BY <1>3 DEF Added, Inserted
<1>5. Finds(r, k, i)
  <2>1. Strcmp(r[i].key, k) = 0
    BY <1>1, <1>4, StrcmpAssumption
  <2>2. \A j \in 1..(i-1) : Strcmp(r[j].key, k) # 0
    BY <1>3, <1>4 DEF FirstPlace, Stops
  <2>3. QED
    BY <1>4, <2>1, <2>2 DEF Finds, FirstPlace
<1>6. ListGet(r, k) = v
  BY <1>1, <1>4, <1>5, GetFirst
<1>7. List(k)' = r
  BY <1>3 DEF List, Touches
<1>8. QED
  BY <1>6, <1>7 DEF Lookup

\* After a put of a key, a get of it finds what was put: list_add never leaves a
\* new entry behind an old one with the same key, whatever strcmp returns.
THEOREM PutIsFoundAlways == Spec => PutIsFound
<1>1. TypeOK => [\A k \in Keys, v \in Values : TablePut(k, v) => Lookup(k)' = v]_vars
  BY PutFound
<1>2. QED
  BY <1>1, TypeCorrect, PTL DEF PutIsFound

-----------------------------------------------------------------------------
(* What a get of another key finds *)

\* Two lists in which a get of k stops at entries with the same value.
LEMMA SameGet ==
  ASSUME NEW l \in Seq(Entries), NEW r \in Seq(Entries), NEW k \in Keys,
         \A a \in 1..Len(l) : Finds(l, k, a) =>
           \E b \in 1..Len(r) : Finds(r, k, b) /\ r[b].value = l[a].value,
         \A b \in 1..Len(r) : Finds(r, k, b) => \E a \in 1..Len(l) : Finds(l, k, a)
  PROVE  ListGet(r, k) = ListGet(l, k)
<1>1. CASE \E a \in 1..Len(l) : Finds(l, k, a)
  <2>1. PICK a \in 1..Len(l) : Finds(l, k, a)
    BY <1>1
  <2>2. PICK b \in 1..Len(r) : Finds(r, k, b) /\ r[b].value = l[a].value
    BY <2>1
  <2>3. ListGet(l, k) = l[a].value /\ ListGet(r, k) = r[b].value
    BY <2>1, <2>2, GetFirst
  <2>4. QED
    BY <2>2, <2>3
<1>2. CASE ~ \E a \in 1..Len(l) : Finds(l, k, a)
  BY <1>2 DEF ListGet
<1>3. QED
  BY <1>1, <1>2

\* An entry of another key, inserted anywhere, changes nothing for k.
LEMMA InsertOther ==
  ASSUME NEW l \in Seq(Entries), NEW n \in Nat, Len(l) = n, NEW i \in 1..(n + 1),
         NEW e \in Entries, NEW r, Inserted(l, n, e, i, r), NEW k \in Keys, e.key # k
  PROVE  ListGet(r, k) = ListGet(l, k)
<1>1. /\ r \in Seq(Entries) /\ Len(r) = n + 1 /\ r[i] = e
      /\ \A j \in 1..(i-1) : r[j] = l[j]
      /\ \A j \in (i+1)..(n+1) : r[j] = l[j-1]
  BY DEF Inserted
<1>2. Strcmp(r[i].key, k) # 0
  <2>1. e.key \in Keys
    BY DEF Entries
  <2>2. QED
    BY <1>1, <2>1, StrcmpAssumption
<1> DEFINE to(a) == IF a < i THEN a ELSE a + 1
           from(b) == IF b < i THEN b ELSE b - 1
<1>3. \A a \in 1..n : to(a) \in 1..(n+1) /\ r[to(a)] = l[a]
  <2> TAKE a \in 1..n
  <2>1. CASE a < i
    BY <1>1, <2>1
  <2>2. CASE ~(a < i)
    <3>1. PICK b \in (i+1)..(n+1) : b = a + 1
      BY <2>2
    <3>2. r[b] = l[b-1] /\ b - 1 = a
      BY <1>1, <3>1
    <3>3. QED
      BY <2>2, <3>1, <3>2
  <2>3. QED
    BY <2>1, <2>2
<1>4. \A b \in 1..(n+1) : b # i => from(b) \in 1..n /\ r[b] = l[from(b)]
  BY <1>1
<1>5. /\ \A a \in 1..n : \A b \in 1..(to(a)-1) : b # i => from(b) \in 1..(a-1)
      /\ \A b \in 1..(n+1) : b # i => \A a \in 1..(from(b)-1) : to(a) \in 1..(b-1)
  OBVIOUS
<1> HIDE DEF to, from
<1>6. ASSUME NEW a \in 1..n, Finds(l, k, a)
      PROVE  Finds(r, k, to(a)) /\ r[to(a)].value = l[a].value
  <2>1. /\ Strcmp(l[a].key, k) = 0 /\ \A j \in 1..(a-1) : Strcmp(l[j].key, k) # 0
    BY <1>6 DEF Finds, FirstPlace
  <2>2. Strcmp(r[to(a)].key, k) = 0 /\ to(a) \in 1..(n+1)
    BY <1>3, <2>1
  <2>3. ASSUME NEW b \in 1..(to(a)-1) PROVE Strcmp(r[b].key, k) # 0
    <3>1. CASE b = i
      BY <1>2, <3>1
    <3>2. CASE b # i
      <4>1. b \in 1..(n+1) /\ from(b) \in 1..(a-1)
        BY <1>5, <2>2, <3>2
      <4>2. r[b] = l[from(b)]
        BY <1>4, <3>2, <4>1
      <4>3. QED
        BY <2>1, <4>1, <4>2
    <3>3. QED
      BY <3>1, <3>2
  <2>4. QED
    BY <1>1, <1>3, <2>2, <2>3 DEF Finds, FirstPlace
<1>7. ASSUME NEW b \in 1..(n+1), Finds(r, k, b) PROVE b # i /\ Finds(l, k, from(b))
  <2>1. /\ Strcmp(r[b].key, k) = 0 /\ \A j \in 1..(b-1) : Strcmp(r[j].key, k) # 0
    BY <1>1, <1>7 DEF Finds, FirstPlace
  <2>2. b # i
    BY <1>2, <2>1
  <2>3. from(b) \in 1..n /\ Strcmp(l[from(b)].key, k) = 0
    BY <1>4, <2>1, <2>2
  <2>4. ASSUME NEW a \in 1..(from(b)-1) PROVE Strcmp(l[a].key, k) # 0
    <3>1. a \in 1..n /\ to(a) \in 1..(b-1)
      BY <1>5, <2>2, <2>3
    <3>2. r[to(a)] = l[a]
      BY <1>3, <3>1
    <3>3. QED
      BY <2>1, <3>1, <3>2
  <2>5. QED
    BY <2>2, <2>3, <2>4 DEF Finds, FirstPlace
<1>8. \A a \in 1..Len(l) : Finds(l, k, a) =>
        \E b \in 1..Len(r) : Finds(r, k, b) /\ r[b].value = l[a].value
  BY <1>1, <1>3, <1>6
<1>9. \A b \in 1..Len(r) : Finds(r, k, b) => \E a \in 1..Len(l) : Finds(l, k, a)
  BY <1>1, <1>4, <1>7
<1>10. QED
  BY ONLY <1>1, <1>8, <1>9, l \in Seq(Entries), k \in Keys, SameGet

\* A removal is the reverse of an insertion.
LEMMA RemoveOther ==
  ASSUME NEW l \in Seq(Entries), NEW n \in Nat, Len(l) = n, NEW i \in 1..n,
         NEW r, Removed(l, n, i, r), NEW k \in Keys, l[i].key # k
  PROVE  ListGet(r, k) = ListGet(l, k)
<1>1. /\ r \in Seq(Entries) /\ Len(r) = n - 1
      /\ \A j \in 1..(i-1) : r[j] = l[j]
      /\ \A j \in i..(n-1) : r[j] = l[j+1]
  BY DEF Removed
<1>2. PICK m \in Nat : n = m + 1 /\ n - 1 = m
  OBVIOUS
<1>3. \A j \in (i+1)..n : l[j] = r[j-1]
  <2> TAKE j \in (i+1)..n
  <2>1. j - 1 \in i..(n-1) /\ (j - 1) + 1 = j
    OBVIOUS
  <2>2. QED
    BY <1>1, <2>1
<1>4. Inserted(r, m, l[i], i, l)
  BY <1>1, <1>2, <1>3 DEF Inserted
<1>5. l[i] \in Entries
  OBVIOUS
<1>6. QED
  BY <1>1, <1>2, <1>4, <1>5, InsertOther

LEMMA AddOther ==
  ASSUME NEW l \in Seq(Entries), NEW n \in Nat, Len(l) = n, NEW i \in 1..(n + 1),
         NEW e \in Entries, NEW r, Added(l, n, e, i, r), NEW k \in Keys, e.key # k
  PROVE  ListGet(r, k) = ListGet(l, k)
<1>1. CASE Inserted(l, n, e, i, r)
  BY <1>1, InsertOther
<1>2. CASE /\ i <= n /\ l[i].key = e.key /\ Len(r) = n
           /\ r \in Seq(Entries) /\ r[i] = e
           /\ \A j \in 1..n : j # i => r[j] = l[j]
  <2>1. \A j \in 1..n : r[j].key = l[j].key
    BY <1>2
  <2>2. \A j \in 1..n : Finds(r, k, j) <=> Finds(l, k, j)
    BY <1>2, <2>1 DEF Finds, FirstPlace
  <2>3. \A j \in 1..n : Finds(l, k, j) => r[j].value = l[j].value
    <3> SUFFICES ASSUME NEW j \in 1..n, Finds(l, k, j) PROVE j # i
      BY <1>2
    <3>1. Strcmp(l[j].key, k) = 0
      BY DEF Finds, FirstPlace
    <3>2. l[j].key = k
      BY <3>1, KeyType, StrcmpAssumption
    <3>3. QED
      BY <1>2, <3>2
  <2>4. QED
    BY <1>2, <2>2, <2>3, SameGet
<1>3. QED
  BY <1>1, <1>2 DEF Added

LEMMA OthersStep ==
  ASSUME TypeOK, NEW k \in Keys, NEW o \in Keys, o # k,
         TableRemove(k) \/ \E v \in Values : TablePut(k, v)
  PROVE  Lookup(o)' = Lookup(o)
<1> DEFINE h == HashFunction(k)
           g == HashFunction(o)
<1>1. h \in DOMAIN lists /\ g \in DOMAIN lists
  BY ListType
<1>2. CASE lists' = lists
  BY <1>2 DEF Lookup, List
<1>3. ASSUME NEW r, Touches(h, r), ListGet(r, o) = ListGet(lists[h], o)
      PROVE  Lookup(o)' = Lookup(o)
  BY <1>1, <1>3 DEF Touches, Lookup, List
<1>4. ASSUME NEW v \in Values, TablePut(k, v) PROVE Lookup(o)' = Lookup(o)
  <2> DEFINE e == [key |-> k, value |-> v]
  <2>1. e \in Entries /\ e.key = k
    BY DEF Entries
  <2> HIDE DEF e
  <2>2. PICK n \in Nat : \E i \in 1..(n + 1) : \E r :
          /\ lists[h] \in Seq(Entries) /\ Len(lists[h]) = n
          /\ FirstPlace(lists[h], k, Stops, i)
          /\ Added(lists[h], n, e, i, r)
          /\ Touches(h, r)
    BY <1>4, PutEffect DEF e
  <2>3. PICK i \in 1..(n + 1) : \E r :
          /\ lists[h] \in Seq(Entries) /\ Len(lists[h]) = n
          /\ Added(lists[h], n, e, i, r)
          /\ Touches(h, r)
    BY <2>2
  <2>4. QED
    BY <1>3, <2>1, <2>3, AddOther
<1>5. ASSUME TableRemove(k), lists' # lists PROVE Lookup(o)' = Lookup(o)
  <2>1. PICK n \in Nat : \E i \in 1..n : \E r :
          /\ lists[h] \in Seq(Entries) /\ Len(lists[h]) = n
          /\ Finds(lists[h], k, i)
          /\ Removed(lists[h], n, i, r)
          /\ Touches(h, r)
    BY <1>5, RemoveEffect
  <2>2. PICK i \in 1..n : \E r :
          /\ lists[h] \in Seq(Entries) /\ Len(lists[h]) = n
          /\ Finds(lists[h], k, i)
          /\ Removed(lists[h], n, i, r)
          /\ Touches(h, r)
    BY <2>1
  <2>3. lists[h][i].key = k
    <3>1. Strcmp(lists[h][i].key, k) = 0 /\ lists[h][i].key \in Keys
      BY <2>2, KeyType DEF Finds, FirstPlace
    <3>2. QED
      BY <3>1, StrcmpAssumption
  <2>4. QED
    BY <1>3, <2>2, <2>3, RemoveOther
<1>6. QED
  BY <1>2, <1>4, <1>5

\* A put or a remove of a key never changes what a get of another key finds,
\* also where both share a list and whatever strcmp returns.
THEOREM OthersKeptAlways == Spec => OthersKept
<1>1. TypeOK => [\A k, other \in Keys :
        other # k /\ (TableRemove(k) \/ \E v \in Values : TablePut(k, v))
          => Lookup(other)' = Lookup(other)]_vars
  BY OthersStep
<1>2. QED
  BY <1>1, TypeCorrect, PTL DEF OthersKept

-----------------------------------------------------------------------------
(* The table seen as a map *)

Seen == [k \in Keys |-> Lookup(k)]

\* The operations of a key, put first, are those of the map.
LEMMA PutOnMap ==
  ASSUME TypeOK, NEW k \in Keys, NEW v \in Values, TablePut(k, v)
  PROVE  TM!Put(k, v)
<1>1. Seen' = [Seen EXCEPT ![k] = v]
  BY PutFound, OthersStep DEF Seen
<1>2. QED
  BY <1>1 DEF TM!Put, TablePut, Seen

LEMMA GetOnMap ==
  ASSUME NEW k \in Keys, TableGet(k)
  PROVE  TM!Get(k)
<1>1. Seen' = Seen
  BY DEF TableGet, Seen, Lookup, List
<1>2. QED
  BY <1>1 DEF TM!Get, TableGet, Seen

LEMMA RemoveOnMap ==
  ASSUME TypeOK, Sorted, NEW k \in Keys, TableRemove(k)
  PROVE  TM!Remove(k)
<1> DEFINE h == HashFunction(k)
<1>1. h \in DOMAIN lists /\ lists[h] \in Seq(Entries) /\ List(k) = lists[h]
  BY ListType DEF List
<1>2. \A o \in Keys : o # k => Lookup(o)' = Lookup(o)
  BY OthersStep
<1>3. ASSUME NEW z \in {0, 1}, reply' = <<"remove", k, z>>, Lookup(k)' = Absent,
             z = 0 <=> Lookup(k) # Absent
      PROVE  TM!Remove(k)
  <2>1. Seen' = [Seen EXCEPT ![k] = Absent]
    BY <1>2, <1>3 DEF Seen
  <2>2. k \in TM!Stored <=> z = 0
    BY <1>3 DEF TM!Stored
  <2>3. QED
    BY <1>3, <2>1, <2>2 DEF TM!Remove, Seen
<1>4. ASSUME NEW i \in 1..Len(lists[h]), Finds(lists[h], k, i),
             lists' = [lists EXCEPT ![h] = RemoveAt(lists[h], i)]
      PROVE  Lookup(k)' = Absent /\ Lookup(k) # Absent
  <2>1. PICK l \in Seq(Entries) : l = lists[h]
    BY <1>1
  <2>2. PICK n \in Nat : Len(l) = n
    OBVIOUS
  <2>3. PICK r : r = RemoveAt(l, i)
    OBVIOUS
  <2>4. i \in 1..n /\ Finds(l, k, i) /\ Removed(l, n, i, r)
    BY <1>4, <2>1, <2>2, <2>3, RemoveShape
  <2>5. l[i].key = k /\ l[i].value \in Values
    <3>1. Strcmp(l[i].key, k) = 0 /\ l[i] \in Entries
      BY <2>2, <2>4 DEF Finds, FirstPlace
    <3>2. l[i].key \in Keys /\ l[i].value \in Values
      BY <3>1 DEF Entries
    <3>3. QED
      BY <3>1, <3>2, StrcmpAssumption
  <2>6. Lookup(k) = l[i].value
    BY <1>1, <2>1, <2>2, <2>4, GetFirst DEF Lookup
  <2>7. \A j \in 1..n : j # i => l[j].key # k
    <3>1. \A a, b \in 1..n : a < b => Strcmp(l[a].key, l[b].key) < 0
      BY <1>1, <2>1, <2>2 DEF Sorted
    <3>2. ASSUME NEW a \in 1..n, NEW b \in 1..n, a < b PROVE l[a].key # l[b].key
      <4>1. Strcmp(l[a].key, l[b].key) < 0
        BY <3>1, <3>2
      <4>2. l[a].key \in Keys /\ l[b].key \in Keys
        BY <2>2, KeyType
      <4>3. QED
        BY <4>1, <4>2, StrcmpAssumption
    <3>3. QED
      BY <2>4, <2>5, <3>2
  <2>8. /\ r \in Seq(Entries) /\ Len(r) = n - 1
        /\ \A j \in 1..(n-1) : r[j].key # k
    <3>1. /\ r \in Seq(Entries) /\ Len(r) = n - 1
          /\ \A j \in 1..(i-1) : r[j] = l[j]
          /\ \A j \in i..(n-1) : r[j] = l[j+1]
      BY <2>4 DEF Removed
    <3>2. ASSUME NEW j \in 1..(n-1) PROVE r[j].key # k
      <4>1. CASE j < i
        BY <2>4, <2>7, <3>1, <4>1
      <4>2. CASE ~(j < i)
        <5>1. PICK m \in 1..n : m = j + 1 /\ m # i
          BY <2>4, <4>2
        <5>2. r[j] = l[m]
          BY <2>4, <3>1, <4>2, <5>1
        <5>3. QED
          BY <2>7, <5>1, <5>2
      <4>3. QED
        BY <4>1, <4>2
    <3>3. QED
      BY <3>1, <3>2
  <2>9. \A j \in 1..Len(r) : ~Finds(r, k, j)
    <3> SUFFICES ASSUME NEW j \in 1..Len(r), Finds(r, k, j) PROVE FALSE
      OBVIOUS
    <3>1. Strcmp(r[j].key, k) = 0 /\ r[j] \in Entries /\ j \in 1..(n-1)
      BY <2>8 DEF Finds, FirstPlace
    <3>2. r[j].key \in Keys
      BY <3>1 DEF Entries
    <3>3. QED
      BY <2>8, <3>1, <3>2, StrcmpAssumption
  <2>10. Lookup(k)' = ListGet(r, k)
    BY <1>1, <1>4, <2>1, <2>3 DEF Lookup, List
  <2>11. QED
    BY <2>5, <2>6, <2>9, <2>10, TableAssumption DEF ListGet
<1>5. CASE \E i \in 1..Len(lists[h]) : /\ Finds(lists[h], k, i)
                                       /\ lists' = [lists EXCEPT ![h] = RemoveAt(lists[h], i)]
                                       /\ reply' = <<"remove", k, 0>>
  BY <1>3, <1>4, <1>5
<1>6. CASE /\ \A i \in 1..Len(lists[h]) : ~Finds(lists[h], k, i)
           /\ reply' = <<"remove", k, 1>> /\ UNCHANGED lists
  <2>1. Lookup(k) = Absent /\ Lookup(k)' = Absent
    BY <1>1, <1>6 DEF Lookup, List, ListGet
  <2>2. QED
    BY <1>3, <1>6, <2>1
<1>7. QED
  BY <1>1, <1>5, <1>6 DEF TableRemove

LEMMA MapInit == Init => TM!TMInit
<1> SUFFICES ASSUME Init PROVE TM!TMInit
  OBVIOUS
<1>1. \A k \in Keys : Lookup(k) = Absent
  BY HashIsZero DEF Init, Lookup, List, ListGet
<1>2. QED
  BY <1>1 DEF Init, TM!TMInit

\* Only list 0 ever has entries.
OneList == \A h \in DOMAIN lists : h # 0 => lists[h] = <<>>

LEMMA OneListStep == TypeOK /\ OneList /\ [Next]_vars => OneList'
<1> SUFFICES ASSUME TypeOK, OneList, [Next]_vars PROVE OneList'
  OBVIOUS
<1>1. ASSUME NEW k \in Keys, NEW r, lists' = [lists EXCEPT ![HashFunction(k)] = r]
      PROVE  OneList'
  BY <1>1, HashIsZero DEF OneList
<1>2. ASSUME NEW k \in Keys, NEW v \in Values, TablePut(k, v) PROVE OneList'
  BY <1>1, <1>2 DEF TablePut
<1>3. ASSUME NEW k \in Keys, TableRemove(k) PROVE OneList'
  <2>1. CASE UNCHANGED lists
    BY <2>1 DEF OneList
  <2>2. CASE lists' # lists
    BY <1>1, <1>3, <2>2 DEF TableRemove
  <2>3. QED
    BY <2>1, <2>2
<1>4. CASE UNCHANGED lists
  BY <1>4 DEF OneList
<1>5. QED
  BY <1>2, <1>3, <1>4, Reading DEF vars

\* hash_function spreads nothing: whatever NLists is, all keys share one list.
THEOREM OneListAlways == Spec => []OneList
<1>1. Init => OneList
  BY DEF Init, OneList
<1>2. QED
  BY <1>1, OneListStep, TypeCorrect, PTL DEF Spec

LEMMA CountIsLength ==
  ASSUME TypeOK, OneList
  PROVE  Count = Len(lists[0])
<1> DEFINE S == 0..(NLists - 1)
           L == [i \in DOMAIN lists |-> Len(lists[i])]
<1>1. IsFiniteSet(S) /\ 0 \in S /\ DOMAIN lists = S
  BY TableAssumption, FS_Interval DEF TypeOK
<1>2. L \in [S -> Nat]
  BY <1>1 DEF TypeOK
<1>3. \A x \in S : x # 0 => L[x] = 0
  BY <1>1 DEF OneList
<1>4. Count = SumFunction(L) /\ L[0] = Len(lists[0])
  BY <1>1 DEF Count
<1> HIDE DEF L, S
<1>5. QED
  BY <1>1, <1>2, <1>3, <1>4, SumOfOne

LEMMA FlattenIsKeys ==
  ASSUME TypeOK, OneList
  PROVE  FlattenSeq([i \in 1..NLists |-> KeysOf(lists[i-1])]) = KeysOf(lists[0])
<1> DEFINE q == [i \in 1..NLists |-> KeysOf(lists[i-1])]
<1>1. \A i \in 1..NLists : i - 1 \in 0..(NLists - 1) /\ lists[i-1] \in Seq(Entries)
  BY TableAssumption DEF TypeOK
<1>2. ASSUME NEW l \in Seq(Entries) PROVE KeysOf(l) \in Seq(Keys)
  BY KeyType DEF KeysOf
<1>3. q \in [1..NLists -> Seq(Keys)]
  BY <1>1, <1>2
<1>4. \A i \in 2..NLists : q[i] = <<>>
  <2> TAKE i \in 2..NLists
  <2>1. i - 1 \in 0..(NLists - 1) /\ i - 1 # 0
    BY TableAssumption
  <2>2. lists[i-1] = <<>>
    BY <2>1 DEF OneList, TypeOK
  <2>3. KeysOf(<<>>) = <<>>
    BY DEF KeysOf
  <2>4. QED
    BY <2>2, <2>3, TableAssumption
<1>5. q[1] = KeysOf(lists[0])
  BY TableAssumption
<1> HIDE DEF q
<1>6. FlattenSeq(q) = q[1]
  BY <1>3, <1>4, FlattenOfOne, TableAssumption
<1>7. QED
  BY <1>5, <1>6 DEF q

\* The keys of a sorted list, in order, are those of the map, each once.
LEMMA KeysAreStored ==
  ASSUME TypeOK, Sorted
  PROVE  LET n == Len(lists[0]) IN
         /\ n \in Nat
         /\ Cardinality(TM!Stored) = n
         /\ KeysOf(lists[0]) \in [1..n -> TM!Stored]
         /\ IsInjective(KeysOf(lists[0]))
         /\ \A k \in TM!Stored : \E i \in 1..n : KeysOf(lists[0])[i] = k
<1>1. PICK l \in Seq(Entries) : l = lists[0] /\ \A k \in Keys : List(k) = l
  BY TableAssumption, HashIsZero DEF TypeOK, List
<1>2. PICK n \in Nat : n = Len(l)
  OBVIOUS
<1>3. PICK c : c = KeysOf(l)
  OBVIOUS
<1>4. /\ DOMAIN c = 1..n
      /\ \A i \in 1..n : c[i] = l[i].key /\ c[i] \in Keys /\ l[i].value \in Values
  <2>1. \A i \in 1..n : l[i] \in Entries
    BY <1>2
  <2>2. QED
    BY <1>2, <1>3, <2>1 DEF KeysOf, Entries
<1>5. \A i, j \in 1..n : c[i] = c[j] => i = j
  <2>1. \A i, j \in 1..n : i < j => Strcmp(c[i], c[j]) < 0
    <3>1. 0 \in DOMAIN lists
      BY TableAssumption DEF TypeOK
    <3>2. \A i, j \in 1..n : i < j => Strcmp(l[i].key, l[j].key) < 0
      BY <1>1, <1>2, <3>1 DEF Sorted
    <3>3. QED
      BY <1>4, <3>2
  <2>2. ASSUME NEW i \in 1..n, NEW j \in 1..n, i < j PROVE c[i] # c[j]
    <3>1. Strcmp(c[i], c[j]) < 0 /\ c[i] \in Keys /\ c[j] \in Keys
      BY <1>4, <2>1, <2>2
    <3>2. QED
      BY <3>1, StrcmpAssumption
  <2>3. QED
    BY <2>2
<1>6. TM!Stored = {k \in Keys : Lookup(k) # Absent}
  BY DEF TM!Stored
<1>7. ASSUME NEW i \in 1..n PROVE c[i] \in TM!Stored
  <2>1. Strcmp(l[i].key, c[i]) = 0 /\ c[i] \in Keys
    BY <1>4, StrcmpAssumption
  <2>2. \A j \in 1..(i-1) : Strcmp(l[j].key, c[i]) # 0
    <3> TAKE j \in 1..(i-1)
    <3>1. j \in 1..n /\ c[j] # c[i] /\ c[j] \in Keys /\ c[j] = l[j].key
      BY <1>4, <1>5
    <3>2. QED
      BY <2>1, <3>1, StrcmpAssumption
  <2>3. Finds(l, c[i], i)
    BY <1>2, <2>1, <2>2 DEF Finds, FirstPlace
  <2>4. Lookup(c[i]) = l[i].value
    BY <1>1, <1>2, <2>1, <2>3, GetFirst DEF Lookup
  <2>5. QED
    BY <1>4, <1>6, <2>1, <2>4, TableAssumption
<1>8. ASSUME NEW k \in TM!Stored PROVE \E i \in 1..n : c[i] = k
  <2>1. k \in Keys /\ ListGet(l, k) # Absent
    BY <1>1, <1>6 DEF Lookup
  <2>2. PICK i \in 1..n : Finds(l, k, i)
    BY <1>2, <2>1 DEF ListGet
  <2>3. Strcmp(l[i].key, k) = 0
    BY <2>2 DEF Finds, FirstPlace
  <2>4. QED
    BY <1>4, <2>1, <2>3, StrcmpAssumption
<1>9. c \in [1..n -> TM!Stored] /\ IsInjective(c)
  <2>1. c = [i \in 1..n |-> c[i]]
    BY <1>3, <1>4 DEF KeysOf
  <2>2. QED
    BY <1>4, <1>5, <1>7, <2>1 DEF IsInjective
<1>10. c \in Bijection(1..n, TM!Stored)
  BY <1>8, <1>9 DEF Bijection, Injection, Surjection
<1>11. Cardinality(TM!Stored) = n
  BY <1>10, FS_CountingElements DEF ExistsBijection
<1>12. QED
  BY <1>1, <1>2, <1>3, <1>8, <1>9, <1>11

LEMMA SameCardinality == \A S : TM!Cardinality(S) = Cardinality(S)
  BY DEF TM!Cardinality, Cardinality, TM!IsFiniteSet, IsFiniteSet

LEMMA SizeOnMap ==
  ASSUME TypeOK, OneList, Sorted, TableSize
  PROVE  TM!Size
<1>1. Count = Cardinality(TM!Stored)
  BY CountIsLength, KeysAreStored
<1>2. Seen' = Seen
  BY DEF TableSize, Seen, Lookup, List
<1>3. QED
  BY <1>1, <1>2, SameCardinality DEF TM!Size, TableSize, Seen

LEMMA GetKeysOnMap ==
  ASSUME TypeOK, OneList, Sorted, TableGetKeys
  PROVE  TM!GetKeys
<1>1. PICK n \in Nat : n = Len(lists[0])
  BY KeysAreStored
<1>2. Count = n /\ Cardinality(TM!Stored) = n
  BY <1>1, CountIsLength, KeysAreStored
<1>3. PICK c : c = KeysOf(lists[0])
  OBVIOUS
<1>4. c \in [1..n -> TM!Stored] /\ IsInjective(c)
  BY <1>1, <1>3, KeysAreStored
<1>5. reply' = <<"keys", IF n <= 0 THEN Absent ELSE c>>
  BY <1>2, <1>3, FlattenIsKeys DEF TableGetKeys
<1>6. TM!Stored = {} <=> n <= 0
  <2>1. CASE n = 0
    <3>1. \A k \in TM!Stored : \E i \in 1..n : c[i] = k
      BY <1>1, <1>3, KeysAreStored
    <3>2. QED
      BY <2>1, <3>1
  <2>2. CASE n # 0
    <3>1. c[1] \in TM!Stored
      BY <1>4, <2>2
    <3>2. QED
      BY <2>2, <3>1
  <2>3. QED
    BY <2>1, <2>2
<1>7. Seen' = Seen
  BY DEF TableGetKeys, Seen, Lookup, List
<1>8. TM!IsInjective(c)
  BY <1>4 DEF IsInjective, TM!IsInjective
<1>9. QED
  BY <1>2, <1>4, <1>5, <1>6, <1>7, <1>8, SameCardinality DEF TM!GetKeys, Seen

\* With a strcmp that returns -1, 0 or 1 the table is a map: every operation is
\* that operation of table.h, with what it returns.
THEOREM TableIsMapHolds ==
  ASSUME UnitStrcmp
  PROVE  Spec => TableIsMap
<1>1. TypeOK /\ Sorted /\ OneList /\ [Next]_vars => [TM!TMNext]_<<Seen, reply>>
  <2> SUFFICES ASSUME TypeOK, Sorted, OneList, [Next]_vars
               PROVE  [TM!TMNext]_<<Seen, reply>>
    OBVIOUS
  <2>1. ASSUME NEW k \in Keys, NEW v \in Values, TablePut(k, v) PROVE TM!TMNext
    BY <2>1, PutOnMap DEF TM!TMNext
  <2>2. ASSUME NEW k \in Keys, TableGet(k) \/ TableRemove(k) PROVE TM!TMNext
    BY <2>2, GetOnMap, RemoveOnMap DEF TM!TMNext
  <2>3. CASE TableSize \/ TableGetKeys
    BY <2>3, SizeOnMap, GetKeysOnMap DEF TM!TMNext
  <2>4. CASE UNCHANGED vars
    BY <2>4 DEF vars, Seen, Lookup, List
  <2>5. QED
    BY <2>1, <2>2, <2>3, <2>4 DEF Next
<1>2. Spec => []Sorted
  BY SortedAlways
<1>3. QED
  BY <1>1, <1>2, OneListAlways, MapInit, TypeCorrect, PTL DEF Spec, TableIsMap, TM!TMSpec, Seen
=============================================================================
