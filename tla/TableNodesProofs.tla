-------------------------- MODULE TableNodesProofs --------------------------
(***************************************************************************)
(* Theorems about TableNodes: what table_mutex keeps, whatever readers do; *)
(* what readers, who do not take it, can still rely on; and that the nodes *)
(* are the lists of HashTable.                                             *)
(***************************************************************************)
EXTENDS TableNodes, FiniteSetTheorems, SequenceTheorems, WellFoundedInduction, TLAPS

\* The lemmas of HashTable, about the same lists as H.
HP == INSTANCE HashTableProofs WITH
  lists <- [i \in 0..(NLists - 1) |-> IF i = 0 THEN list ELSE <<>>]

-----------------------------------------------------------------------------
(* Chains of nodes *)

\* The nodes of a chain are not more than there are.
LEMMA ChainFits ==
  ASSUME NEW m \in Nat, NEW c \in [1..m -> Nodes], IsInjective(c)
  PROVE  m <= Cardinality(Nodes) /\ Cardinality(Nodes) \in Nat
<1>1. IsFiniteSet(1..m) /\ Cardinality(1..m) = m
  BY FS_Interval
<1>2. IsFiniteSet(Nodes) /\ Cardinality(Nodes) \in Nat
  BY NodesAssumption, FS_CardinalityType
<1>3. c \in Injection(1..m, Nodes)
  BY DEF Injection, IsInjective
<1>4. QED
  BY <1>1, <1>2, <1>3, FS_Injection

LEMMA LeastExists ==
  ASSUME NEW S \in SUBSET Nat, S # {}
  PROVE  \E n \in S : \A m \in S : n <= m
<1> DEFINE R == OpToRel(<, Nat)
<1>1. IsWellFoundedOn(R, Nat)
  BY NatLessThanWellFounded
<1>2. \A x, y \in Nat : y < x => <<y, x>> \in R
  BY DEF OpToRel
<1> HIDE DEF R
<1>3. PICK x \in S : \A y \in S : ~ (<<y, x>> \in R)
  BY <1>1, WFMin
<1>4. \A y \in S : ~ (y < x)
  BY <1>2, <1>3
<1>5. QED
  BY <1>4

\* What a walk along next finds.
LEMMA ChainIsWalked ==
  ASSUME NEW m \in Nat, NEW c \in [1..m -> Nodes], IsInjective(c),
         NEW h, NEW nx, h = IF m = 0 THEN Null ELSE c[1],
         \A j \in 1..m : nx[c[j]] = IF j = m THEN Null ELSE c[j + 1]
  PROVE  Chained(h, nx) = c
<1> DEFINE M == Cardinality(Nodes)
           F(f) == [i \in 0..M |-> IF i = 0 THEN h
                                   ELSE IF f[i-1] \in Nodes THEN nx[f[i-1]] ELSE Null]
           at == CHOOSE f : f = F(f)
           w == [i \in 0..M |-> IF i < m THEN c[i + 1] ELSE Null]
<1>1. m <= M /\ M \in Nat
  BY ChainFits
<1>2. Null \notin Nodes
  BY NodesAssumption
<1>3. w = F(w)
  <2>1. ASSUME NEW i \in 0..M
        PROVE  w[i] = IF i = 0 THEN h ELSE IF w[i-1] \in Nodes THEN nx[w[i-1]] ELSE Null
    <3>1. CASE i = 0
      BY <1>1, <2>1, <3>1
    <3>2. CASE i # 0 /\ i - 1 < m
      <4>1. i \in 1..m /\ i - 1 \in 0..M /\ i - 1 + 1 = i
        BY <1>1, <2>1, <3>2
      <4>2. w[i-1] = c[i] /\ c[i] \in Nodes
        BY <3>2, <4>1
      <4>3. nx[c[i]] = IF i = m THEN Null ELSE c[i + 1]
        BY <4>1
      <4>4. w[i] = IF i < m THEN c[i + 1] ELSE Null
        BY <2>1
      <4>5. (i < m) <=> (i # m)
        BY <1>1, <4>1
      <4> HIDE DEF w
      <4>6. QED
        BY <3>2, <4>2, <4>3, <4>4, <4>5
    <3>3. CASE i # 0 /\ ~(i - 1 < m)
      <4>1. i - 1 \in 0..M /\ ~(i < m)
        BY <1>1, <2>1, <3>3
      <4>2. w[i-1] = Null /\ w[i] = Null
        BY <3>3, <4>1
      <4> HIDE DEF w
      <4>3. QED
        BY <1>2, <3>3, <4>2
    <3>4. QED
      BY <3>1, <3>2, <3>3
  <2>2. w = [i \in 0..M |-> w[i]]
    OBVIOUS
  <2> HIDE DEF w
  <2>3. QED
    BY <2>1, <2>2
<1>4. at = F(at)
  <2> HIDE DEF F, w
  <2>1. QED
    BY <1>3
<1>5. \A i \in 0..M : at[i] = w[i]
  <2> DEFINE S == {i \in 0..M : at[i] # w[i]}
  <2> HIDE DEF at, w, M
  <2>1. SUFFICES ASSUME S # {} PROVE FALSE
    OBVIOUS
  <2>2. PICK i \in S : \A j \in S : i <= j
    <3>1. S \in SUBSET Nat
      BY <1>1
    <3> HIDE DEF S
    <3>2. QED
      BY <2>1, <3>1, LeastExists
  <2>3. i \in 0..M /\ at[i] # w[i]
    BY <2>2
  <2>4. i = 0 \/ (i - 1 \in 0..M /\ at[i-1] = w[i-1])
    <3>1. i = 0 \/ (i - 1 \in 0..M /\ ~(i <= i - 1))
      BY <1>1, <2>3
    <3>2. QED
      BY <2>2, <3>1
  <2>5. at[i] = IF i = 0 THEN h ELSE IF at[i-1] \in Nodes THEN nx[at[i-1]] ELSE Null
    <3>1. F(at)[i] = IF i = 0 THEN h ELSE IF at[i-1] \in Nodes THEN nx[at[i-1]] ELSE Null
      BY <2>3
    <3> HIDE DEF F
    <3>2. QED
      BY <1>4, <3>1
  <2>6. w[i] = IF i = 0 THEN h ELSE IF w[i-1] \in Nodes THEN nx[w[i-1]] ELSE Null
    <3>1. F(w)[i] = IF i = 0 THEN h ELSE IF w[i-1] \in Nodes THEN nx[w[i-1]] ELSE Null
      BY <2>3
    <3> HIDE DEF F
    <3>2. QED
      BY <1>3, <3>1
  <2> HIDE DEF F, S
  <2>7. QED
    BY <2>3, <2>4, <2>5, <2>6
<1>6. Chained(h, nx) = [i \in 1..Cardinality({j \in DOMAIN at : at[j] \in Nodes}) |-> at[i-1]]
  BY DEF Chained
<1>7. DOMAIN at = 0..M
  <2>1. DOMAIN F(at) = 0..M
    OBVIOUS
  <2> HIDE DEF F
  <2>2. QED
    BY <1>4, <2>1
<1>8. {j \in DOMAIN at : at[j] \in Nodes} = 0..(m - 1)
  <2> HIDE DEF at, M
  <2>1. \A j \in 0..M : w[j] \in Nodes <=> j < m
    BY <1>1, <1>2
  <2> HIDE DEF w
  <2>2. \A j \in 0..M : at[j] \in Nodes <=> j < m
    BY <1>5, <2>1
  <2>3. \A j : j \in 0..(m - 1) <=> j \in 0..M /\ j < m
    BY <1>1
  <2>4. QED
    BY <1>7, <2>2, <2>3
<1>9. Cardinality(0..(m - 1)) = m
  <2>1. m - 1 \in Int /\ (0 > m - 1 <=> m = 0) /\ m - 1 - 0 + 1 = m
    OBVIOUS
  <2>2. QED
    BY <2>1, FS_Interval
<1>10. Chained(h, nx) = [i \in 1..m |-> at[i-1]]
  <2> HIDE DEF at
  <2>1. QED
    BY <1>6, <1>8, <1>9
<1>11. \A i \in 1..m : at[i-1] = c[i]
  <2>1. \A i \in 1..m : i - 1 \in 0..M /\ w[i-1] = c[i]
    BY <1>1
  <2> HIDE DEF at, w
  <2>2. QED
    BY <1>5, <2>1
<1>12. QED
  <2> HIDE DEF at
  <2>1. c = [i \in 1..m |-> c[i]]
    OBVIOUS
  <2>2. QED
    BY <1>10, <1>11, <2>1

-----------------------------------------------------------------------------
(* What the thread that holds table_mutex has done so far *)

Adding   == {"first", "add", "replace", "reuse", "push", "pushed", "insert", "inserted",
             "append", "grow"}
Removing == {"rm", "unlink", "destroy", "free"}

\* The nodes of c, m of them, from head on.
Strung(m, c) ==
  /\ head = IF m = 0 THEN Null ELSE c[1]
  /\ \A j \in 1..m : next[c[j]] = IF j = m THEN Null ELSE c[j + 1]
  /\ \A j \in 2..m : prev[c[j]] = c[j - 1]

With(c, i, n) == [j \in 1..(size + 1) |-> IF j < i THEN c[j] ELSE IF j = i THEN n ELSE c[j - 1]]
Without(c, i) == [j \in 1..(size - 1) |-> IF j < i THEN c[j] ELSE c[j + 1]]

\* How the key of the entry i of the list compares with that of the request.
Order(t, i) == Strcmp(list[i].key, req[t].key)

\* list_add has passed the nodes of c before the i-th and is about to put its
\* new node there, or the new entry into that node.
AddingAt(t, c, i) ==
  /\ new[t] \in Nodes \ Range(c) /\ live = Range(c) \cup {new[t]}
  /\ entry[new[t]] = [key |-> req[t].key, value |-> req[t].value]
  /\ \A j \in 1..(i - 1) : Order(t, j) \notin {0, 1}
  /\ \A j \in 1..size : (pc[t] = "reuse" /\ j = i) \/ entry[c[j]] = list[j]
  /\ pc[t] = "first" => size = 0
  /\ pc[t] \notin {"first", "grow"} => i <= size /\ cur[t] = c[i]
  /\ pc[t] \in {"first", "add", "replace", "reuse", "push", "insert", "append"} =>
       Strung(size, c)
  /\ pc[t] # "grow" => next[new[t]] = Null
  /\ pc[t] \in {"replace", "reuse"} => Order(t, i) = 0
  /\ pc[t] \in {"push", "pushed", "insert", "inserted"} => Order(t, i) = 1
  /\ pc[t] \in {"push", "pushed"} => i = 1
  /\ pc[t] \in {"insert", "inserted"} => i > 1
  /\ pc[t] = "append" => i = size /\ Order(t, i) \notin {0, 1}
  /\ pc[t] = "pushed" =>
       /\ head = new[t]
       /\ \A j \in 1..size : next[c[j]] = IF j = size THEN Null ELSE c[j + 1]
       /\ \A j \in 2..size : prev[c[j]] = c[j - 1]
  /\ pc[t] = "inserted" =>
       /\ head = c[1]
       /\ \A j \in 1..size : next[c[j]] = IF j = size THEN Null
                                          ELSE IF j = i - 1 THEN new[t] ELSE c[j + 1]
       /\ \A j \in 2..size : prev[c[j]] = c[j - 1]
  /\ pc[t] = "grow" => Strung(size + 1, With(c, i, new[t])) /\ (i <= size => Order(t, i) = 1)

\* list_remove has passed the nodes of c before the i-th, or takes that one out.
RemovingAt(t, c, i) ==
  /\ live = Range(c)
  /\ \A j \in 1..(i - 1) : list[j].key # req[t].key
  /\ \A j \in 1..size : (pc[t] = "free" /\ j = i) \/ entry[c[j]] = list[j]
  /\ pc[t] = "rm" => cur[t] = IF i <= size THEN c[i] ELSE Null
  /\ pc[t] # "rm" => i <= size /\ cur[t] = c[i] /\ list[i].key = req[t].key
  /\ pc[t] \in {"rm", "unlink"} => Strung(size, c)
  /\ pc[t] \in {"destroy", "free"} =>
       /\ Strung(size - 1, Without(c, i))
       /\ next[c[i]] = IF i = size THEN Null ELSE c[i + 1]

At(t, c, i) == \/ pc[t] \in Adding /\ AddingAt(t, c, i)
               \/ pc[t] \in Removing /\ RemovingAt(t, c, i)

\* The list when nobody holds table_mutex.
Settled(c) ==
  /\ Strung(size, c)
  /\ live = Range(c)
  /\ \A j \in 1..size : entry[c[j]] = list[j]

Shape(c) ==
  /\ IsInjective(c)
  /\ mutex = Null => Settled(c)
  /\ \A t \in Threads : mutex = t => \E i \in 1..(size + 1) : At(t, c, i)

\* Who is inside list_add or list_remove holds table_mutex.
Held == \A t \in Threads : pc[t] \in Writing <=> mutex = t

\* The operations that come to the place p of the code.
Getting  == {"get", "walk", "next", "copy"}
Counting == {"count", "lempty", "lhead", "lsize", "khead", "kwalk", "knext", "copykeys", "nkeys"}

Serves(op, p) ==
  /\ p \in Adding \cup {"put"} => op = "put"
  /\ p \in Removing \cup {"del"} => op = "del"
  /\ p \in Getting => op \in {"get", "del", "gettable"}
  /\ p \in Counting => op \in {"getkeys", "gettable"}
  /\ p = "size" => op = "size"

Asked(t) ==
  /\ req[t].op = "put" => req[t].key \in Keys /\ req[t].value \in Values
  /\ req[t].op = "del" => req[t].key \in Keys /\ req[t].value = Absent
  /\ Serves(req[t].op, pc[t])

Shared == /\ TypeOK /\ Held /\ req = [t \in Threads |-> req[t]]
          /\ list \in [1..size -> Entries]
          /\ \A t \in Threads : Asked(t)

Inv == Shared /\ \E c \in [1..size -> Nodes] : Shape(c)

LEMMA ThreadsNotNull == Null \notin Threads
  BY NodesAssumption DEF Threads

LEMMA InitInv == Init => Inv
<1> SUFFICES ASSUME Init PROVE Inv
  OBVIOUS
<1> USE DEF Init
<1>1. TypeOK
  BY DEF TypeOK, Pointers
<1>2. Held /\ \A t \in Threads : Asked(t)
  BY ThreadsNotNull DEF Held, Asked, Serves, Getting, Counting, Writing, Adding, Removing, Nobody
<1>3. list \in [1..size -> Entries] /\ req = [t \in Threads |-> req[t]]
  OBVIOUS
<1> DEFINE c == [j \in 1..0 |-> Null]
<1>4. c \in [1..size -> Nodes] /\ IsInjective(c) /\ Range(c) = {}
  BY DEF IsInjective, Range
<1> HIDE DEF c
<1>5. Shape(c)
  BY <1>4, ThreadsNotNull DEF Shape, Settled, Strung
<1>6. QED
  BY <1>1, <1>2, <1>3, <1>4, <1>5 DEF Inv, Shared

-----------------------------------------------------------------------------
(* Steps outside the mutex *)

\* A step of a thread that does not hold the mutex, and does not take it.
LEMMA Outside ==
  ASSUME Inv, NEW t \in Threads, pc[t] \notin Writing, pc'[t] \notin Writing,
         UNCHANGED <<heap, mutex, list>>, TypeOK', Asked(t)',
         req' = [u \in Threads |-> req'[u]],
         \A u \in Threads : u # t =>
            pc'[u] = pc[u] /\ req'[u] = req[u] /\ cur'[u] = cur[u] /\ new'[u] = new[u]
  PROVE  Inv'
<1> USE DEF heap
<1>1. \A u \in Threads : u # t => Asked(u)'
  BY DEF Inv, Shared, Asked
<1>2. Held'
  BY DEF Inv, Shared, Held
<1>3. Shared'
  BY <1>1, <1>2 DEF Inv, Shared
<1>4. PICK c \in [1..size -> Nodes] : Shape(c)
  BY DEF Inv
<1>5. mutex # t
  BY DEF Inv, Shared, Held
<1>6. ASSUME NEW u \in Threads, u # t, NEW i \in 1..(size + 1), At(u, c, i)
      PROVE  At(u, c, i)'
  <2>1. pc'[u] = pc[u] /\ req'[u] = req[u] /\ cur'[u] = cur[u] /\ new'[u] = new[u]
    BY <1>6
  <2>2. /\ Strung(size, c)' <=> Strung(size, c)
        /\ Strung(size + 1, With(c, i, new[u]))' <=> Strung(size + 1, With(c, i, new[u]))
        /\ Strung(size - 1, Without(c, i))' <=> Strung(size - 1, Without(c, i))
        /\ \A j : Order(u, j)' = Order(u, j)
    BY <2>1 DEF Strung, With, Without, Order
  <2>3. AddingAt(u, c, i) => AddingAt(u, c, i)'
    <3>1. SUFFICES ASSUME AddingAt(u, c, i) PROVE AddingAt(u, c, i)'
      OBVIOUS
    <3>2. pc[u] = "pushed" =>
            /\ head' = new'[u]
            /\ \A j \in 1..size : next'[c[j]] = IF j = size THEN Null ELSE c[j + 1]
            /\ \A j \in 2..size : prev'[c[j]] = c[j - 1]
      BY <2>1, <3>1 DEF AddingAt
    <3>3. pc[u] = "inserted" =>
            /\ head' = c[1]
            /\ \A j \in 1..size : next'[c[j]] = IF j = size THEN Null
                                               ELSE IF j = i - 1 THEN new'[u] ELSE c[j + 1]
            /\ \A j \in 2..size : prev'[c[j]] = c[j - 1]
      BY <2>1, <3>1 DEF AddingAt
    <3>4. QED
      BY <2>1, <2>2, <3>1, <3>2, <3>3 DEF AddingAt
  <2>5. RemovingAt(u, c, i) => RemovingAt(u, c, i)'
    BY <2>1, <2>2 DEF RemovingAt
  <2>6. QED
    BY <1>6, <2>1, <2>3, <2>5 DEF At
<1>7. Settled(c) => Settled(c)'
  BY DEF Settled, Strung
<1>8. Shape(c)'
  BY <1>4, <1>5, <1>6, <1>7 DEF Shape
<1>9. QED
  BY <1>3, <1>4, <1>8 DEF Inv

\* What a thread is about to do when it neither writes nor waits for the mutex.
Aside == Reading \cup {"idle", "answer", "undefined"}

LEMMA ReadFrame ==
  ASSUME Inv, NEW t \in Threads, Read(t)
  PROVE  /\ UNCHANGED <<heap, mutex, req, new, list>>
         /\ pc[t] \in Reading
         /\ \E p \in Aside \cup {"del"} : pc' = [pc EXCEPT ![t] = p] /\ Serves(req[t].op, p)
         /\ \E x \in Pointers : cur' = [cur EXCEPT ![t] = x]
<1> USE DEF Aside, Reading, Goto, Undefined, local, past, Serves, Getting, Counting, Adding, Removing
<1>1. TypeOK /\ Serves(req[t].op, pc[t])
  BY DEF Inv, Shared, Asked
<1>2. cur' = cur => \E x \in Pointers : cur' = [cur EXCEPT ![t] = x]
  BY <1>1 DEF TypeOK
<1>3. ASSUME GetBegin(t) \/ KeysHead(t) PROVE \E x \in Pointers : cur' = [cur EXCEPT ![t] = x]
  BY <1>1, <1>2, <1>3 DEF TypeOK, Pointers, GetBegin, KeysHead
<1>4. ASSUME NEW from, NEW to, Advance(t, from, to)
      PROVE  \E x \in Pointers : cur' = [cur EXCEPT ![t] = x]
  <2>1. CASE cur[t] \in live
    BY <1>1, <1>4, <2>1 DEF TypeOK, Advance
  <2>2. CASE cur[t] \notin live
    BY <1>2, <1>4, <2>2 DEF Advance
  <2>3. QED
    BY <2>1, <2>2
<1>5. CASE GetBegin(t)
  BY <1>1, <1>3, <1>5 DEF GetBegin
<1>6. ASSUME NEW v, GetReturns(t, v), pc[t] \in Getting
      PROVE  \E p \in Aside \cup {"del"} : pc' = [pc EXCEPT ![t] = p] /\ Serves(req[t].op, p)
  BY <1>1, <1>6 DEF GetReturns, Answers
<1>7. CASE GetCompare(t) \/ GetCopy(t)
  <2>1. \/ \E v : GetReturns(t, v)
        \/ Undefined(t)
        \/ /\ \E p \in {"copy", "next"} : pc' = [pc EXCEPT ![t] = p]
           /\ UNCHANGED <<heap, mutex, req, local, past, reply>>
    BY <1>7 DEF GetCompare, GetCopy
  <2>2. pc[t] \in Getting
    BY <1>7 DEF GetCompare, GetCopy
  <2>3. CASE \E v : GetReturns(t, v)
    BY <1>2, <1>6, <2>2, <2>3 DEF GetReturns
  <2>4. CASE Undefined(t)
    BY <1>2, <2>2, <2>4
  <2>5. CASE /\ \E p \in {"copy", "next"} : pc' = [pc EXCEPT ![t] = p]
             /\ UNCHANGED <<heap, mutex, req, local, past, reply>>
    <3>1. PICK p \in {"copy", "next"} : pc' = [pc EXCEPT ![t] = p]
      BY <2>5
    <3>2. Serves(req[t].op, p)
      BY <1>1, <2>2, <3>1
    <3>3. QED
      BY <1>2, <2>2, <2>5, <3>1, <3>2
  <2>6. QED
    BY <2>1, <2>3, <2>4, <2>5
<1>8. CASE GetNext(t)
  BY <1>1, <1>4, <1>8 DEF GetNext, Advance
<1>9. CASE KeysNext(t)
  BY <1>1, <1>4, <1>9 DEF KeysNext, Advance
<1>10. CASE Size(t)
  BY <1>2, <1>10 DEF Size, Answers
<1>11. CASE KeysCount(t)
  BY <1>1, <1>2, <1>11 DEF KeysCount, Answers
<1>12. CASE KeysAlloc(t)
  BY <1>1, <1>2, <1>12 DEF KeysAlloc
<1>12a. CASE KeysTestSize(t) \/ KeysTestHead(t)
  <2>1. PICK p \in {"copykeys", "lhead", "lsize"} :
          pc' = [pc EXCEPT ![t] = p] /\ pc[t] \in {"lempty", "lhead"}
    BY <1>12a DEF KeysTest, KeysTestSize, KeysTestHead
  <2>2. UNCHANGED <<heap, mutex, req, cur, new, list>>
    BY <1>12a DEF KeysTest, KeysTestSize, KeysTestHead
  <2>3. QED
    BY <1>1, <1>2, <2>1, <2>2
<1>13. CASE KeysHead(t)
  <2>1. PICK p \in {"copykeys", "kwalk"} : pc' = [pc EXCEPT ![t] = p] /\ pc[t] = "khead"
    BY <1>13 DEF KeysHead
  <2>2. Serves(req[t].op, p)
    BY <1>1, <2>1
  <2>3. UNCHANGED <<heap, mutex, req, new, list>>
    BY <1>13 DEF KeysHead
  <2>4. p \in Aside \cup {"del"} /\ pc[t] \in Reading
    BY <1>13, <2>1 DEF KeysHead
  <2> HIDE DEF Aside, Serves, Reading
  <2>5. \E q \in Aside \cup {"del"} : pc' = [pc EXCEPT ![t] = q] /\ Serves(req[t].op, q)
    BY <2>1, <2>2, <2>4
  <2>6. \E x \in Pointers : cur' = [cur EXCEPT ![t] = x]
    BY <1>3, <1>13
  <2>7. QED
    BY <2>3, <2>4, <2>5, <2>6
<1>14. CASE KeysCompare(t)
  BY <1>1, <1>2, <1>14 DEF KeysCompare
<1>15. CASE KeysCopy(t)
  BY <1>1, <1>2, <1>15 DEF KeysCopy
<1>16. CASE KeysAgain(t)
  BY <1>1, <1>2, <1>16 DEF KeysAgain, Answers
<1>17. QED
  BY <1>5, <1>7, <1>8, <1>9, <1>10, <1>11, <1>12, <1>12a, <1>13, <1>14, <1>15, <1>16 DEF Read

LEMMA ReadStep ==
  ASSUME Inv, NEW t \in Threads, Read(t)
  PROVE  Inv'
<1>1. /\ TypeOK /\ Asked(t) /\ req = [u \in Threads |-> req[u]]
  BY DEF Inv, Shared
<1>2. PICK p \in Aside \cup {"del"} :
        pc' = [pc EXCEPT ![t] = p] /\ Serves(req[t].op, p)
  BY ReadFrame
<1>3. PICK x \in Pointers : cur' = [cur EXCEPT ![t] = x]
  BY ReadFrame
<1>4. UNCHANGED <<heap, mutex, req, new, list>> /\ pc[t] \in Reading
  BY ReadFrame
<1>5. pc[t] \notin Writing /\ pc'[t] \notin Writing /\ pc'[t] = p
  BY <1>1, <1>2, <1>4 DEF TypeOK, Reading, Writing, Aside
<1>6. TypeOK'
  BY <1>1, <1>2, <1>3, <1>4 DEF TypeOK, heap, Aside
<1>7. Asked(t)'
  BY <1>1, <1>2, <1>4, <1>5 DEF Asked
<1>8. \A u \in Threads : u # t =>
        pc'[u] = pc[u] /\ req'[u] = req[u] /\ cur'[u] = cur[u] /\ new'[u] = new[u]
  BY <1>1, <1>2, <1>3, <1>4 DEF TypeOK
<1>9. req' = [u \in Threads |-> req'[u]] /\ UNCHANGED <<heap, mutex, list>>
  BY <1>1, <1>4
<1>10. QED
  BY <1>5, <1>6, <1>7, <1>8, <1>9, Outside

LEMMA CallStep ==
  ASSUME Inv, NEW t \in Threads, Request(t) \/ Answer(t)
  PROVE  Inv'
<1>1. /\ TypeOK /\ req = [u \in Threads |-> req[u]]
  BY DEF Inv, Shared
<1>2. UNCHANGED <<heap, mutex, list>>
  BY DEF Request, Answer
<1>3. CASE Answer(t)
  <2>1. pc[t] = "answer" /\ pc'[t] = "idle" /\ req'[t] = Nobody
    BY <1>1, <1>3 DEF Answer, Goto, TypeOK
  <2>2. TypeOK'
    BY <1>1, <1>2, <1>3 DEF Answer, Goto, TypeOK, heap, Pointers
  <2>3. Asked(t)'
    BY <2>1 DEF Asked, Nobody, Serves, Getting, Counting, Adding, Removing
  <2>4. /\ req' = [u \in Threads |-> req'[u]]
        /\ \A u \in Threads : u # t =>
            pc'[u] = pc[u] /\ req'[u] = req[u] /\ cur'[u] = cur[u] /\ new'[u] = new[u]
    BY <1>1, <1>3 DEF Answer, Goto, TypeOK
  <2>5. pc[t] \notin Writing /\ pc'[t] \notin Writing
    BY <2>1 DEF Writing
  <2>6. QED
    BY <1>2, <2>2, <2>3, <2>4, <2>5, Outside
<1>4. CASE Request(t)
  <2>1. PICK op \in Asks(t) : \E k \in Keys, v \in Values :
          /\ req' = [req EXCEPT ![t] =
               [op |-> op, key |-> IF op \in {"put", "get", "del"} THEN k ELSE Null,
                value |-> IF op = "put" THEN v ELSE Absent]]
          /\ pc' = [pc EXCEPT ![t] = FirstStep[op]]
    BY <1>4 DEF Request
  <2>2. PICK k \in Keys : \E v \in Values :
          /\ req' = [req EXCEPT ![t] =
               [op |-> op, key |-> IF op \in {"put", "get", "del"} THEN k ELSE Null,
                value |-> IF op = "put" THEN v ELSE Absent]]
          /\ pc' = [pc EXCEPT ![t] = FirstStep[op]]
    BY <2>1
  <2>3. PICK v \in Values :
          /\ req' = [req EXCEPT ![t] =
               [op |-> op, key |-> IF op \in {"put", "get", "del"} THEN k ELSE Null,
                value |-> IF op = "put" THEN v ELSE Absent]]
          /\ pc' = [pc EXCEPT ![t] = FirstStep[op]]
    BY <2>2
  <2>4. op \in {"put", "get", "del", "size", "getkeys", "gettable"}
    BY DEF Asks
  <2>5. /\ pc[t] = "idle" /\ pc'[t] = FirstStep[op]
        /\ FirstStep[op] \in {"put", "get", "size", "count"}
        /\ FirstStep[op] = "put" => op = "put"
    BY <1>1, <1>4, <2>3, <2>4 DEF Request, FirstStep, TypeOK
  <2>6. TypeOK'
    BY <1>1, <1>2, <1>4, <2>3, <2>5 DEF Request, TypeOK, heap, local, Reading
  <2>7. Asked(t)'
    <3>1. /\ req'[t].op = op
          /\ op \in {"put", "get", "del"} => req'[t].key = k
          /\ req'[t].value = IF op = "put" THEN v ELSE Absent
      BY <1>1, <2>3
    <3>2. QED
      BY <2>4, <2>5, <3>1 DEF Asked, Serves, Getting, Counting, Adding, Removing, FirstStep
  <2>8. /\ req' = [u \in Threads |-> req'[u]]
        /\ \A u \in Threads : u # t =>
            pc'[u] = pc[u] /\ req'[u] = req[u] /\ cur'[u] = cur[u] /\ new'[u] = new[u]
    <3>1. UNCHANGED <<cur, new>>
      BY <1>4 DEF Request, local
    <3>2. QED
      BY <1>1, <2>3, <3>1 DEF TypeOK
  <2>9. pc[t] \notin Writing /\ pc'[t] \notin Writing
    BY <2>5 DEF Writing
  <2>10. QED
    BY <1>2, <2>6, <2>7, <2>8, <2>9, Outside
<1>5. QED
  BY <1>3, <1>4

-----------------------------------------------------------------------------
(* Steps inside the mutex *)

LEMMA Holder ==
  ASSUME Inv, NEW t \in Threads, pc[t] \in Writing
  PROVE  /\ mutex = t
         /\ \E c \in [1..size -> Nodes] : IsInjective(c) /\ \E i \in 1..(size + 1) : At(t, c, i)
<1>1. mutex = t
  BY DEF Inv, Shared, Held
<1>2. QED
  BY <1>1 DEF Inv, Shape

\* A step of the thread that holds the mutex, and keeps it.
LEMMA Inside ==
  ASSUME Inv, NEW t \in Threads, pc[t] \in Writing, pc'[t] \in Writing,
         UNCHANGED <<mutex, size, list, req>>, TypeOK', Serves(req[t].op, pc'[t]),
         \A u \in Threads : u # t => pc'[u] = pc[u],
         NEW c \in [1..size -> Nodes], IsInjective(c),
         NEW i \in 1..(size + 1), At(t, c, i)'
  PROVE  Inv'
<1>1. \A u \in Threads : Asked(u)'
  BY DEF Inv, Shared, Asked
<1>2. Held' /\ mutex = t
  BY DEF Inv, Shared, Held
<1>3. Shared'
  BY <1>1, <1>2 DEF Inv, Shared
<1>4. mutex' # Null
  BY <1>2, ThreadsNotNull
<1>5. \A u \in Threads : mutex' = u => u = t
  BY <1>2
<1>6. c \in [1..size' -> Nodes] /\ i \in 1..(size' + 1)
  OBVIOUS
<1>7. Shape(c)'
  BY <1>4, <1>5, <1>6 DEF Shape
<1>8. QED
  BY <1>3, <1>6, <1>7 DEF Inv

\* list_add up to the last of its steps.
LEMMA AddStep ==
  ASSUME Inv, NEW t \in Threads,
         AddCompare(t) \/ AddFirst(t) \/ Push(t) \/ PushLink(t) \/ Insert(t) \/ InsertLink(t)
           \/ AddLast(t) \/ Replace(t)
  PROVE  Inv'
<1>1. pc[t] \in Adding \ {"grow", "reuse"} /\ pc[t] \in Writing
  BY DEF AddCompare, AddFirst, Push, PushLink, Insert, InsertLink, AddLast, Replace, Goto,
     Adding, Writing
<1>2. PICK c \in [1..size -> Nodes], i \in 1..(size + 1) :
        IsInjective(c) /\ At(t, c, i)
  BY <1>1, Holder
<1>3. AddingAt(t, c, i)
  BY <1>1, <1>2 DEF At, Adding, Removing
<1>4. TypeOK /\ list \in [1..size -> Entries] /\ Serves(req[t].op, pc[t]) /\ req[t].op = "put"
  BY <1>1 DEF Inv, Shared, Asked, Serves
<1>5. /\ \A j \in 1..size : c[j] \in Nodes /\ c[j] # new[t] /\ c[j] \in live
      /\ \A j, k \in 1..size : c[j] = c[k] => j = k
      /\ new[t] \in Nodes /\ size \in Nat
  BY <1>2, <1>3, <1>4 DEF AddingAt, Range, IsInjective, TypeOK
<1>6. /\ \A j \in 1..(i - 1) : Order(t, j) \notin {0, 1}
      /\ \A j \in 1..size : entry[c[j]] = list[j]
      /\ live = Range(c) \cup {new[t]} /\ new[t] \notin Range(c) /\ next[new[t]] = Null
      /\ entry[new[t]] = [key |-> req[t].key, value |-> req[t].value]
      /\ pc[t] # "first" => i <= size /\ cur[t] = c[i]
      /\ pc[t] \in {"first", "add", "replace", "push", "insert", "append"} => Strung(size, c)
  BY <1>1, <1>3 DEF AddingAt
<1>7. Freed \notin Entries /\ Null \notin Nodes
  BY NodesAssumption DEF Entries
<1> DEFINE Steady == /\ UNCHANGED <<mutex, size, list, req>>
                     /\ \A u \in Threads : u # t => pc'[u] = pc[u]
<1>8. ASSUME Steady, TypeOK', pc'[t] \in Adding, NEW k \in 1..(size + 1), AddingAt(t, c, k)'
      PROVE  Inv'
  <2>1. pc'[t] \in Writing /\ Serves(req[t].op, pc'[t]) /\ At(t, c, k)'
    BY <1>4, <1>8 DEF Serves, Adding, Removing, Getting, Counting, Writing, At
  <2>2. QED
    BY <1>1, <1>2, <1>8, <2>1, Inside
<1>20. ASSUME UNCHANGED <<entry, live, size, list, req, new>>, pc'[t] = "grow",
               NEW k \in 1..(size + 1),
               \A j \in 1..(k - 1) : Order(t, j) \notin {0, 1},
               k <= size => Order(t, k) = 1,
               Strung(size + 1, With(c, k, new[t]))'
       PROVE  AddingAt(t, c, k)'
  <2>1. \A j : Order(t, j)' = Order(t, j)
    BY <1>20 DEF Order
  <2>2. QED
    BY <1>3, <1>6, <1>20, <2>1 DEF AddingAt
<1> HIDE DEF Steady
<1>9. CASE AddCompare(t)
  <2>1. pc[t] = "add" /\ i <= size /\ cur[t] = c[i] /\ Strung(size, c)
    BY <1>6, <1>9 DEF AddCompare
  <2>2. HasEntry(cur[t]) /\ entry[cur[t]] = list[i] /\ i \in 1..size
    BY <1>4, <1>5, <1>6, <1>7, <2>1 DEF HasEntry
  <2>3. /\ (next[cur[t]] = Null) <=> (i = size)
        /\ i # size => next[cur[t]] = c[i + 1]
        /\ (cur[t] = head) <=> (i = 1)
    BY <1>5, <1>7, <2>1, <2>2 DEF Strung
  <2>4. /\ pc' = [pc EXCEPT ![t] =
                 IF Order(t, i) = 0 THEN "replace"
                 ELSE IF Order(t, i) = 1 THEN IF i = 1 THEN "push" ELSE "insert"
                 ELSE IF i = size THEN "append" ELSE "add"]
        /\ cur' = IF Order(t, i) \notin {0, 1} /\ i # size
                  THEN [cur EXCEPT ![t] = c[i + 1]] ELSE cur
        /\ UNCHANGED <<heap, mutex, req, new, list>>
    BY <1>9, <2>2, <2>3 DEF AddCompare, Order, local, past
  <2>5. Steady
    BY <1>4, <2>4 DEF Steady, heap, TypeOK
  <2>6. TypeOK'
    <3>1. i # size => c[i + 1] \in Nodes
      BY <1>5, <2>2
    <3>2. cur' \in [Threads -> Pointers]
      BY <1>4, <2>4, <3>1 DEF TypeOK, Pointers
    <3>3. QED
      BY <1>4, <2>4, <3>2 DEF TypeOK, heap, Writing
  <2>7. /\ Strung(size, c)' /\ \A j : Order(t, j)' = Order(t, j)
        /\ UNCHANGED <<entry, live, next, size, list, new, req>>
    BY <2>1, <2>4 DEF Strung, Order, heap
  <2>8. CASE Order(t, i) \in {0, 1} \/ i = size
    <3>1. /\ pc'[t] = IF Order(t, i) = 0 THEN "replace"
                      ELSE IF Order(t, i) = 1 THEN IF i = 1 THEN "push" ELSE "insert"
                      ELSE "append"
          /\ cur'[t] = c[i]
      BY <1>4, <2>1, <2>4, <2>8 DEF TypeOK
    <3>2. AddingAt(t, c, i)' /\ pc'[t] \in Adding
      BY <1>5, <1>6, <2>2, <2>7, <2>8, <3>1 DEF AddingAt, Adding
    <3>3. QED
      BY <1>8, <2>5, <2>6, <3>2
  <2>9. CASE Order(t, i) \notin {0, 1} /\ i # size
    <3>1. pc'[t] = "add" /\ cur'[t] = c[i + 1] /\ i + 1 \in 1..(size + 1) /\ i + 1 <= size
      BY <1>4, <1>5, <2>2, <2>4, <2>9 DEF TypeOK
    <3>2. \A j \in 1..(i + 1 - 1) : Order(t, j) \notin {0, 1}
      BY <1>5, <1>6, <2>2, <2>9
    <3>3. AddingAt(t, c, i + 1)' /\ pc'[t] \in Adding
      BY <1>5, <1>6, <2>2, <2>7, <3>1, <3>2 DEF AddingAt, Adding
    <3>4. QED
      BY <1>8, <2>5, <2>6, <3>1, <3>3
  <2>10. QED
    BY <2>8, <2>9
<1>10. CASE AddFirst(t)
  <2>1. /\ pc[t] = "first" /\ pc' = [pc EXCEPT ![t] = "grow"] /\ head' = new[t]
        /\ UNCHANGED <<size, next, prev, entry, live, mutex, req, local, past>>
    BY <1>10 DEF AddFirst, Goto
  <2>2. Steady /\ TypeOK' /\ pc'[t] = "grow"
    BY <1>4, <1>5, <2>1 DEF Steady, TypeOK, local, past, Writing
  <2>3. size = 0 /\ i = 1
    BY <1>3, <2>1 DEF AddingAt
  <2>4. Strung(size + 1, With(c, i, new[t]))'
    BY <1>6, <2>1, <2>3 DEF Strung, With, local
  <2>5. AddingAt(t, c, i)' /\ pc'[t] \in Adding
    BY <1>6, <1>20, <2>1, <2>2, <2>3, <2>4 DEF Adding, local, past
  <2>6. QED
    BY <1>8, <2>2, <2>5
<1>11. CASE Push(t)
  <2>1. /\ pc[t] = "push" /\ pc' = [pc EXCEPT ![t] = "pushed"] /\ head' = new[t]
        /\ UNCHANGED <<size, next, prev, entry, live, mutex, req, local, past>>
    BY <1>11 DEF Push, Goto
  <2>2. Steady /\ TypeOK' /\ pc'[t] = "pushed"
    BY <1>4, <1>5, <2>1 DEF Steady, TypeOK, local, past, Writing
  <2>3. Strung(size, c) /\ i = 1 /\ Order(t, i) = 1
    BY <1>3, <2>1 DEF AddingAt
  <2>4. /\ \A j : Order(t, j)' = Order(t, j)
        /\ UNCHANGED <<size, next, prev, entry, live, new, cur, req, list>>
    BY <2>1 DEF Order, local, past
  <2>5. /\ head' = new'[t]
        /\ \A j \in 1..size' : next'[c[j]] = IF j = size' THEN Null ELSE c[j + 1]
        /\ \A j \in 2..size' : prev'[c[j]] = c[j - 1]
    BY <2>1, <2>3, <2>4 DEF Strung
  <2>6. /\ new'[t] \in Nodes \ Range(c) /\ live' = Range(c) \cup {new'[t]}
        /\ entry'[new'[t]] = [key |-> req'[t].key, value |-> req'[t].value]
        /\ \A j \in 1..(i - 1) : Order(t, j)' \notin {0, 1}
        /\ \A j \in 1..size' : entry'[c[j]] = list'[j]
        /\ i <= size' /\ cur'[t] = c[i] /\ next'[new'[t]] = Null
    BY <1>5, <1>6, <2>1, <2>4
  <2>7. AddingAt(t, c, i)' /\ pc'[t] \in Adding
    BY ONLY <2>2, <2>3, <2>4, <2>5, <2>6 DEF AddingAt, Adding
  <2>8. QED
    BY <1>8, <2>2, <2>7
<1>12. CASE PushLink(t)
  <2>1. /\ pc[t] = "pushed" /\ pc' = [pc EXCEPT ![t] = "grow"]
        /\ next' = [next EXCEPT ![new[t]] = cur[t]]
        /\ prev' = [prev EXCEPT ![cur[t]] = new[t]]
        /\ UNCHANGED <<head, size, entry, live, mutex, req, local, past>>
    BY <1>12 DEF PushLink, Goto
  <2>2. Steady /\ TypeOK' /\ pc'[t] = "grow"
    BY <1>4, <1>5, <2>1 DEF Steady, TypeOK, local, past, Writing, Pointers
  <2>3. /\ head = new[t] /\ i = 1 /\ Order(t, i) = 1
        /\ \A j \in 1..size : next[c[j]] = IF j = size THEN Null ELSE c[j + 1]
        /\ \A j \in 2..size : prev[c[j]] = c[j - 1]
    BY <1>3, <2>1 DEF AddingAt
  <2>4. cur[t] = c[1] /\ 1 \in 1..size
    BY <1>5, <1>6, <2>1, <2>3
  <2>5. /\ next'[new[t]] = c[1]
        /\ \A j \in 1..size : next'[c[j]] = IF j = size THEN Null ELSE c[j + 1]
        /\ prev'[c[1]] = new[t]
        /\ \A j \in 2..size : prev'[c[j]] = c[j - 1]
    BY <1>4, <1>5, <2>1, <2>3, <2>4 DEF TypeOK
  <2>6. Strung(size + 1, With(c, i, new[t]))'
    BY <1>5, <2>1, <2>3, <2>4, <2>5 DEF Strung, With, local
  <2>7. AddingAt(t, c, i)' /\ pc'[t] \in Adding
    BY <1>6, <1>20, <2>1, <2>2, <2>3, <2>6 DEF Adding, local, past
  <2>8. QED
    BY <1>8, <2>2, <2>7
<1>13. CASE Insert(t)
  <2>1. pc[t] = "insert" /\ i > 1 /\ i \in 1..size /\ cur[t] = c[i] /\ Strung(size, c)
        /\ Order(t, i) = 1
    BY <1>3, <1>5, <1>6, <1>13 DEF Insert, AddingAt
  <2>2. i - 1 \in 1..size /\ prev[cur[t]] = c[i - 1]
    BY <1>5, <2>1 DEF Strung
  <2>3. prev[cur[t]] \in live
    BY <1>5, <2>2
  <2>4. /\ pc' = [pc EXCEPT ![t] = "inserted"]
        /\ next' = [next EXCEPT ![c[i - 1]] = new[t]]
        /\ UNCHANGED <<head, size, prev, entry, live, mutex, req, local, past>>
    BY <1>13, <2>2, <2>3 DEF Insert, Goto
  <2>5. Steady /\ TypeOK' /\ pc'[t] = "inserted"
    BY <1>4, <1>5, <2>1, <2>4 DEF Steady, TypeOK, local, past, Writing, Pointers
  <2>6. /\ next'[new[t]] = Null
        /\ \A j \in 1..size : next'[c[j]] = IF j = size THEN Null
                                            ELSE IF j = i - 1 THEN new[t] ELSE c[j + 1]
    BY <1>4, <1>5, <1>6, <2>1, <2>2, <2>4 DEF TypeOK, Strung
  <2>7. AddingAt(t, c, i)' /\ pc'[t] \in Adding
    BY <1>5, <1>6, <2>1, <2>4, <2>5, <2>6 DEF AddingAt, Adding, Strung, Order, local, past
  <2>8. QED
    BY <1>8, <2>5, <2>7
<1>14. CASE InsertLink(t)
  <2>1. /\ pc[t] = "inserted" /\ pc' = [pc EXCEPT ![t] = "grow"]
        /\ prev' = [prev EXCEPT ![new[t]] = prev[cur[t]], ![cur[t]] = new[t]]
        /\ next' = [next EXCEPT ![new[t]] = cur[t]]
        /\ UNCHANGED <<head, size, entry, live, mutex, req, local, past>>
    BY <1>14 DEF InsertLink, Goto
  <2>2. /\ i > 1 /\ i \in 1..size /\ i - 1 \in 1..size /\ cur[t] = c[i] /\ Order(t, i) = 1
        /\ head = c[1]
        /\ \A j \in 1..size : next[c[j]] = IF j = size THEN Null
                                           ELSE IF j = i - 1 THEN new[t] ELSE c[j + 1]
        /\ \A j \in 2..size : prev[c[j]] = c[j - 1]
    BY <1>3, <1>5, <1>6, <2>1 DEF AddingAt
  <2>3. Steady /\ TypeOK' /\ pc'[t] = "grow"
    BY <1>4, <1>5, <2>1, <2>2 DEF Steady, TypeOK, local, past, Writing, Pointers
  <2>4. /\ next'[new[t]] = c[i]
        /\ \A j \in 1..size : next'[c[j]] = IF j = size THEN Null
                                            ELSE IF j = i - 1 THEN new[t] ELSE c[j + 1]
        /\ prev'[new[t]] = c[i - 1] /\ prev'[c[i]] = new[t]
        /\ \A j \in 2..size : j # i => prev'[c[j]] = c[j - 1]
    BY <1>4, <1>5, <2>1, <2>2 DEF TypeOK
  <2>5. Strung(size + 1, With(c, i, new[t]))'
    <3> DEFINE d == With(c, i, new[t])
    <3>1. /\ \A j \in 1..(size + 1) : d[j] = IF j < i THEN c[j] ELSE IF j = i THEN new[t] ELSE c[j - 1]
          /\ d' = d
      BY <2>1 DEF With, local
    <3> HIDE DEF d
    <3>2. head' = d[1]
      BY <1>5, <2>1, <2>2, <3>1
    <3>3. ASSUME NEW j \in 1..(size + 1)
          PROVE  next'[d[j]] = IF j = size + 1 THEN Null ELSE d[j + 1]
      <4>1. CASE j < i
        <5>1. /\ j \in 1..size /\ j # size /\ d[j] = c[j] /\ j # size + 1
              /\ d[j + 1] = IF j = i - 1 THEN new[t] ELSE c[j + 1]
          BY <1>5, <2>2, <3>1, <4>1
        <5>2. QED
          BY <2>4, <5>1
      <4>2. CASE j = i
        <5>1. d[j] = new[t] /\ j # size + 1 /\ d[j + 1] = c[i]
          BY <1>5, <2>2, <3>1, <4>2
        <5>2. QED
          BY <2>4, <5>1
      <4>3. CASE j > i
        <5>1. /\ j - 1 \in 1..size /\ j - 1 # i - 1 /\ d[j] = c[j - 1]
              /\ j - 1 = size <=> j = size + 1 /\ j - 1 + 1 = j
              /\ j # size + 1 => d[j + 1] = c[j]
          BY <1>5, <2>2, <3>1, <4>3
        <5>2. next'[c[j - 1]] = IF j - 1 = size THEN Null
                                ELSE IF j - 1 = i - 1 THEN new[t] ELSE c[j - 1 + 1]
          BY <2>4, <5>1
        <5>3. QED
          BY <5>1, <5>2
      <4>4. QED
        BY <1>5, <2>2, <4>1, <4>2, <4>3
    <3>4. ASSUME NEW j \in 2..(size + 1) PROVE prev'[d[j]] = d[j - 1]
      <4>1. CASE j < i
        <5>1. j \in 2..size /\ d[j] = c[j] /\ d[j - 1] = c[j - 1] /\ j # i
          BY <1>5, <2>2, <3>1, <4>1
        <5>2. QED
          BY <2>4, <5>1
      <4>2. CASE j = i
        <5>1. d[j] = new[t] /\ d[j - 1] = c[i - 1]
          BY <1>5, <2>2, <3>1, <4>2
        <5>2. QED
          BY <2>4, <5>1
      <4>3. CASE j = i + 1
        <5>1. d[j] = c[i] /\ d[j - 1] = new[t]
          BY <1>5, <2>2, <3>1, <4>3
        <5>2. QED
          BY <2>4, <5>1
      <4>4. CASE j > i + 1
        <5>1. j - 1 \in 2..size /\ j - 1 # i /\ d[j] = c[j - 1] /\ d[j - 1] = c[j - 1 - 1]
          BY <1>5, <2>2, <3>1, <4>4
        <5>2. QED
          BY <2>4, <5>1
      <4>5. QED
        BY <1>5, <2>2, <4>1, <4>2, <4>3, <4>4
    <3>5. size' = size /\ size + 1 # 0
      BY <1>5, <2>1
    <3>6. QED
      BY <3>1, <3>2, <3>3, <3>4, <3>5 DEF Strung, d
  <2>6. AddingAt(t, c, i)' /\ pc'[t] \in Adding
    BY <1>6, <1>20, <2>1, <2>2, <2>3, <2>5 DEF Adding, local, past
  <2>7. QED
    BY <1>8, <2>3, <2>6
<1>15. CASE AddLast(t)
  <2>1. /\ pc[t] = "append" /\ pc' = [pc EXCEPT ![t] = "grow"]
        /\ prev' = [prev EXCEPT ![new[t]] = cur[t]]
        /\ next' = [next EXCEPT ![cur[t]] = new[t]]
        /\ UNCHANGED <<head, size, entry, live, mutex, req, local, past>>
    BY <1>15 DEF AddLast, Goto
  <2>2. /\ i = size /\ i \in 1..size /\ cur[t] = c[size] /\ Order(t, i) \notin {0, 1}
        /\ Strung(size, c)
    BY <1>3, <1>5, <1>6, <2>1 DEF AddingAt
  <2>3. Steady /\ TypeOK' /\ pc'[t] = "grow"
    BY <1>4, <1>5, <2>1, <2>2 DEF Steady, TypeOK, local, past, Writing, Pointers
  <2>4. /\ next'[c[size]] = new[t] /\ next'[new[t]] = Null
        /\ \A j \in 1..size : j # size => next'[c[j]] = c[j + 1]
        /\ prev'[new[t]] = c[size]
        /\ \A j \in 2..size : prev'[c[j]] = c[j - 1]
        /\ head' = c[1]
    <3>1. next \in [Nodes -> Pointers] /\ prev \in [Nodes -> Pointers]
      BY <1>4 DEF TypeOK
    <3>2. c[size] \in Nodes /\ c[size] # new[t] /\ new[t] \in Nodes /\ size \in 1..size
      BY <1>5, <2>2
    <3>3. /\ head = c[1] /\ next[new[t]] = Null
          /\ \A j \in 1..size : next[c[j]] = IF j = size THEN Null ELSE c[j + 1]
          /\ \A j \in 2..size : prev[c[j]] = c[j - 1]
      BY <1>6, <2>1, <2>2 DEF Strung
    <3>4. /\ next' = [next EXCEPT ![c[size]] = new[t]] /\ prev' = [prev EXCEPT ![new[t]] = c[size]]
          /\ head' = head
      BY <2>1, <2>2
    <3>5. next'[c[size]] = new[t] /\ next'[new[t]] = Null /\ prev'[new[t]] = c[size] /\ head' = c[1]
      BY ONLY <3>1, <3>2, <3>3, <3>4
    <3>6. ASSUME NEW j \in 1..size, j # size PROVE next'[c[j]] = c[j + 1]
      <4>1. c[j] \in Nodes /\ c[j] # c[size] /\ next[c[j]] = c[j + 1]
        BY <1>5, <3>2, <3>3, <3>6
      <4>2. QED
        BY ONLY <3>1, <3>4, <4>1
    <3>7. ASSUME NEW j \in 2..size PROVE prev'[c[j]] = c[j - 1]
      <4>1. j \in 1..size
        BY <1>5
      <4>2. c[j] \in Nodes /\ c[j] # new[t] /\ prev[c[j]] = c[j - 1]
        BY <1>5, <3>3, <4>1
      <4>3. QED
        BY ONLY <3>1, <3>4, <4>2
    <3>8. QED
      BY <3>5, <3>6, <3>7
  <2> PICK k \in 1..(size + 1) : k = size + 1
    BY <1>5
  <2>5. Strung(size + 1, With(c, k, new[t]))'
    BY <1>5, <2>1, <2>2, <2>4 DEF Strung, With, local
  <2>6. \A j \in 1..(k - 1) : Order(t, j) \notin {0, 1}
    BY <1>5, <1>6, <2>2
  <2>7. ~(k <= size)
    BY <1>5
  <2>8. AddingAt(t, c, k)' /\ pc'[t] \in Adding
    BY <1>20, <2>1, <2>3, <2>5, <2>6, <2>7 DEF Adding, local, past
  <2>9. QED
    BY <1>8, <2>3, <2>8
<1>16. CASE Replace(t)
  <2>1. /\ pc[t] = "replace" /\ pc' = [pc EXCEPT ![t] = "reuse"]
        /\ entry' = [entry EXCEPT ![cur[t]] = Freed]
        /\ cur' = [u \in Threads |->
                     IF u # t /\ pc[u] = "copy" /\ cur[u] = cur[t] THEN Freed ELSE cur[u]]
        /\ UNCHANGED <<head, size, next, prev, live, mutex, req, new, past>>
    BY <1>16 DEF Replace, Goto, EntryDestroy
  <2>2. Strung(size, c) /\ Order(t, i) = 0 /\ i \in 1..size /\ cur[t] = c[i]
    BY <1>3, <1>5, <1>6, <2>1 DEF AddingAt
  <2>3. Steady /\ TypeOK' /\ pc'[t] = "reuse" /\ cur'[t] = c[i]
    BY <1>4, <2>1, <2>2 DEF Steady, TypeOK, past, Writing, Pointers
  <2>4. /\ \A j \in 1..size : j # i => entry'[c[j]] = entry[c[j]]
        /\ entry'[new[t]] = entry[new[t]]
    BY <1>4, <1>5, <2>1, <2>2 DEF TypeOK
  <2>5. Strung(size, c)' /\ \A j : Order(t, j)' = Order(t, j)
    BY <2>1, <2>2 DEF Strung, Order, past
  <2>6. i <= size /\ next'[new[t]] = Null /\ UNCHANGED <<live, new, size, list, req>>
    BY <1>6, <2>1, <2>2 DEF past
  <2>7. AddingAt(t, c, i)'
    BY ONLY <1>3, <1>6, <2>2, <2>3, <2>4, <2>5, <2>6 DEF AddingAt
  <2>8. QED
    BY <1>8, <2>3, <2>7 DEF Adding
<1>17. QED
  BY <1>9, <1>10, <1>11, <1>12, <1>13, <1>14, <1>15, <1>16

\* list_remove up to the last of its steps, but where it finds nothing.
LEMMA RemoveStep ==
  ASSUME Inv, NEW t \in Threads,
         (RemoveCompare(t) /\ cur[t] # Null) \/ Unlink(t) \/ RemoveDestroy(t)
  PROVE  Inv'
<1>1. pc[t] \in Removing \ {"free"} /\ pc[t] \in Writing
  BY DEF RemoveCompare, Unlink, RemoveDestroy, Goto, Removing, Writing
<1>2. PICK c \in [1..size -> Nodes], i \in 1..(size + 1) :
        IsInjective(c) /\ At(t, c, i)
  BY <1>1, Holder
<1>3. RemovingAt(t, c, i)
  BY <1>1, <1>2 DEF At, Adding, Removing
<1>4. TypeOK /\ list \in [1..size -> Entries] /\ Serves(req[t].op, pc[t]) /\ req[t].op = "del"
  BY <1>1 DEF Inv, Shared, Asked, Serves
<1>5. /\ \A j \in 1..size : c[j] \in Nodes /\ c[j] \in live
      /\ \A j, k \in 1..size : c[j] = c[k] => j = k
      /\ size \in Nat
  BY <1>2, <1>3, <1>4 DEF RemovingAt, Range, IsInjective, TypeOK
<1>6. /\ \A j \in 1..(i - 1) : list[j].key # req[t].key
      /\ \A j \in 1..size : entry[c[j]] = list[j]
      /\ live = Range(c)
      /\ pc[t] = "rm" => cur[t] = IF i <= size THEN c[i] ELSE Null
      /\ pc[t] # "rm" => i <= size /\ cur[t] = c[i] /\ list[i].key = req[t].key
  BY <1>1, <1>3 DEF RemovingAt
<1>7. Freed \notin Entries /\ Null \notin Nodes
  BY NodesAssumption DEF Entries
<1> DEFINE Steady == /\ UNCHANGED <<mutex, size, list, req>>
                     /\ \A u \in Threads : u # t => pc'[u] = pc[u]
<1>8. ASSUME Steady, TypeOK', pc'[t] \in Removing, NEW k \in 1..(size + 1), RemovingAt(t, c, k)'
      PROVE  Inv'
  <2>1. pc'[t] \in Writing /\ Serves(req[t].op, pc'[t]) /\ At(t, c, k)'
    BY <1>4, <1>8 DEF Serves, Adding, Removing, Getting, Counting, Writing, At
  <2>2. QED
    BY <1>1, <1>2, <1>8, <2>1, Inside
<1> HIDE DEF Steady
<1>9. CASE RemoveCompare(t) /\ cur[t] # Null
  <2>1. pc[t] = "rm" /\ i \in 1..size /\ cur[t] = c[i] /\ Strung(size, c)
    BY <1>3, <1>5, <1>6, <1>9 DEF RemoveCompare, RemovingAt
  <2>2. HasEntry(cur[t]) /\ entry[cur[t]] = list[i]
    BY <1>4, <1>5, <1>6, <1>7, <2>1 DEF HasEntry
  <2>3. CASE list[i].key = req[t].key
    <3>1. /\ pc' = [pc EXCEPT ![t] = "unlink"]
          /\ UNCHANGED <<heap, mutex, req, local, past, reply>>
      BY <1>9, <2>2, <2>3 DEF RemoveCompare, Goto
    <3>2. Steady /\ TypeOK' /\ pc'[t] = "unlink"
      BY <1>4, <3>1 DEF Steady, TypeOK, heap, local, past, Writing
    <3>3. RemovingAt(t, c, i)' /\ pc'[t] \in Removing
      BY <1>6, <2>1, <2>3, <3>1, <3>2 DEF RemovingAt, Removing, Strung, heap, local, past
    <3>4. QED
      BY <1>8, <3>2, <3>3
  <2>4. CASE list[i].key # req[t].key
    <3>1. /\ cur' = [cur EXCEPT ![t] = next[cur[t]]]
          /\ UNCHANGED <<heap, mutex, pc, req, new, past>>
      BY <1>9, <2>2, <2>4 DEF RemoveCompare
    <3>2. next[cur[t]] = IF i = size THEN Null ELSE c[i + 1]
      BY <2>1 DEF Strung
    <3>3. i + 1 \in 1..(size + 1) /\ (i + 1 <= size <=> i # size)
      BY <1>5, <2>1
    <3>4. Steady /\ TypeOK'
      BY <1>4, <1>5, <2>1, <3>1 DEF Steady, TypeOK, heap, past
    <3>5. cur'[t] = IF i + 1 <= size THEN c[i + 1] ELSE Null
      BY <1>4, <3>1, <3>2, <3>3 DEF TypeOK
    <3>6. \A j \in 1..(i + 1 - 1) : list[j].key # req[t].key
      BY <1>5, <1>6, <2>1, <2>4
    <3>7. Strung(size, c)'
      BY <2>1, <3>1 DEF Strung, heap
    <3>8. RemovingAt(t, c, i + 1)' /\ pc'[t] \in Removing
      BY <1>6, <2>1, <3>1, <3>5, <3>6, <3>7 DEF RemovingAt, Removing, heap, past
    <3>9. QED
      BY <1>8, <3>3, <3>4, <3>8
  <2>5. QED
    BY <2>3, <2>4
<1>10. CASE Unlink(t)
  <2>1. pc[t] = "unlink" /\ i \in 1..size /\ cur[t] = c[i] /\ Strung(size, c)
        /\ list[i].key = req[t].key
    BY <1>3, <1>5, <1>6, <1>10 DEF Unlink, RemovingAt
  <2>2. /\ i = 1 <=> c[i] = head
        /\ i # 1 => i - 1 \in 1..size /\ prev[c[i]] = c[i - 1]
        /\ next[c[i]] = IF i = size THEN Null ELSE c[i + 1]
    BY <1>5, <2>1 DEF Strung
  <2>3. /\ pc' = [pc EXCEPT ![t] = "destroy"]
        /\ UNCHANGED <<size, entry, live, mutex, req, local, past>>
        /\ IF i = 1
           THEN head' = next[c[i]] /\ UNCHANGED <<next, prev>>
           ELSE /\ next' = [next EXCEPT ![c[i - 1]] = next[c[i]]]
                /\ prev' = IF next[c[i]] = Null THEN prev
                           ELSE [prev EXCEPT ![next[c[i]]] = c[i - 1]]
                /\ UNCHANGED head
    BY <1>5, <1>10, <2>1, <2>2 DEF Unlink, Goto
  <2>4. i # size => i + 1 \in 1..size /\ c[i + 1] \in Nodes /\ c[i + 1] # Null
    BY <1>5, <1>7, <2>1
  <2>5. i # 1 => c[i - 1] \in Nodes
    BY <1>5, <2>2
  <2>6. next[c[i]] \in Nodes \cup {Null}
    BY <2>2, <2>4
  <2>7. Steady /\ pc'[t] = "destroy"
    BY <1>4, <2>3 DEF Steady, TypeOK, past
  <2>8. TypeOK'
    <3>1. next' \in [Nodes -> Pointers] /\ prev' \in [Nodes -> Pointers] /\ head' \in Nodes \cup {Null}
      BY <1>4, <2>3, <2>5, <2>6 DEF TypeOK, Pointers
    <3>2. QED
      BY <1>4, <2>3, <3>1 DEF TypeOK, local, past, Writing
  <2>9. Strung(size - 1, Without(c, i))'
    <3> DEFINE d == Without(c, i)
    <3>1. /\ \A j \in 1..(size - 1) : d[j] = IF j < i THEN c[j] ELSE c[j + 1]
          /\ d' = d
      BY <2>3 DEF Without
    <3> HIDE DEF d
    <3>2. head' = IF size - 1 = 0 THEN Null ELSE d[1]
      <4>1. CASE i = 1
        BY <1>5, <2>1, <2>2, <2>3, <3>1, <4>1
      <4>2. CASE i # 1
        <5>1. size - 1 # 0 /\ 1 \in 1..(size - 1) /\ d[1] = c[1] /\ head = c[1]
          BY <1>5, <2>1, <3>1, <4>2 DEF Strung
        <5>2. QED
          BY <2>3, <4>2, <5>1
      <4>3. QED
        BY <4>1, <4>2
    <3>3. /\ \A j \in 1..size : j # i - 1 => next'[c[j]] = IF j = size THEN Null ELSE c[j + 1]
          /\ i # 1 => next'[c[i - 1]] = IF i = size THEN Null ELSE c[i + 1]
          /\ \A j \in 2..size : j # i + 1 => prev'[c[j]] = c[j - 1]
          /\ i # size /\ i # 1 => prev'[c[i + 1]] = c[i - 1]
      BY <1>4, <1>5, <2>1, <2>2, <2>3, <2>4 DEF TypeOK, Strung
    <3>4. ASSUME NEW j \in 1..(size - 1)
          PROVE  next'[d[j]] = IF j = size - 1 THEN Null ELSE d[j + 1]
      <4>1. CASE j < i - 1
        <5>1. /\ j \in 1..size /\ j # size /\ j # size - 1 /\ j # i - 1
              /\ d[j] = c[j] /\ d[j + 1] = c[j + 1]
          BY <1>5, <2>1, <3>1, <4>1
        <5>2. QED
          BY <3>3, <5>1
      <4>2. CASE j = i - 1
        <5>1. /\ i # 1 /\ d[j] = c[i - 1] /\ (i = size <=> j = size - 1)
              /\ j # size - 1 => d[j + 1] = c[i + 1]
          BY <1>5, <2>1, <3>1, <4>2
        <5>2. QED
          BY <3>3, <5>1
      <4>3. CASE j > i - 1
        <5>1. /\ j + 1 \in 1..size /\ j + 1 # i - 1 /\ d[j] = c[j + 1]
              /\ j + 1 = size <=> j = size - 1
              /\ j # size - 1 => d[j + 1] = c[j + 1 + 1]
          BY <1>5, <2>1, <3>1, <4>3
        <5>2. next'[c[j + 1]] = IF j + 1 = size THEN Null ELSE c[j + 1 + 1]
          BY <3>3, <5>1
        <5>3. QED
          BY <5>1, <5>2
      <4>4. QED
        BY <1>5, <2>1, <4>1, <4>2, <4>3
    <3>5. ASSUME NEW j \in 2..(size - 1) PROVE prev'[d[j]] = d[j - 1]
      <4>1. CASE j < i
        <5>1. j \in 2..size /\ j # i + 1 /\ d[j] = c[j] /\ d[j - 1] = c[j - 1]
          BY <1>5, <2>1, <3>1, <4>1
        <5>2. QED
          BY <3>3, <5>1
      <4>2. CASE j = i
        <5>1. i # size /\ i # 1 /\ d[j] = c[i + 1] /\ d[j - 1] = c[i - 1]
          BY <1>5, <2>1, <3>1, <4>2
        <5>2. QED
          BY <3>3, <5>1
      <4>3. CASE j > i
        <5>1. /\ j + 1 \in 2..size /\ j + 1 # i + 1 /\ d[j] = c[j + 1]
              /\ d[j - 1] = c[j + 1 - 1]
          BY <1>5, <2>1, <3>1, <4>3
        <5>2. prev'[c[j + 1]] = c[j + 1 - 1]
          BY <3>3, <5>1
        <5>3. QED
          BY <5>1, <5>2
      <4>4. QED
        BY <1>5, <2>1, <4>1, <4>2, <4>3
    <3>6. size' = size
      BY <2>3
    <3>7. QED
      BY <3>1, <3>2, <3>4, <3>5, <3>6 DEF Strung, d
  <2>10. next'[c[i]] = IF i = size THEN Null ELSE c[i + 1]
    <3>1. i # 1 => c[i] # c[i - 1]
      BY <1>5, <2>1, <2>2
    <3>2. next'[c[i]] = next[c[i]]
      BY <1>4, <1>5, <2>1, <2>3, <2>5, <3>1 DEF TypeOK
    <3>3. QED
      BY <2>2, <3>2
  <2>11. RemovingAt(t, c, i)' /\ pc'[t] \in Removing
    BY <1>6, <2>1, <2>3, <2>7, <2>9, <2>10 DEF RemovingAt, Removing, local, past
  <2>12. QED
    BY <1>8, <2>7, <2>8, <2>11
<1>11. CASE RemoveDestroy(t)
  <2>1. /\ pc[t] = "destroy" /\ pc' = [pc EXCEPT ![t] = "free"]
        /\ entry' = [entry EXCEPT ![cur[t]] = Freed]
        /\ cur' = [u \in Threads |->
                     IF u # t /\ pc[u] = "copy" /\ cur[u] = cur[t] THEN Freed ELSE cur[u]]
        /\ UNCHANGED <<head, size, next, prev, live, mutex, req, new, past>>
    BY <1>11 DEF RemoveDestroy, Goto, EntryDestroy
  <2>2. i \in 1..size /\ cur[t] = c[i] /\ list[i].key = req[t].key
        /\ Strung(size - 1, Without(c, i))
        /\ next'[c[i]] = IF i = size THEN Null ELSE c[i + 1]
    BY <1>3, <1>5, <1>6, <2>1 DEF RemovingAt
  <2>3. Steady /\ TypeOK' /\ pc'[t] = "free" /\ cur'[t] = c[i]
    BY <1>4, <2>1, <2>2 DEF Steady, TypeOK, past, Writing, Pointers
  <2>4. \A j \in 1..size : j # i => entry'[c[j]] = entry[c[j]]
    BY <1>4, <1>5, <2>1, <2>2 DEF TypeOK
  <2>5. Strung(size - 1, Without(c, i))'
    <3>1. Without(c, i)' = Without(c, i)
      BY <2>1 DEF Without
    <3>2. QED
      BY <2>1, <2>2, <3>1 DEF Strung
  <2>6. RemovingAt(t, c, i)' /\ pc'[t] \in Removing
    BY <1>6, <2>1, <2>2, <2>3, <2>4, <2>5 DEF RemovingAt, Removing, past
  <2>7. QED
    BY <1>8, <2>3, <2>6
<1>12. QED
  BY <1>9, <1>10, <1>11

-----------------------------------------------------------------------------
(* Taking and giving back the mutex *)

LEMMA LockStep ==
  ASSUME Inv, NEW t \in Threads, LockAdd(t) \/ LockRemove(t)
  PROVE  Inv'
<1>1. mutex = Null /\ mutex' = t /\ pc[t] \in {"put", "del"}
  BY DEF LockAdd, LockRemove, Lock, Goto
<1>2. PICK c \in [1..size -> Nodes] : IsInjective(c) /\ Settled(c)
  BY <1>1 DEF Inv, Shape
<1>3. TypeOK /\ list \in [1..size -> Entries] /\ Asked(t) /\ Held
  BY DEF Inv, Shared
<1>4. /\ \A j \in 1..size : c[j] \in Nodes /\ c[j] \in live /\ entry[c[j]] = list[j]
      /\ size \in Nat /\ 1 \in 1..(size + 1)
      /\ Strung(size, c) /\ live = Range(c)
  BY <1>2, <1>3 DEF Settled, Range, TypeOK
<1>5. ASSUME UNCHANGED <<size, list, req>>, TypeOK', pc'[t] \in Writing,
             Serves(req[t].op, pc'[t]),
             \A u \in Threads : u # t => pc'[u] = pc[u], At(t, c, 1)'
      PROVE  Inv'
  <2>1. Held'
    BY <1>1, <1>3, <1>5, ThreadsNotNull DEF Held
  <2>2. \A u \in Threads : Asked(u)'
    BY <1>5 DEF Inv, Shared, Asked
  <2>3. Shared'
    BY <1>5, <2>1, <2>2 DEF Inv, Shared
  <2>4. mutex' # Null /\ \A u \in Threads : mutex' = u => u = t
    BY <1>1, ThreadsNotNull
  <2>5. c \in [1..size' -> Nodes] /\ 1 \in 1..(size' + 1)
    BY <1>4, <1>5
  <2>6. Shape(c)'
    BY <1>2, <1>5, <2>4, <2>5 DEF Shape
  <2>7. QED
    BY <2>3, <2>5, <2>6 DEF Inv
<1>6. /\ cur' = [cur EXCEPT ![t] = head]
      /\ 0 < size => head = c[1] /\ 1 <= size
      /\ size = 0 => head = Null
  BY <1>4 DEF LockAdd, LockRemove, Lock, Strung
<1>7. CASE LockAdd(t)
  <2>1. PICK n : n = Malloc
    OBVIOUS
  <2>2. n \in Nodes \ live
    BY <1>3, <1>7, <2>1 DEF LockAdd, Malloc, TypeOK
  <2>3. /\ pc' = [pc EXCEPT ![t] = IF size = 0 THEN "first" ELSE "add"]
        /\ live' = live \cup {n}
        /\ entry' = [entry EXCEPT ![n] = [key |-> req[t].key, value |-> req[t].value]]
        /\ next' = [next EXCEPT ![n] = Null]
        /\ prev' = [prev EXCEPT ![n] = Null]
        /\ new' = [new EXCEPT ![t] = n]
        /\ UNCHANGED <<head, size, req, list>>
        /\ pc[t] = "put"
    BY <1>7, <2>1 DEF LockAdd, Goto
  <2>4. req[t].op = "put" /\ req[t].key \in Keys /\ req[t].value \in Values
    BY <1>3, <2>3 DEF Asked, Serves
  <2>5. TypeOK'
    <3>1. [key |-> req[t].key, value |-> req[t].value] \in Entries
      BY <2>4 DEF Entries
    <3>2. /\ entry' \in [Nodes -> Entries \cup {Freed}]
          /\ next' \in [Nodes -> Pointers] /\ prev' \in [Nodes -> Pointers]
          /\ live' \subseteq Nodes
      BY <1>3, <2>2, <2>3, <3>1 DEF TypeOK, Pointers
    <3>3. cur' \in [Threads -> Pointers] /\ new' \in [Threads -> Nodes \cup {Null}]
      BY <1>3, <1>6, <2>2, <2>3 DEF TypeOK, Pointers
    <3>4. QED
      BY <1>1, <1>3, <2>3, <3>2, <3>3 DEF TypeOK, Writing
  <2>6. /\ pc'[t] = IF size = 0 THEN "first" ELSE "add"
        /\ new'[t] = n /\ cur'[t] = head
        /\ entry'[n] = [key |-> req[t].key, value |-> req[t].value]
        /\ next'[n] = Null
        /\ \A j \in 1..size : /\ c[j] # n /\ entry'[c[j]] = list[j]
                              /\ next'[c[j]] = next[c[j]] /\ prev'[c[j]] = prev[c[j]]
    BY <1>3, <1>4, <1>6, <2>2, <2>3 DEF TypeOK
  <2>7. Strung(size, c)'
    <3>1. head' = (IF size' = 0 THEN Null ELSE c[1])
      BY <1>4, <2>3 DEF Strung
    <3>2. \A j \in 1..size : /\ next[c[j]] = IF j = size THEN Null ELSE c[j + 1]
                             /\ j \in 2..size => prev[c[j]] = c[j - 1]
      BY <1>4 DEF Strung
    <3>3. size' = size /\ \A j \in 2..size : j \in 1..size
      BY <1>4, <2>3
    <3>4. \A j \in 1..size : /\ next'[c[j]] = next[c[j]]
                             /\ prev'[c[j]] = prev[c[j]]
      BY <2>6
    <3>5. ASSUME NEW j \in 1..size
          PROVE  next'[c[j]] = IF j = size THEN Null ELSE c[j + 1]
      BY <3>2, <3>4
    <3>6. ASSUME NEW j \in 2..size PROVE prev'[c[j]] = c[j - 1]
      BY <3>2, <3>3, <3>4
    <3>7. QED
      BY ONLY <3>1, <3>3, <3>5, <3>6 DEF Strung
  <2>8. AddingAt(t, c, 1)'
    BY <1>4, <1>6, <2>2, <2>3, <2>6, <2>7 DEF AddingAt
  <2>9. pc'[t] \in Writing /\ Serves(req[t].op, pc'[t]) /\ At(t, c, 1)'
    BY <2>4, <2>6, <2>8 DEF Writing, Serves, At, Adding, Removing, Getting, Counting
  <2>10. \A u \in Threads : u # t => pc'[u] = pc[u]
    BY <1>3, <2>3 DEF TypeOK
  <2>11. QED
    BY <1>5, <2>3, <2>5, <2>9, <2>10
<1>8. CASE LockRemove(t)
  <2>1. /\ pc' = [pc EXCEPT ![t] = "rm"] /\ pc[t] = "del"
        /\ UNCHANGED <<heap, req, new, list>>
    BY <1>8 DEF LockRemove, Goto
  <2>2. TypeOK'
    BY <1>1, <1>3, <1>6, <2>1 DEF TypeOK, heap, Writing, Pointers
  <2>3. pc'[t] = "rm" /\ cur'[t] = head /\ req[t].op = "del"
    BY <1>3, <1>6, <2>1 DEF TypeOK, Asked, Serves
  <2>4. Strung(size, c)'
    BY <1>4, <2>1 DEF Strung, heap
  <2>5. RemovingAt(t, c, 1)'
    BY <1>4, <1>6, <2>1, <2>3, <2>4 DEF RemovingAt, heap
  <2>6. pc'[t] \in Writing /\ Serves(req[t].op, pc'[t]) /\ At(t, c, 1)'
    BY <2>3, <2>5 DEF Writing, Serves, At, Adding, Removing, Getting, Counting
  <2>7. \A u \in Threads : u # t => pc'[u] = pc[u]
    BY <1>3, <2>1 DEF TypeOK
  <2>8. QED
    BY <1>5, <2>1, <2>2, <2>6, <2>7 DEF heap
<1>9. QED
  BY <1>7, <1>8

LEMMA Released ==
  ASSUME Inv, NEW t \in Threads, pc[t] \in Writing, pc'[t] \notin Writing,
         Serves(req[t].op, pc'[t]), mutex' = Null, UNCHANGED req,
         \A u \in Threads : u # t => pc'[u] = pc[u],
         pc' \in [Threads -> Reading \cup Writing \cup {"idle", "put", "del", "answer", "undefined"}],
         next' \in [Nodes -> Pointers], prev' \in [Nodes -> Pointers],
         entry' \in [Nodes -> Entries \cup {Freed}],
         cur' \in [Threads -> Pointers], UNCHANGED new,
         size' \in Nat, NEW d \in [1..size' -> Nodes], IsInjective(d),
         Strung(size, d)', live' = Range(d), \A j \in 1..size' : entry'[d[j]] \in Entries,
         list' = EntriesFrom(head', next', entry')
  PROVE  Inv' /\ list' = [j \in 1..size' |-> entry'[d[j]]]
<1>1. list' = [j \in 1..size' |-> entry'[d[j]]]
  <2>1. head' = IF size' = 0 THEN Null ELSE d[1]
    BY DEF Strung
  <2>2. \A j \in 1..size' : next'[d[j]] = IF j = size' THEN Null ELSE d[j + 1]
    BY DEF Strung
  <2>3. size' \in Nat /\ d \in [1..size' -> Nodes] /\ IsInjective(d)
    OBVIOUS
  <2>4. Chained(head', next') = d
    <3>1. PICK m, h, nx : m \in Nat /\ m = size' /\ h = head' /\ nx = next'
      BY <2>3
    <3>2. /\ d \in [1..m -> Nodes] /\ h = IF m = 0 THEN Null ELSE d[1]
          /\ \A j \in 1..m : nx[d[j]] = IF j = m THEN Null ELSE d[j + 1]
      BY ONLY <2>1, <2>2, <2>3, <3>1
    <3>3. Chained(h, nx) = d
      BY ONLY <2>3, <3>1, <3>2, ChainIsWalked
    <3>4. QED
      BY ONLY <3>1, <3>3
  <2>5. Len(d) = size'
    BY <2>3
  <2>6. EntriesFrom(head', next', entry') = [j \in 1..Len(d) |-> entry'[d[j]]]
    BY ONLY <2>4 DEF EntriesFrom
  <2>7. QED
    BY <2>5, <2>6
<1>2. list' \in [1..size' -> Entries]
  BY <1>1
<1>3. list' \in Seq(Entries)
  BY <1>2
<1>4. head' \in Nodes \cup {Null} /\ live' \subseteq Nodes
  BY DEF Strung, Range
<1>5. TypeOK'
  BY <1>3, <1>4 DEF Inv, Shared, TypeOK
<1>6. Held'
  <2>1. mutex = t
    BY DEF Inv, Shared, Held
  <2>2. QED
    BY <2>1, ThreadsNotNull DEF Inv, Shared, Held
<1>7. \A u \in Threads : Asked(u)'
  BY DEF Inv, Shared, Asked
<1>8. Shared'
  BY <1>2, <1>5, <1>6, <1>7 DEF Inv, Shared
<1>9. Settled(d)'
  BY <1>1 DEF Settled
<1>10. Shape(d)'
  BY <1>9, ThreadsNotNull DEF Shape
<1>11. QED
  BY <1>1, <1>8, <1>10 DEF Inv

-----------------------------------------------------------------------------
(* A node more, a node less *)

LEMMA WithNode ==
  ASSUME size \in Nat, NEW c \in [1..size -> Nodes], IsInjective(c),
         NEW i \in 1..(size + 1), NEW n \in Nodes \ Range(c)
  PROVE  /\ With(c, i, n) \in [1..(size + 1) -> Nodes]
         /\ IsInjective(With(c, i, n))
         /\ Range(With(c, i, n)) = Range(c) \cup {n}
<1> DEFINE d == With(c, i, n)
<1>1. /\ DOMAIN d = 1..(size + 1)
      /\ \A j \in 1..(size + 1) :
           d[j] = IF j < i THEN c[j] ELSE IF j = i THEN n ELSE c[j - 1]
  BY DEF With
<1>2. d = [j \in 1..(size + 1) |-> d[j]]
  BY DEF With
<1> HIDE DEF d
<1>3. /\ \A j, k \in 1..size : c[j] = c[k] => j = k
      /\ \A j \in 1..size : c[j] \in Nodes /\ c[j] # n
  BY DEF IsInjective, Range
<1>4. \A j \in 1..(size + 1) : /\ j < i => j \in 1..size
                               /\ j # i /\ ~(j < i) => j - 1 \in 1..size
  OBVIOUS
<1>5. \A j \in 1..(size + 1) : d[j] \in Nodes /\ (d[j] = n <=> j = i)
  BY <1>1, <1>3, <1>4
<1>6. \A j, k \in 1..(size + 1) : d[j] = d[k] => j = k
  <2>1. SUFFICES ASSUME NEW j \in 1..(size + 1), NEW k \in 1..(size + 1), d[j] = d[k]
                 PROVE  j = k
    OBVIOUS
  <2>2. CASE j = i \/ k = i
    BY <1>5, <2>1, <2>2
  <2>3. CASE j # i /\ k # i
    <3> DEFINE at(x) == IF x < i THEN x ELSE x - 1
    <3>1. d[j] = c[at(j)] /\ d[k] = c[at(k)] /\ at(j) \in 1..size /\ at(k) \in 1..size
      BY <1>1, <1>4, <2>3
    <3>2. at(j) = at(k)
      <4> HIDE DEF at
      <4>1. QED
        BY <1>3, <2>1, <3>1
    <3>3. QED
      BY <2>3, <3>2
  <2>4. QED
    BY <2>2, <2>3
<1>7. Range(d) = Range(c) \cup {n}
  <2>1. \A j \in 1..(size + 1) : d[j] \in Range(c) \cup {n}
    BY <1>1, <1>4 DEF Range
  <2>2. n \in Range(d)
    BY <1>1, <1>5 DEF Range
  <2>3. ASSUME NEW j \in 1..size PROVE c[j] \in Range(d)
    <3>1. CASE j < i
      <4>1. j \in 1..(size + 1) /\ d[j] = c[j]
        BY <1>1, <3>1
      <4>2. QED
        BY <1>1, <4>1 DEF Range
    <3>2. CASE ~(j < i)
      <4>1. PICK k \in 1..(size + 1) : k = j + 1
        OBVIOUS
      <4>2. d[k] = c[j]
        BY <1>1, <3>2, <4>1
      <4>3. QED
        BY <1>1, <4>2 DEF Range
    <3>3. QED
      BY <3>1, <3>2
  <2>4. Range(d) = {d[j] : j \in 1..(size + 1)} /\ Range(c) = {c[j] : j \in 1..size}
    BY <1>1 DEF Range
  <2>5. QED
    BY <2>1, <2>2, <2>3, <2>4
<1>8. QED
  BY <1>1, <1>2, <1>5, <1>6, <1>7 DEF d, IsInjective

LEMMA WithoutNode ==
  ASSUME size \in Nat, NEW c \in [1..size -> Nodes], IsInjective(c), NEW i \in 1..size
  PROVE  /\ Without(c, i) \in [1..(size - 1) -> Nodes]
         /\ IsInjective(Without(c, i))
         /\ Range(Without(c, i)) = Range(c) \ {c[i]}
<1> DEFINE d == Without(c, i)
<1>1. /\ DOMAIN d = 1..(size - 1)
      /\ \A j \in 1..(size - 1) : d[j] = IF j < i THEN c[j] ELSE c[j + 1]
  BY DEF Without
<1>2. d = [j \in 1..(size - 1) |-> d[j]]
  BY DEF Without
<1> HIDE DEF d
<1>3. /\ \A j, k \in 1..size : c[j] = c[k] => j = k
      /\ \A j \in 1..size : c[j] \in Nodes
  BY DEF IsInjective
<1> DEFINE at(x) == IF x < i THEN x ELSE x + 1
<1>4. \A j \in 1..(size - 1) : at(j) \in 1..size \ {i} /\ d[j] = c[at(j)]
  BY <1>1
<1>5. \A j, k \in 1..(size - 1) : at(j) = at(k) => j = k
  OBVIOUS
<1>6. \A k \in 1..size \ {i} : \E j \in 1..(size - 1) : at(j) = k
  <2>1. SUFFICES ASSUME NEW k \in 1..size \ {i}
                 PROVE  \E j \in 1..(size - 1) : at(j) = k
    OBVIOUS
  <2>2. CASE k < i
    <3>1. k \in 1..(size - 1) /\ at(k) = k
      BY <2>2
    <3>2. QED
      BY <3>1
  <2>3. CASE ~(k < i)
    <3>1. k - 1 \in 1..(size - 1) /\ at(k - 1) = k
      BY <2>1, <2>3
    <3>2. QED
      BY <3>1
  <2>4. QED
    BY <2>2, <2>3
<1> HIDE DEF at
<1>7. \A j \in 1..(size - 1) : d[j] \in Nodes /\ d[j] # c[i]
  BY <1>3, <1>4
<1>8. \A j, k \in 1..(size - 1) : d[j] = d[k] => j = k
  BY <1>3, <1>4, <1>5
<1>9. Range(d) = Range(c) \ {c[i]}
  <2>1. Range(d) = {d[j] : j \in 1..(size - 1)} /\ Range(c) = {c[j] : j \in 1..size}
    BY <1>1 DEF Range
  <2>2. \A k \in 1..size : c[k] # c[i] => c[k] \in Range(d)
    BY <1>4, <1>6, <2>1
  <2>3. QED
    BY <1>4, <1>7, <2>1, <2>2
<1>10. QED
  BY <1>1, <1>2, <1>7, <1>8, <1>9 DEF d, IsInjective

-----------------------------------------------------------------------------
(* The steps that give the mutex back *)

\* What an addition leaves at the place i where its walk ended, and a removal.
Added(t, i) ==
  IF i <= size /\ Order(t, i) = 0
  THEN /\ size' = size
       /\ \A j \in 1..size : list'[j] = IF j = i THEN [key |-> req[t].key, value |-> req[t].value]
                                                ELSE list[j]
  ELSE /\ size' = size + 1
       /\ \A j \in 1..(size + 1) :
            list'[j] = IF j < i THEN list[j]
                       ELSE IF j = i THEN [key |-> req[t].key, value |-> req[t].value]
                       ELSE list[j - 1]

Removed(i) ==
  /\ size' = size - 1
  /\ \A j \in 1..(size - 1) : list'[j] = IF j < i THEN list[j] ELSE list[j + 1]

\* The steps end list_add or list_remove: list_add at the first entry that
\* compares 0 or 1, and list_remove at the first with the key.
Ended(t) ==
  \/ /\ req[t].op = "put"
     /\ \E i \in 1..(size + 1) :
          /\ \A j \in 1..(i - 1) : Order(t, j) \notin {0, 1}
          /\ i <= size => Order(t, i) \in {0, 1}
          /\ Added(t, i)
     /\ reply' = <<"put", req[t].key, req[t].value, 0>>
  \/ /\ req[t].op = "del"
     /\ \E i \in 1..size :
          /\ list[i].key = req[t].key
          /\ \A j \in 1..(i - 1) : list[j].key # req[t].key
          /\ Removed(i)
     /\ reply' = <<"remove", req[t].key, 0>>
  \/ /\ req[t].op = "del"
     /\ \A i \in 1..size : list[i].key # req[t].key
     /\ list' = list /\ size' = size
     /\ reply' = <<"remove", req[t].key, 1>>

LEMMA PutReply == \A a, b, c, r : Append(<<a, b, c>>, r) = <<a, b, c, r>>
<1> SUFFICES ASSUME NEW a, NEW b, NEW c, NEW r PROVE Append(<<a, b, c>>, r) = <<a, b, c, r>>
  OBVIOUS
<1> DEFINE S == {a, b, c, r}
           s == <<a, b, c>>
           q == <<a, b, c, r>>
<1>1. s \in Seq(S) /\ Len(s) = 3 /\ q \in Seq(S) /\ Len(q) = 4 /\ r \in S
  OBVIOUS
<1>2. s[1] = a /\ s[2] = b /\ s[3] = c /\ q[1] = a /\ q[2] = b /\ q[3] = c /\ q[4] = r
  OBVIOUS
<1> HIDE DEF S, s, q
<1> DEFINE p == Append(s, r)
<1>3. s \in Seq(S) /\ r \in S
  BY <1>1
<1>4. /\ Append(s, r) \in Seq(S) /\ Len(Append(s, r)) = Len(s) + 1
      /\ \A i \in 1..Len(s) : Append(s, r)[i] = s[i]
      /\ Append(s, r)[Len(s) + 1] = r
  BY ONLY <1>3, AppendProperties
<1> HIDE DEF p
<1>5. Len(p) = 4 /\ \A i \in 1..4 : p[i] = q[i]
  BY <1>1, <1>2, <1>4 DEF p
<1>6. p = q
  BY <1>1, <1>4, <1>5, SeqEqual DEF p
<1>7. QED
  BY <1>6 DEF p, s, q

LEMMA RemoveReply == \A a, b, r : Append(<<a, b>>, r) = <<a, b, r>>
<1> SUFFICES ASSUME NEW a, NEW b, NEW r PROVE Append(<<a, b>>, r) = <<a, b, r>>
  OBVIOUS
<1> DEFINE S == {a, b, r}
           s == <<a, b>>
           q == <<a, b, r>>
<1>1. s \in Seq(S) /\ Len(s) = 2 /\ q \in Seq(S) /\ Len(q) = 3 /\ r \in S
  OBVIOUS
<1>2. s[1] = a /\ s[2] = b /\ q[1] = a /\ q[2] = b /\ q[3] = r
  OBVIOUS
<1> HIDE DEF S, s, q
<1> DEFINE p == Append(s, r)
<1>3. s \in Seq(S) /\ r \in S
  BY <1>1
<1>4. /\ Append(s, r) \in Seq(S) /\ Len(Append(s, r)) = Len(s) + 1
      /\ \A i \in 1..Len(s) : Append(s, r)[i] = s[i]
      /\ Append(s, r)[Len(s) + 1] = r
  BY ONLY <1>3, AppendProperties
<1> HIDE DEF p
<1>5. Len(p) = 3 /\ \A i \in 1..3 : p[i] = q[i]
  BY <1>1, <1>2, <1>4 DEF p
<1>6. p = q
  BY <1>1, <1>4, <1>5, SeqEqual DEF p
<1>7. QED
  BY <1>6 DEF p, s, q

LEMMA AddGrowStep ==
  ASSUME Inv, NEW t \in Threads, AddGrow(t)
  PROVE  Inv' /\ Ended(t) /\ mutex' = Null
<1>1. /\ pc[t] = "grow" /\ pc' = [pc EXCEPT ![t] = "answer"] /\ mutex' = Null
      /\ size' = size + 1
      /\ UNCHANGED <<head, next, prev, entry, live, req, cur, new>>
      /\ reply' = Append(<<"put", req[t].key, req[t].value>>, 0)
      /\ list' = EntriesFrom(head', next', entry')
  BY DEF AddGrow, PutReturns, Unlock, Answers
<1>2. pc[t] \in Writing
  BY <1>1 DEF Writing
<1>3. PICK c \in [1..size -> Nodes], i \in 1..(size + 1) : IsInjective(c) /\ At(t, c, i)
  BY <1>2, Holder
<1>4. AddingAt(t, c, i)
  BY <1>1, <1>3 DEF At, Removing
<1>5. TypeOK /\ list \in [1..size -> Entries] /\ Asked(t)
  BY DEF Inv, Shared
<1>6. /\ new[t] \in Nodes \ Range(c) /\ live = Range(c) \cup {new[t]}
      /\ entry[new[t]] = [key |-> req[t].key, value |-> req[t].value]
      /\ \A j \in 1..(i - 1) : Order(t, j) \notin {0, 1}
      /\ \A j \in 1..size : entry[c[j]] = list[j]
      /\ Strung(size + 1, With(c, i, new[t]))
      /\ i <= size => Order(t, i) = 1
  BY <1>1, <1>4 DEF AddingAt
<1>7. req[t].op = "put" /\ req[t].key \in Keys /\ req[t].value \in Values
  BY <1>1, <1>5 DEF Asked, Serves, Adding
<1>d. PICK d : d = With(c, i, new[t])
  OBVIOUS
<1>8. size \in Nat
  BY <1>5 DEF TypeOK
<1>9. /\ d \in [1..(size + 1) -> Nodes] /\ IsInjective(d) /\ Range(d) = live
      /\ \A j \in 1..(size + 1) :
           d[j] = IF j < i THEN c[j] ELSE IF j = i THEN new[t] ELSE c[j - 1]
  <2>1. \A j \in 1..(size + 1) :
           d[j] = IF j < i THEN c[j] ELSE IF j = i THEN new[t] ELSE c[j - 1]
    BY <1>d DEF With
  <2>2. QED
    BY <1>3, <1>6, <1>8, <1>d, <2>1, WithNode
<1>10. \A j \in 1..(size + 1) :
         entry[d[j]] = IF j < i THEN list[j]
                       ELSE IF j = i THEN [key |-> req[t].key, value |-> req[t].value]
                       ELSE list[j - 1]
  <2>1. \A j \in 1..(size + 1) : /\ j < i => j \in 1..size
                                 /\ j # i /\ ~(j < i) => j - 1 \in 1..size
    BY <1>8
  <2>2. QED
    BY <1>6, <1>9, <2>1
<1>11. \A j \in 1..(size + 1) : entry[d[j]] \in Entries
  <2>1. [key |-> req[t].key, value |-> req[t].value] \in Entries
    BY <1>7 DEF Entries
  <2>2. \A j \in 1..(size + 1) : /\ j < i => j \in 1..size
                                 /\ j # i /\ ~(j < i) => j - 1 \in 1..size
    BY <1>8
  <2>3. QED
    BY <1>5, <1>10, <2>1, <2>2
<1>12. Strung(size, d)'
  <2>1. Strung(size + 1, d)
    BY <1>6, <1>d
  <2>2. QED
    BY <1>1, <2>1 DEF Strung
<1>13. pc'[t] = "answer" /\ \A u \in Threads : u # t => pc'[u] = pc[u]
  BY <1>1, <1>5 DEF TypeOK
<1>14. /\ pc'[t] \notin Writing /\ Serves(req[t].op, pc'[t])
       /\ pc' \in [Threads -> Reading \cup Writing \cup {"idle", "put", "del", "answer", "undefined"}]
  BY <1>1, <1>5, <1>13
     DEF TypeOK, Writing, Serves, Adding, Removing, Getting, Counting
<1>15. /\ next' \in [Nodes -> Pointers] /\ prev' \in [Nodes -> Pointers]
       /\ entry' \in [Nodes -> Entries \cup {Freed}] /\ cur' \in [Threads -> Pointers]
       /\ size' \in Nat /\ d \in [1..size' -> Nodes] /\ live' = Range(d)
       /\ \A j \in 1..size' : entry'[d[j]] \in Entries
  BY <1>1, <1>5, <1>9, <1>11 DEF TypeOK
<1>16. Inv' /\ list' = [j \in 1..size' |-> entry'[d[j]]]
  BY <1>1, <1>2, <1>9, <1>12, <1>13, <1>14, <1>15, Released
<1>17. Added(t, i)
  <2>1. \A j \in 1..(size + 1) : list'[j] = entry[d[j]]
    BY <1>1, <1>16
  <2>2. QED
    BY <1>1, <1>6, <1>10, <2>1 DEF Added
<1>18. reply' = <<"put", req[t].key, req[t].value, 0>>
  BY <1>1, PutReply
<1>19. QED
  BY <1>1, <1>6, <1>7, <1>16, <1>17, <1>18 DEF Ended

LEMMA ReplaceReuseStep ==
  ASSUME Inv, NEW t \in Threads, ReplaceReuse(t)
  PROVE  Inv' /\ Ended(t) /\ mutex' = Null
<1>1. /\ pc[t] = "reuse" /\ pc' = [pc EXCEPT ![t] = "answer"] /\ mutex' = Null
      /\ entry' = [entry EXCEPT ![cur[t]] = entry[new[t]], ![new[t]] = Freed]
      /\ live' = live \ {new[t]}
      /\ UNCHANGED <<head, size, next, prev, req, cur, new>>
      /\ reply' = Append(<<"put", req[t].key, req[t].value>>, 0)
      /\ list' = EntriesFrom(head', next', entry')
  BY DEF ReplaceReuse, PutReturns, Unlock, Answers
<1>2. pc[t] \in Writing
  BY <1>1 DEF Writing
<1>3. PICK c \in [1..size -> Nodes], i \in 1..(size + 1) : IsInjective(c) /\ At(t, c, i)
  BY <1>2, Holder
<1>4. AddingAt(t, c, i)
  BY <1>1, <1>3 DEF At, Removing
<1>5. TypeOK /\ list \in [1..size -> Entries] /\ Asked(t)
  BY DEF Inv, Shared
<1>6. /\ new[t] \in Nodes \ Range(c) /\ live = Range(c) \cup {new[t]}
      /\ entry[new[t]] = [key |-> req[t].key, value |-> req[t].value]
      /\ \A j \in 1..(i - 1) : Order(t, j) \notin {0, 1}
      /\ \A j \in 1..size : j # i => entry[c[j]] = list[j]
      /\ i <= size /\ cur[t] = c[i]
      /\ Strung(size, c)
      /\ Order(t, i) = 0
  BY <1>1, <1>4 DEF AddingAt
<1>7. req[t].op = "put" /\ req[t].key \in Keys /\ req[t].value \in Values
  BY <1>1, <1>5 DEF Asked, Serves, Adding
<1>8. size \in Nat /\ i \in 1..size
  BY <1>5, <1>6 DEF TypeOK
<1>9. /\ \A j \in 1..size : c[j] \in Nodes /\ c[j] # new[t]
      /\ \A j, k \in 1..size : c[j] = c[k] => j = k
  BY <1>3, <1>6 DEF Range, IsInjective
<1>10. [key |-> req[t].key, value |-> req[t].value] \in Entries
  BY <1>7 DEF Entries
<1>11. \A j \in 1..size :
         entry'[c[j]] = IF j = i THEN [key |-> req[t].key, value |-> req[t].value] ELSE list[j]
  BY <1>1, <1>5, <1>6, <1>8, <1>9 DEF TypeOK
<1>12. Strung(size, c)'
  BY <1>1, <1>6 DEF Strung
<1>13. pc'[t] = "answer" /\ \A u \in Threads : u # t => pc'[u] = pc[u]
  BY <1>1, <1>5 DEF TypeOK
<1>14. /\ pc'[t] \notin Writing /\ Serves(req[t].op, pc'[t])
       /\ pc' \in [Threads -> Reading \cup Writing \cup {"idle", "put", "del", "answer", "undefined"}]
  BY <1>1, <1>5, <1>13
     DEF TypeOK, Writing, Serves, Adding, Removing, Getting, Counting
<1>15. /\ next' \in [Nodes -> Pointers] /\ prev' \in [Nodes -> Pointers]
       /\ entry' \in [Nodes -> Entries \cup {Freed}] /\ cur' \in [Threads -> Pointers]
       /\ size' \in Nat /\ c \in [1..size' -> Nodes] /\ live' = Range(c)
       /\ \A j \in 1..size' : entry'[c[j]] \in Entries
  <2>1. live' = Range(c)
    BY <1>1, <1>6
  <2>2. entry' \in [Nodes -> Entries \cup {Freed}]
    BY <1>1, <1>5, <1>6, <1>10 DEF TypeOK
  <2>3. \A j \in 1..size : entry'[c[j]] \in Entries
    BY <1>5, <1>10, <1>11
  <2>4. QED
    BY <1>1, <1>5, <2>1, <2>2, <2>3 DEF TypeOK
<1>16. Inv' /\ list' = [j \in 1..size' |-> entry'[c[j]]]
  BY <1>1, <1>2, <1>3, <1>12, <1>13, <1>14, <1>15, Released
<1>17. Added(t, i)
  BY <1>1, <1>6, <1>11, <1>16 DEF Added
<1>18. reply' = <<"put", req[t].key, req[t].value, 0>>
  BY <1>1, PutReply
<1>19. QED
  BY <1>1, <1>6, <1>7, <1>16, <1>17, <1>18 DEF Ended

LEMMA RemoveNothingStep ==
  ASSUME Inv, NEW t \in Threads, RemoveCompare(t), cur[t] = Null
  PROVE  Inv' /\ Ended(t) /\ mutex' = Null
<1>1. /\ pc[t] = "rm" /\ pc' = [pc EXCEPT ![t] = "answer"] /\ mutex' = Null
      /\ UNCHANGED <<heap, req, cur, new>>
      /\ reply' = Append(<<"remove", req[t].key>>, 1)
      /\ list' = EntriesFrom(head', next', entry')
  BY DEF RemoveCompare, RemoveReturns, Unlock, Answers
<1>2. pc[t] \in Writing
  BY <1>1 DEF Writing
<1>3. PICK c \in [1..size -> Nodes], i \in 1..(size + 1) : IsInjective(c) /\ At(t, c, i)
  BY <1>2, Holder
<1>4. RemovingAt(t, c, i)
  BY <1>1, <1>3 DEF At, Adding
<1>5. TypeOK /\ list \in [1..size -> Entries] /\ Asked(t)
  BY DEF Inv, Shared
<1>6. size \in Nat /\ \A j \in 1..size : c[j] \in Nodes /\ c[j] # Null
  BY <1>5, NodesAssumption DEF TypeOK
<1>7. /\ live = Range(c)
      /\ \A j \in 1..(i - 1) : list[j].key # req[t].key
      /\ \A j \in 1..size : entry[c[j]] = list[j]
      /\ i = size + 1
      /\ Strung(size, c)
  <2>1. Null = IF i <= size THEN c[i] ELSE Null
    BY <1>1, <1>4 DEF RemovingAt
  <2>2. i = size + 1
    BY <1>6, <2>1
  <2>3. QED
    BY <1>1, <1>4, <2>2 DEF RemovingAt
<1>8. req[t].op = "del"
  BY <1>1, <1>5 DEF Asked, Serves, Removing
<1>9. Strung(size, c)'
  BY <1>1, <1>7 DEF Strung, heap
<1>10. pc'[t] = "answer" /\ \A u \in Threads : u # t => pc'[u] = pc[u]
  BY <1>1, <1>5 DEF TypeOK
<1>11. /\ pc'[t] \notin Writing /\ Serves(req[t].op, pc'[t])
       /\ pc' \in [Threads -> Reading \cup Writing \cup {"idle", "put", "del", "answer", "undefined"}]
  BY <1>1, <1>5, <1>10
     DEF TypeOK, Writing, Serves, Adding, Removing, Getting, Counting
<1>12. /\ next' \in [Nodes -> Pointers] /\ prev' \in [Nodes -> Pointers]
       /\ entry' \in [Nodes -> Entries \cup {Freed}] /\ cur' \in [Threads -> Pointers]
       /\ size' \in Nat /\ c \in [1..size' -> Nodes] /\ live' = Range(c)
       /\ \A j \in 1..size' : entry'[c[j]] \in Entries
  BY <1>1, <1>5, <1>7 DEF TypeOK, heap
<1>13. Inv' /\ list' = [j \in 1..size' |-> entry'[c[j]]]
  BY <1>1, <1>2, <1>3, <1>9, <1>10, <1>11, <1>12, Released
<1>14. list' = list /\ size' = size
  <2>1. list = [j \in 1..size |-> list[j]]
    BY <1>5
  <2>2. list' = [j \in 1..size |-> entry[c[j]]]
    BY <1>1, <1>13 DEF heap
  <2>3. QED
    BY <1>1, <1>7, <2>1, <2>2 DEF heap
<1>15. \A j \in 1..size : list[j].key # req[t].key
  BY <1>6, <1>7
<1>16. reply' = <<"remove", req[t].key, 1>>
  BY <1>1, RemoveReply
<1>17. QED
  BY <1>1, <1>8, <1>13, <1>14, <1>15, <1>16 DEF Ended

LEMMA RemoveFreeStep ==
  ASSUME Inv, NEW t \in Threads, RemoveFree(t)
  PROVE  Inv' /\ Ended(t) /\ mutex' = Null
<1>1. /\ pc[t] = "free" /\ pc' = [pc EXCEPT ![t] = "answer"] /\ mutex' = Null
      /\ live' = live \ {cur[t]}
      /\ next' = [Forget(next, cur[t]) EXCEPT ![cur[t]] = Null]
      /\ prev' = [Forget(prev, cur[t]) EXCEPT ![cur[t]] = Null]
      /\ cur' = Forget(cur, cur[t])
      /\ size' = size - 1
      /\ UNCHANGED <<head, entry, req, new>>
      /\ reply' = Append(<<"remove", req[t].key>>, 0)
      /\ list' = EntriesFrom(head', next', entry')
  BY DEF RemoveFree, RemoveReturns, Unlock, Answers
<1>2. pc[t] \in Writing
  BY <1>1 DEF Writing
<1>3. PICK c \in [1..size -> Nodes], i \in 1..(size + 1) : IsInjective(c) /\ At(t, c, i)
  BY <1>2, Holder
<1>4. RemovingAt(t, c, i)
  BY <1>1, <1>3 DEF At, Adding
<1>5. TypeOK /\ list \in [1..size -> Entries] /\ Asked(t)
  BY DEF Inv, Shared
<1>6. /\ live = Range(c)
      /\ \A j \in 1..(i - 1) : list[j].key # req[t].key
      /\ \A j \in 1..size : j # i => entry[c[j]] = list[j]
      /\ i <= size /\ cur[t] = c[i] /\ list[i].key = req[t].key
      /\ Strung(size - 1, Without(c, i))
  BY <1>1, <1>4 DEF RemovingAt
<1>7. size \in Nat /\ i \in 1..size /\ size - 1 \in Nat /\ Null \notin Nodes /\ c[i] \in Nodes
  BY <1>5, <1>6, NodesAssumption DEF TypeOK
<1>8. req[t].op = "del"
  BY <1>1, <1>5 DEF Asked, Serves, Removing
<1>d. PICK d : d = Without(c, i)
  OBVIOUS
<1>9. /\ d \in [1..(size - 1) -> Nodes] /\ IsInjective(d) /\ Range(d) = live \ {c[i]}
      /\ \A j \in 1..(size - 1) : d[j] = IF j < i THEN c[j] ELSE c[j + 1]
  <2>1. \A j \in 1..(size - 1) : d[j] = IF j < i THEN c[j] ELSE c[j + 1]
    BY <1>d DEF Without
  <2>2. QED
    BY <1>3, <1>6, <1>7, <1>d, <2>1, WithoutNode
<1>10. \A j \in 1..(size - 1) : d[j] \in Nodes /\ d[j] # c[i]
  BY <1>9 DEF Range
<1>11. \A j \in 1..(size - 1) : entry[d[j]] = IF j < i THEN list[j] ELSE list[j + 1]
  <2>1. \A j \in 1..(size - 1) : /\ j < i => j \in 1..size /\ j # i
                                 /\ ~(j < i) => j + 1 \in 1..size /\ j + 1 # i
    BY <1>7
  <2>2. QED
    BY <1>6, <1>9, <2>1
<1>12. \A j \in 1..(size - 1) : entry[d[j]] \in Entries
  <2>1. \A j \in 1..(size - 1) : (j < i => j \in 1..size) /\ (~(j < i) => j + 1 \in 1..size)
    BY <1>7
  <2>2. QED
    BY <1>5, <1>11, <2>1
<1>13. \A x \in Nodes \ {c[i]} : /\ next[x] # c[i] => next'[x] = next[x]
                                 /\ prev[x] # c[i] => prev'[x] = prev[x]
  BY <1>1, <1>5, <1>6, <1>7 DEF TypeOK, Forget
<1>14. Strung(size, d)'
  <2>1. /\ head = IF size - 1 = 0 THEN Null ELSE d[1]
        /\ \A j \in 1..(size - 1) : next[d[j]] = IF j = size - 1 THEN Null ELSE d[j + 1]
        /\ \A j \in 2..(size - 1) : prev[d[j]] = d[j - 1]
    BY <1>6, <1>d DEF Strung
  <2>2. /\ \A j \in 1..(size - 1) : j # size - 1 => j + 1 \in 1..(size - 1)
        /\ \A j \in 2..(size - 1) : j - 1 \in 1..(size - 1) /\ j \in 1..(size - 1)
    BY <1>7
  <2>3. \A j \in 1..(size - 1) : next'[d[j]] = next[d[j]]
    BY <1>7, <1>10, <1>13, <2>1, <2>2
  <2>4. \A j \in 2..(size - 1) : prev'[d[j]] = prev[d[j]]
    BY <1>10, <1>13, <2>1, <2>2
  <2>5. QED
    BY <1>1, <2>1, <2>3, <2>4 DEF Strung
<1>15. pc'[t] = "answer" /\ \A u \in Threads : u # t => pc'[u] = pc[u]
  BY <1>1, <1>5 DEF TypeOK
<1>16. /\ pc'[t] \notin Writing /\ Serves(req[t].op, pc'[t])
       /\ pc' \in [Threads -> Reading \cup Writing \cup {"idle", "put", "del", "answer", "undefined"}]
  BY <1>1, <1>5, <1>15
     DEF TypeOK, Writing, Serves, Adding, Removing, Getting, Counting
<1>17. /\ next' \in [Nodes -> Pointers] /\ prev' \in [Nodes -> Pointers]
       /\ entry' \in [Nodes -> Entries \cup {Freed}] /\ cur' \in [Threads -> Pointers]
       /\ size' \in Nat /\ d \in [1..size' -> Nodes] /\ live' = Range(d)
       /\ \A j \in 1..size' : entry'[d[j]] \in Entries
  <2>1. /\ next' \in [Nodes -> Pointers] /\ prev' \in [Nodes -> Pointers]
        /\ cur' \in [Threads -> Pointers]
    BY <1>1, <1>5, <1>7 DEF TypeOK, Forget, Pointers
  <2>2. QED
    BY <1>1, <1>5, <1>6, <1>7, <1>9, <1>12, <2>1 DEF TypeOK
<1>18. Inv' /\ list' = [j \in 1..size' |-> entry'[d[j]]]
  BY <1>1, <1>2, <1>9, <1>14, <1>15, <1>16, <1>17, Released
<1>19. Removed(i)
  <2>1. \A j \in 1..(size - 1) : list'[j] = entry[d[j]]
    BY <1>1, <1>18
  <2>2. QED
    BY <1>1, <1>11, <2>1 DEF Removed
<1>20. reply' = <<"remove", req[t].key, 0>>
  BY <1>1, RemoveReply
<1>21. QED
  BY <1>1, <1>6, <1>7, <1>8, <1>18, <1>19, <1>20 DEF Ended

-----------------------------------------------------------------------------
(* Every step *)

\* The steps that end list_add or list_remove, and all the others.
Ends(t) == \/ AddGrow(t) \/ ReplaceReuse(t)
           \/ (RemoveCompare(t) /\ cur[t] = Null)
           \/ RemoveFree(t)

Goes(t) == \/ Request(t) \/ Answer(t) \/ Read(t)
           \/ LockAdd(t) \/ AddCompare(t) \/ AddFirst(t) \/ Push(t) \/ PushLink(t)
           \/ Insert(t) \/ InsertLink(t) \/ AddLast(t) \/ Replace(t)
           \/ LockRemove(t) \/ (RemoveCompare(t) /\ cur[t] # Null)
           \/ Unlink(t) \/ RemoveDestroy(t)

LEMMA NextSplits == Next => \E t \in Threads : Ends(t) \/ Goes(t)
<1> SUFFICES ASSUME NEW t \in Threads, Request(t) \/ Answer(t) \/ Write(t) \/ Read(t)
             PROVE  Ends(t) \/ Goes(t)
  BY DEF Next
<1>1. CASE Write(t)
  <2>1. CASE RemoveCompare(t)
    BY <2>1 DEF Ends, Goes
  <2>2. CASE AddGrow(t) \/ ReplaceReuse(t) \/ RemoveFree(t)
    BY <2>2 DEF Ends
  <2>3. CASE \/ LockAdd(t) \/ AddCompare(t) \/ AddFirst(t) \/ Push(t) \/ PushLink(t)
             \/ Insert(t) \/ InsertLink(t) \/ AddLast(t) \/ Replace(t)
             \/ LockRemove(t) \/ Unlink(t) \/ RemoveDestroy(t)
    BY <2>3 DEF Goes
  <2>4. QED
    BY <1>1, <2>1, <2>2, <2>3 DEF Write
<1>2. QED
  BY <1>1 DEF Goes

LEMMA EndsStep ==
  ASSUME Inv, NEW t \in Threads, Ends(t)
  PROVE  Inv' /\ Ended(t) /\ mutex' = Null
  BY AddGrowStep, ReplaceReuseStep, RemoveNothingStep, RemoveFreeStep DEF Ends

LEMMA GoesStep ==
  ASSUME Inv, NEW t \in Threads, Goes(t)
  PROVE  Inv' /\ UNCHANGED list /\ (mutex' = mutex \/ mutex' = t)
<1>1. CASE Request(t) \/ Answer(t)
  <2>1. Inv'
    BY <1>1, CallStep
  <2>2. QED
    BY <1>1, <2>1 DEF Request, Answer
<1>2. CASE Read(t)
  <2>1. Inv'
    BY <1>2, ReadStep
  <2>2. QED
    BY <1>2, <2>1, ReadFrame
<1>3. CASE LockAdd(t) \/ LockRemove(t)
  <2>1. Inv'
    BY <1>3, LockStep
  <2>2. QED
    BY <1>3, <2>1 DEF LockAdd, LockRemove, Lock
<1>4. CASE AddCompare(t) \/ AddFirst(t) \/ Push(t) \/ PushLink(t) \/ Insert(t) \/ InsertLink(t)
             \/ AddLast(t) \/ Replace(t)
  <2>1. Inv'
    BY <1>4, AddStep
  <2>2. UNCHANGED <<list, mutex>>
    BY <1>4 DEF AddCompare, AddFirst, Push, PushLink, Insert, InsertLink, AddLast, Replace,
                Undefined, past
  <2>3. QED
    BY <2>1, <2>2
<1>5. CASE (RemoveCompare(t) /\ cur[t] # Null) \/ Unlink(t) \/ RemoveDestroy(t)
  <2>1. Inv'
    BY <1>5, RemoveStep
  <2>2. UNCHANGED <<list, mutex>>
    BY <1>5 DEF RemoveCompare, Unlink, RemoveDestroy, Undefined, past
  <2>3. QED
    BY <2>1, <2>2
<1>6. QED
  BY <1>1, <1>2, <1>3, <1>4, <1>5 DEF Goes

LEMMA StepInv == Inv /\ [Next]_vars => Inv'
<1> SUFFICES ASSUME Inv, [Next]_vars PROVE Inv'
  OBVIOUS
<1>1. CASE Next
  BY <1>1, NextSplits, EndsStep, GoesStep
<1>2. CASE UNCHANGED vars
  <2>1. UNCHANGED <<head, size, next, prev, entry, live, mutex, pc, req, cur, new, list>>
    BY <1>2 DEF vars, heap, local, past
  <2>2. Shared'
    BY <2>1 DEF Inv, Shared, TypeOK, Held, Asked
  <2>3. PICK c \in [1..size -> Nodes] : Shape(c)
    BY DEF Inv
  <2>4. Settled(c)' <=> Settled(c)
    BY <2>1 DEF Settled, Strung
  <2>5. \A t \in Threads, i \in 1..(size + 1) : At(t, c, i)' <=> At(t, c, i)
    BY <2>1 DEF At, AddingAt, RemovingAt, Strung, With, Without, Order
  <2>6. Shape(c)'
    BY <2>1, <2>3, <2>4, <2>5 DEF Shape
  <2>7. QED
    BY <2>1, <2>2, <2>6 DEF Inv
<1>3. QED
  BY <1>1, <1>2

LEMMA InvAlways == Spec => []Inv
<1>1. Init => Inv
  BY InitInv
<1>2. Inv /\ [Next]_vars => Inv'
  BY StepInv
<1>3. QED
  BY <1>1, <1>2, PTL DEF Spec

\* The state of the heap, the mutex and the threads is of its type: every
\* pointer is a node, NULL or a pointer to freed memory (list.c).
THEOREM TypeCorrect == Spec => []TypeOK
<1>1. Inv => TypeOK
  BY DEF Inv, Shared
<1>2. QED
  BY <1>1, InvAlways, PTL

\* Who holds table_mutex follows no prev that is NULL or was freed, and reads
\* no entry that was destroyed (list_add, list_remove).
THEOREM WriterDefinedAlways == Spec => []WriterDefined
<1>1. Inv => WriterDefined
  BY DEF Inv, Shared, Held, WriterDefined
<1>2. QED
  BY <1>1, InvAlways, PTL

LEMMA WellLinkedInv == Inv => WellLinked
<1> SUFFICES ASSUME Inv, mutex = Null
             PROVE  LET c == Chained(head, next) IN
                    /\ IsInjective(c)
                    /\ Range(c) = live
                    /\ \A n \in live : entry[n] \in Entries
                    /\ \A i \in 2..Len(c) : prev[c[i]] = c[i-1]
                    /\ size = Len(c)
                    /\ list = EntriesFrom(head, next, entry)
  BY DEF WellLinked
<1>1. PICK c \in [1..size -> Nodes] : IsInjective(c) /\ Settled(c)
  BY DEF Inv, Shape
<1>2. size \in Nat /\ list \in [1..size -> Entries]
  BY DEF Inv, Shared, TypeOK
<1>3. Chained(head, next) = c
  <2>1. head = IF size = 0 THEN Null ELSE c[1]
    BY <1>1 DEF Settled, Strung
  <2>2. \A j \in 1..size : next[c[j]] = IF j = size THEN Null ELSE c[j + 1]
    BY <1>1 DEF Settled, Strung
  <2>3. PICK m, h, nx : m \in Nat /\ m = size /\ h = head /\ nx = next
    BY <1>2
  <2>4. /\ c \in [1..m -> Nodes] /\ h = IF m = 0 THEN Null ELSE c[1]
        /\ \A j \in 1..m : nx[c[j]] = IF j = m THEN Null ELSE c[j + 1]
    BY ONLY <1>1, <2>1, <2>2, <2>3
  <2>5. Chained(h, nx) = c
    BY <1>1, <2>3, <2>4, ChainIsWalked
  <2>6. QED
    BY ONLY <2>3, <2>5
<1>4. Len(c) = size
  BY <1>2
<1>5. list = EntriesFrom(head, next, entry)
  <2>1. \A j \in 1..size : entry[c[j]] = list[j]
    BY <1>1 DEF Settled
  <2>2. EntriesFrom(head, next, entry) = [j \in 1..size |-> entry[c[j]]]
    BY <1>3, <1>4 DEF EntriesFrom
  <2>3. list = [j \in 1..size |-> list[j]]
    BY <1>2
  <2>4. QED
    BY ONLY <2>1, <2>2, <2>3
<1>6. \A n \in live : entry[n] \in Entries
  BY <1>1, <1>2 DEF Settled, Range
<1>7. /\ Range(c) = live
      /\ \A i \in 2..Len(c) : prev[c[i]] = c[i-1]
  BY <1>1, <1>4 DEF Settled, Strung
<1>8. QED
  BY <1>1, <1>3, <1>4, <1>5, <1>6, <1>7

\* A writer leaves nodes in a chain without a cycle, each with its entry and the
\* prev that list_add and list_remove follow later; none is lost, and size
\* counts them.
THEOREM WellLinkedAlways == Spec => []WellLinked
  BY WellLinkedInv, InvAlways, PTL

-----------------------------------------------------------------------------
(* The calls of writers are those of HashTable *)

LEMMA InsertShape ==
  ASSUME NEW l \in Seq(Entries), NEW n \in Nat, Len(l) = n,
         NEW e \in Entries, NEW i \in 1..(n + 1), NEW r \in Seq(Entries), Len(r) = n + 1,
         \A j \in 1..(n + 1) : r[j] = IF j < i THEN l[j] ELSE IF j = i THEN e ELSE l[j - 1]
  PROVE  r = H!InsertAt(l, i, e)
<1> DEFINE q == SubSeq(l, 1, i-1) \o <<e>> \o SubSeq(l, i, n)
<1>1. q = H!InsertAt(l, i, e)
  BY DEF H!InsertAt
<1>2. q \in Seq(Entries) /\ Len(q) = n + 1
  OBVIOUS
<1>3. q[i] = e
  OBVIOUS
<1>4. \A j \in 1..(i-1) : q[j] = l[j]
  OBVIOUS
<1>5. \A j \in (i+1)..(n+1) : q[j] = l[j-1]
  OBVIOUS
<1> HIDE DEF q
<1>6. \A j \in 1..(n + 1) : r[j] = q[j]
  BY <1>3, <1>4, <1>5
<1>7. QED
  BY <1>1, <1>2, <1>6, SeqEqual

LEMMA ReplaceShape ==
  ASSUME NEW l \in Seq(Entries), NEW n \in Nat, Len(l) = n,
         NEW e \in Entries, NEW i \in 1..n, NEW r \in Seq(Entries), Len(r) = n,
         \A j \in 1..n : r[j] = IF j = i THEN e ELSE l[j]
  PROVE  r = H!ReplaceAt(l, i, e)
<1> DEFINE q == SubSeq(l, 1, i-1) \o <<e>> \o SubSeq(l, i+1, n)
<1>1. q = H!ReplaceAt(l, i, e)
  BY DEF H!ReplaceAt
<1>2. q \in Seq(Entries) /\ Len(q) = n
  OBVIOUS
<1>3. q[i] = e
  OBVIOUS
<1>4. \A j \in 1..(i-1) : q[j] = l[j]
  OBVIOUS
<1>5. \A j \in (i+1)..n : q[j] = l[j]
  OBVIOUS
<1> HIDE DEF q
<1>6. \A j \in 1..n : r[j] = q[j]
  BY <1>3, <1>4, <1>5
<1>7. QED
  BY <1>1, <1>2, <1>6, SeqEqual

LEMMA RemoveShape ==
  ASSUME NEW l \in Seq(Entries), NEW n \in Nat, Len(l) = n,
         NEW i \in 1..n, NEW r \in Seq(Entries), Len(r) = n - 1,
         \A j \in 1..(n - 1) : r[j] = IF j < i THEN l[j] ELSE l[j + 1]
  PROVE  r = H!RemoveAt(l, i)
<1> DEFINE p == SubSeq(l, 1, i-1)
           s == SubSeq(l, i+1, n)
<1>1. p \o s = H!RemoveAt(l, i)
  BY DEF H!RemoveAt
<1>2. /\ p \in Seq(Entries) /\ Len(p) = i - 1 /\ \A j \in 1..(i-1) : p[j] = l[j]
      /\ s \in Seq(Entries) /\ Len(s) = n - i
  OBVIOUS
<1>3. \A j \in 1..(n-i) : s[j] = l[i + j]
  <2>1. \A j \in 1..(n-i) : s[j] = l[i + 1 + j - 1] /\ i + 1 + j - 1 = i + j
    OBVIOUS
  <2>2. QED
    BY <2>1
<1> HIDE DEF p, s
<1>4. p \o s \in Seq(Entries) /\ Len(p \o s) = n - 1
  <2>1. Len(p \o s) = Len(p) + Len(s) /\ p \o s \in Seq(Entries)
    BY <1>2, ConcatProperties
  <2>2. QED
    BY <1>2, <2>1
<1>5. ASSUME NEW j \in 1..(n - 1) PROVE r[j] = (p \o s)[j]
  <2>1. CASE j < i
    BY <1>2, <2>1
  <2>2. CASE ~(j < i)
    <3>1. j - (i - 1) \in 1..(n-i) /\ i + (j - (i - 1)) = j + 1
      BY <2>2
    <3>2. (p \o s)[j] = s[j - (i - 1)]
      BY <1>2, <2>2
    <3>3. s[j - (i - 1)] = l[i + (j - (i - 1))]
      BY <1>3, <3>1
    <3>4. QED
      BY <2>2, <3>1, <3>2, <3>3
  <2>3. QED
    BY <2>1, <2>2
<1>6. QED
  BY <1>1, <1>4, <1>5, SeqEqual

\* What C promises of strcmp, as in HashTable.
OrderStrcmp == \A a, b \in Keys :
  /\ Strcmp(a, b) \in Int
  /\ Strcmp(a, b) = 0 <=> a = b
  /\ Strcmp(a, b) < 0 <=> Strcmp(b, a) > 0
  /\ \A c \in Keys : Strcmp(a, b) < 0 /\ Strcmp(b, c) < 0 => Strcmp(a, c) < 0

\* hash_function gives 0 for every key.
LEMMA ZeroHash ==
  ASSUME OrderStrcmp
  PROVE  \A k \in Keys : H!HashFunction(k) = 0
<1> SUFFICES ASSUME NEW k \in Keys PROVE H!HashFunction(k) = 0
  OBVIOUS
<1>1. Keys \subseteq Seq(Int) /\ NLists \in Nat \ {0} /\ Absent \notin Values
  BY NodesAssumption
<1>2. HP!HashFunction(k) = 0
  BY <1>1, HP!HashIsZero DEF OrderStrcmp
<1>3. HP!HashFunction(k) = H!HashFunction(k)
  BY DEF HP!HashFunction, H!HashFunction, HP!FoldSeq, H!FoldSeq, HP!FoldFunction, H!FoldFunction,
         HP!FoldFunctionOnSet, H!FoldFunctionOnSet, HP!MapThenFoldSet, H!MapThenFoldSet
<1>4. QED
  BY <1>2, <1>3

LEMMA CallIs ==
  ASSUME OrderStrcmp, Inv, NEW t \in Threads, Ended(t), Inv',
         req[t].key \in Keys, req[t].op = "put" => req[t].value \in Values
  PROVE  \/ req[t].op = "put" /\ H!TablePut(req[t].key, req[t].value)
         \/ req[t].op = "del" /\ H!TableRemove(req[t].key)
<1> DEFINE k == req[t].key
           v == req[t].value
           e == [key |-> k, value |-> v]
           L == [i \in 0..(NLists - 1) |-> IF i = 0 THEN list ELSE <<>>]
<1>1. /\ size \in Nat /\ list \in [1..size -> Entries]
      /\ size' \in Nat /\ list' \in [1..size' -> Entries]
  BY DEF Inv, Shared, TypeOK
<1>2. list \in Seq(Entries) /\ Len(list) = size /\ list' \in Seq(Entries) /\ Len(list') = size'
  BY <1>1
<1>3. H!List(k) = list /\ H!HashFunction(k) = 0 /\ L[0] = list
  BY ZeroHash, NodesAssumption DEF H!List
<1>4. ASSUME NEW l, l = list' PROVE L' = [L EXCEPT ![H!HashFunction(k)] = l]
  BY <1>3, <1>4
<1>5. \A j \in 1..size : Strcmp(list[j].key, k) = 0 <=> list[j].key = k
  BY <1>1 DEF OrderStrcmp, Entries
<1>6. ASSUME req[t].op = "put", reply' = <<"put", k, v, 0>>,
             NEW i \in 1..(size + 1), \A j \in 1..(i - 1) : Order(t, j) \notin {0, 1},
             i <= size => Order(t, i) \in {0, 1}, Added(t, i)
      PROVE  H!TablePut(k, v)
  <2>1. e \in Entries /\ e.key = k
    BY <1>6 DEF Entries
  <2>2. H!FirstPlace(H!List(k), k, H!Stops, i)
    BY <1>2, <1>3, <1>6 DEF H!FirstPlace, H!Stops, Order
  <2>3. list' = H!ListAdd(list, e, i)
    <3>1. CASE i <= size /\ Order(t, i) = 0
      <4>1. /\ i \in 1..size /\ Len(list') = size
            /\ \A j \in 1..size : list'[j] = IF j = i THEN e ELSE list[j]
        BY <1>1, <1>2, <1>6, <3>1 DEF Added
      <4>2. list' = H!ReplaceAt(list, i, e)
        BY <1>1, <1>2, <2>1, <4>1, ReplaceShape
      <4>3. QED
        BY <1>2, <2>1, <3>1, <4>2 DEF H!ListAdd, Order
    <3>2. CASE ~(i <= size /\ Order(t, i) = 0)
      <4>1. /\ Len(list') = size + 1
            /\ \A j \in 1..(size + 1) :
                 list'[j] = IF j < i THEN list[j] ELSE IF j = i THEN e ELSE list[j - 1]
        BY <1>1, <1>2, <1>6, <3>2 DEF Added
      <4>2. list' = H!InsertAt(list, i, e)
        <5> HIDE DEF e
        <5>1. size \in Nat /\ i \in 1..(size + 1) /\ e \in Entries
          BY <1>1, <2>1
        <5>2. PICK l \in Seq(Entries), r \in Seq(Entries) : l = list /\ r = list'
          BY <1>2
        <5>3. PICK n \in Nat : n = size
          BY <1>1
        <5>4. /\ Len(l) = n /\ Len(r) = n + 1
              /\ \A j \in 1..(n + 1) : r[j] = IF j < i THEN l[j] ELSE IF j = i THEN e ELSE l[j - 1]
          <6>1. n = Len(l)
            BY ONLY <1>2, <5>2, <5>3
          <6>2. QED
            BY ONLY <4>1, <5>2, <5>3, <6>1
        <5>5. r = H!InsertAt(l, i, e)
          BY ONLY <5>1, <5>3, <5>4, InsertShape
        <5>6. QED
          BY ONLY <5>2, <5>5
      <4>3. QED
        BY <1>2, <2>1, <3>2, <4>2 DEF H!ListAdd, Order
    <3>3. QED
      BY <3>1, <3>2
  <2>4. L' = [L EXCEPT ![H!HashFunction(k)] = H!ListAdd(@, e, i)]
    <3>1. L[H!HashFunction(k)] = list
      BY <1>3
    <3> HIDE DEF L
    <3>2. QED
      BY <1>4, <2>3, <3>1
  <2>5. i \in 1..(Len(H!List(k)) + 1)
    BY <1>2, <1>3
  <2>6. QED
    BY <1>6, <2>2, <2>4, <2>5 DEF H!TablePut
<1>7. ASSUME reply' = <<"remove", k, 0>>,
             NEW i \in 1..size, list[i].key = k, \A j \in 1..(i - 1) : list[j].key # k, Removed(i)
      PROVE  H!TableRemove(k)
  <2>1. H!Finds(H!List(k), k, i)
    <3>1. Strcmp(list[i].key, k) = 0 /\ i <= Len(list)
      BY <1>2, <1>5, <1>7
    <3>2. \A j \in 1..(i - 1) : j \in 1..size /\ Strcmp(list[j].key, k) # 0
      BY <1>1, <1>5, <1>7
    <3>3. H!FirstPlace(list, k, {0}, i)
      BY <3>1, <3>2 DEF H!FirstPlace
    <3>4. QED
      BY <1>3, <3>1, <3>3 DEF H!Finds
  <2>2. list' = H!RemoveAt(list, i)
    <3>1. /\ Len(list') = size - 1
          /\ \A j \in 1..(size - 1) : list'[j] = IF j < i THEN list[j] ELSE list[j + 1]
      BY <1>2, <1>7 DEF Removed
    <3>2. QED
      BY <1>1, <1>2, <1>7, <3>1, RemoveShape
  <2>3. L' = [L EXCEPT ![H!HashFunction(k)] = H!RemoveAt(@, i)]
    <3>1. L[H!HashFunction(k)] = list
      BY <1>3
    <3> HIDE DEF L
    <3>2. QED
      BY <1>4, <2>2, <3>1
  <2>4. i \in 1..Len(H!List(k))
    BY <1>2, <1>3, <1>7
  <2>5. QED
    BY <1>7, <2>1, <2>3, <2>4 DEF H!TableRemove
<1>8. ASSUME reply' = <<"remove", k, 1>>, \A i \in 1..size : list[i].key # k, list' = list
      PROVE  H!TableRemove(k)
  <2>1. \A i \in 1..Len(H!List(k)) : ~H!Finds(H!List(k), k, i)
    BY <1>2, <1>3, <1>8, <1>5 DEF H!Finds, H!FirstPlace
  <2>2. L' = L
    BY <1>8
  <2>3. QED
    BY <1>8, <2>1, <2>2 DEF H!TableRemove
<1>9. QED
  BY <1>6, <1>7, <1>8 DEF Ended

\* An action of who holds table_mutex shows in one step, when the mutex is given
\* back, as the call of table.h that the request asks for (HashTable): what is
\* proved there of lists holds of nodes and pointers under any number of threads.
WritersCall == \A t \in Threads : mutex = t /\ mutex' = Null =>
  \/ req[t].op = "put" /\ H!TablePut(req[t].key, req[t].value)
  \/ req[t].op = "del" /\ H!TableRemove(req[t].key)

\* invoke, list_add and list_remove: giving back table_mutex is a table_put or
\* a table_remove of the key that was asked for, and no other step changes what
\* the table has.
THEOREM WritersImplementTable ==
  ASSUME OrderStrcmp
  PROVE  Spec => [][WritersCall /\ (mutex = Null \/ mutex' # Null => UNCHANGED list)]_vars
<1> DEFINE A == WritersCall /\ (mutex = Null \/ mutex' # Null => UNCHANGED list)
<1>1. Inv /\ [Next]_vars => [A]_vars
  <2> SUFFICES ASSUME Inv, Next PROVE A
    OBVIOUS
  <2>1. PICK t \in Threads : Ends(t) \/ Goes(t)
    BY NextSplits
  <2>2. CASE Ends(t)
    <3>1. Inv' /\ Ended(t) /\ mutex' = Null
      BY <2>2, EndsStep
    <3>2. pc[t] \in Writing
      BY <2>2 DEF Ends, AddGrow, ReplaceReuse, RemoveCompare, RemoveFree, Writing
    <3>3. mutex = t /\ Asked(t)
      BY <3>2 DEF Inv, Shared, Held
    <3>4. req[t].op \in {"put", "del"}
      BY <3>1 DEF Ended
    <3>5. req[t].key \in Keys /\ (req[t].op = "put" => req[t].value \in Values)
      BY <3>3, <3>4 DEF Asked
    <3>6. \/ req[t].op = "put" /\ H!TablePut(req[t].key, req[t].value)
          \/ req[t].op = "del" /\ H!TableRemove(req[t].key)
      BY <3>1, <3>5, CallIs
    <3>7. WritersCall
      BY <3>3, <3>6 DEF WritersCall
    <3>8. ~(mutex = Null \/ mutex' # Null)
      BY <3>1, <3>3, ThreadsNotNull
    <3>9. QED
      BY <3>7, <3>8
  <2>3. CASE Goes(t)
    <3>1. UNCHANGED list /\ (mutex' = mutex \/ mutex' = t)
      BY <2>3, GoesStep
    <3>2. WritersCall
      BY <3>1, ThreadsNotNull DEF WritersCall
    <3>3. QED
      BY <3>1, <3>2
  <2>4. QED
    BY <2>1, <2>2, <2>3
<1>2. QED
  BY <1>1, InvAlways, PTL DEF Spec

-----------------------------------------------------------------------------
(* What the table has, when strcmp returns -1, 0 or 1 *)

\* A strcmp that is an order and returns nothing else.
UnitOrder == \A a, b \in Keys :
  /\ Strcmp(a, b) \in -1..1
  /\ Strcmp(a, b) = 0 <=> a = b
  /\ Strcmp(a, b) < 0 <=> Strcmp(b, a) > 0
  /\ \A c \in Keys : Strcmp(a, b) < 0 /\ Strcmp(b, c) < 0 => Strcmp(a, c) < 0

Less(a, b) == Strcmp(a, b) < 0

Sorted == \A i, j \in 1..size : i < j => Less(list[i].key, list[j].key)

LEMMA LessIsOrder ==
  ASSUME UnitOrder
  PROVE  \A a, b \in Keys :
           /\ Strcmp(a, b) \notin {0, 1} => Less(a, b)
           /\ Strcmp(a, b) = 1 => Less(b, a)
           /\ Strcmp(a, b) = 0 => a = b
           /\ Less(a, b) => a # b /\ ~Less(b, a)
           /\ \A c \in Keys : Less(a, b) /\ Less(b, c) => Less(a, c)
  BY DEF UnitOrder, Less

LEMMA SortedStep ==
  ASSUME UnitOrder, Inv, Inv', Sorted, NEW t \in Threads, Ended(t),
         req[t].op = "put" => req[t].key \in Keys
  PROVE  Sorted'
<1> DEFINE k == req[t].key
<1>1. /\ size \in Nat /\ list \in [1..size -> Entries]
      /\ size' \in Nat /\ list' \in [1..size' -> Entries]
  BY DEF Inv, Shared, TypeOK
<1>2. \A j \in 1..size : list[j].key \in Keys
  BY <1>1 DEF Entries
<1>3. \A a, b \in 1..size : a < b => Less(list[a].key, list[b].key)
  BY DEF Sorted
<1>4. ASSUME k \in Keys, NEW i \in 1..(size + 1), \A j \in 1..(i - 1) : Order(t, j) \notin {0, 1},
             i <= size => Order(t, i) \in {0, 1}, Added(t, i)
      PROVE  Sorted'
  <2>1. \A j \in 1..(i - 1) : Less(list[j].key, k)
    <3>1. \A j \in 1..(i - 1) : j \in 1..size
      BY <1>1
    <3>2. QED
      BY <1>2, <1>4, <3>1, LessIsOrder DEF Order
  <2>2. CASE i <= size /\ Order(t, i) = 0
    <3>1. list[i].key = k /\ i \in 1..size
      BY <1>1, <1>2, <1>4, <2>2, LessIsOrder DEF Order
    <3>2. size' = size /\ \A j \in 1..size : list'[j].key = list[j].key
      BY <1>4, <2>2, <3>1 DEF Added
    <3>3. QED
      BY <1>3, <3>2 DEF Sorted
  <2>3. CASE ~(i <= size /\ Order(t, i) = 0)
    <3>1. \A j \in i..size : Less(k, list[j].key)
      <4>1. SUFFICES ASSUME NEW j \in i..size PROVE Less(k, list[j].key)
        OBVIOUS
      <4>2. i \in 1..size /\ j \in 1..size /\ i <= size
        BY <1>1
      <4>3. Less(k, list[i].key)
        BY <1>2, <1>4, <2>3, <4>2, LessIsOrder DEF Order
      <4>4. j = i \/ i < j
        BY <1>1
      <4>5. i < j => Less(list[i].key, list[j].key)
        BY <1>3, <4>2
      <4>6. QED
        BY <1>2, <1>4, <4>2, <4>3, <4>4, <4>5, LessIsOrder
    <3>2. /\ size' = size + 1
          /\ \A j \in 1..(size + 1) :
               list'[j].key = IF j < i THEN list[j].key ELSE IF j = i THEN k ELSE list[j - 1].key
      BY <1>4, <2>3 DEF Added
    <3>3. ASSUME NEW a \in 1..(size + 1), NEW b \in 1..(size + 1), a < b
          PROVE  Less(list'[a].key, list'[b].key)
      <4>1. CASE b < i
        <5>1. a \in 1..size /\ b \in 1..size /\ a < i
          BY <1>1, <3>3, <4>1
        <5>2. QED
          BY <1>3, <3>2, <3>3, <4>1, <5>1
      <4>2. CASE b = i
        <5>1. a \in 1..(i - 1) /\ a < i
          BY <1>1, <3>3, <4>2
        <5>2. list'[b].key = k /\ list'[a].key = list[a].key
          BY <1>1, <3>2, <4>2, <5>1
        <5>3. QED
          BY <2>1, <5>1, <5>2
      <4>3. CASE b > i /\ a = i
        <5>1. b - 1 \in i..size
          BY <1>1, <4>3
        <5>2. list'[a].key = k /\ list'[b].key = list[b - 1].key
          BY <1>1, <3>2, <4>3
        <5>3. QED
          BY <3>1, <5>1, <5>2
      <4>4. CASE b > i /\ a < i
        <5>1. b - 1 \in 1..size /\ a \in 1..size /\ a < b - 1
          BY <1>1, <4>4
        <5>2. list'[a].key = list[a].key /\ list'[b].key = list[b - 1].key
          BY <1>1, <3>2, <4>4
        <5>3. QED
          BY <1>3, <5>1, <5>2
      <4>5. CASE b > i /\ a > i
        <5>1. b - 1 \in 1..size /\ a - 1 \in 1..size /\ a - 1 < b - 1
          BY <1>1, <3>3, <4>5
        <5>2. list'[a].key = list[a - 1].key /\ list'[b].key = list[b - 1].key
          BY <1>1, <3>2, <4>5
        <5>3. QED
          BY <1>3, <5>1, <5>2
      <4>6. QED
        BY <1>1, <4>1, <4>2, <4>3, <4>4, <4>5
    <3>4. QED
      BY <3>2, <3>3 DEF Sorted
  <2>4. QED
    BY <2>2, <2>3
<1>5. ASSUME NEW i \in 1..size, Removed(i) PROVE Sorted'
  <2>1. /\ size' = size - 1
        /\ \A j \in 1..(size - 1) : list'[j] = IF j < i THEN list[j] ELSE list[j + 1]
    BY <1>5 DEF Removed
  <2>2. ASSUME NEW a \in 1..(size - 1), NEW b \in 1..(size - 1), a < b
        PROVE  Less(list'[a].key, list'[b].key)
    <3> DEFINE at(j) == IF j < i THEN j ELSE j + 1
    <3>1. list'[a] = list[at(a)] /\ list'[b] = list[at(b)]
      BY <2>1
    <3>2. at(a) \in 1..size /\ at(b) \in 1..size /\ at(a) < at(b)
      BY <1>1, <2>2
    <3> HIDE DEF at
    <3>3. QED
      BY <1>3, <3>1, <3>2
  <2>3. QED
    BY <2>1, <2>2 DEF Sorted
<1>6. CASE list' = list /\ size' = size
  BY <1>3, <1>6 DEF Sorted
<1>7. QED
  BY <1>4, <1>5, <1>6 DEF Ended

LEMMA ValueFound ==
  ASSUME NEW n \in Nat, NEW l \in [1..n -> Entries],
         \A a, b \in 1..n : l[a].key = l[b].key => a = b,
         NEW i \in 1..n, NEW k, l[i].key = k
  PROVE  Value(l, k) = l[i].value
<1>1. Len(l) = n
  OBVIOUS
<1> DEFINE P(x) == l[x].key = k /\ \A j \in 1..(x-1) : l[j].key # k
<1>2. P(i)
  <2>1. \A j \in 1..(i-1) : j \in 1..n /\ j # i
    OBVIOUS
  <2>2. QED
    BY <2>1
<1>3. \A x \in 1..n : P(x) => x = i
  OBVIOUS
<1> DEFINE x == CHOOSE x \in 1..Len(l) : P(x)
<1>4. x \in 1..n /\ P(x)
  <2> HIDE DEF P
  <2>1. \E y \in 1..Len(l) : P(y)
    BY <1>1, <1>2
  <2>2. QED
    BY <1>1, <2>1
<1>5. x = i
  BY <1>3, <1>4
<1>6. \E y \in 1..Len(l) : l[y].key = k
  BY <1>1
<1>7. Value(l, k) = l[x].value
  BY <1>6 DEF Value
<1> HIDE DEF x
<1>8. QED
  BY <1>5, <1>7

LEMMA ValueMissing ==
  ASSUME NEW n \in Nat, NEW l \in [1..n -> Entries], NEW k, \A a \in 1..n : l[a].key # k
  PROVE  Value(l, k) = Absent
<1>1. Len(l) = n
  OBVIOUS
<1>2. QED
  BY <1>1 DEF Value

LEMMA SortedDistinct ==
  ASSUME UnitOrder, Inv, Sorted
  PROVE  /\ size \in Nat /\ list \in [1..size -> Entries]
         /\ \A a, b \in 1..size : list[a].key = list[b].key => a = b
<1>1. size \in Nat /\ list \in [1..size -> Entries]
  BY DEF Inv, Shared, TypeOK
<1>2. \A a \in 1..size : list[a].key \in Keys
  BY <1>1 DEF Entries
<1>3. \A a, b \in 1..size : a < b => list[a].key # list[b].key
  BY <1>2, LessIsOrder DEF Sorted
<1>4. \A a, b \in 1..size : a = b \/ a < b \/ b < a
  BY <1>1
<1>5. QED
  BY <1>1, <1>3, <1>4

\* What a call of a writer does to what the table has.
LEMMA ValueEnded ==
  ASSUME UnitOrder, Inv, Inv', Sorted, Sorted', NEW t \in Threads, Ended(t),
         req[t].op = "put" => req[t].key \in Keys
  PROVE  /\ Value(list', req[t].key) = IF req[t].op = "put" THEN req[t].value ELSE Absent
         /\ \A k : k # req[t].key => Value(list', k) = Value(list, k)
<1> DEFINE k == req[t].key
           v == req[t].value
           e == [key |-> k, value |-> v]
<1>1. /\ size \in Nat /\ list \in [1..size -> Entries]
      /\ \A a, b \in 1..size : list[a].key = list[b].key => a = b
  BY SortedDistinct
<1>2. /\ size' \in Nat /\ list' \in [1..size' -> Entries]
      /\ \A a, b \in 1..size' : list'[a].key = list'[b].key => a = b
  <2>1. size' \in Nat /\ list' \in [1..size' -> Entries]
    BY DEF Inv, Shared, TypeOK
  <2>2. \A a \in 1..size' : list'[a].key \in Keys
    BY <2>1 DEF Entries
  <2>3. \A a, b \in 1..size' : a < b => list'[a].key # list'[b].key
    BY <2>2, LessIsOrder DEF Sorted
  <2>4. \A a, b \in 1..size' : a = b \/ a < b \/ b < a
    BY <2>1
  <2>5. QED
    BY <2>1, <2>3, <2>4
\* The other entries stay.
<1>3. ASSUME NEW o,
             \A j \in 1..size : list[j].key = o => \E m \in 1..size' : list'[m] = list[j],
             \A m \in 1..size' : list'[m].key = o => \E j \in 1..size : list'[m] = list[j]
      PROVE  Value(list', o) = Value(list, o)
  <2>1. CASE \E j \in 1..size : list[j].key = o
    <3>1. PICK j \in 1..size : list[j].key = o
      BY <2>1
    <3>2. PICK m \in 1..size' : list'[m] = list[j]
      BY <1>3, <3>1
    <3>3. Value(list, o) = list[j].value
      BY <1>1, <3>1, ValueFound
    <3>4. list'[m].key = o
      BY <3>1, <3>2
    <3>5. Value(list', o) = list'[m].value
      BY <1>2, <3>4, ValueFound
    <3>6. QED
      BY <3>2, <3>3, <3>5
  <2>2. CASE ~\E j \in 1..size : list[j].key = o
    <3>1. \A m \in 1..size' : list'[m].key # o
      BY <1>3, <2>2
    <3>2. Value(list', o) = Absent
      BY <1>2, <3>1, ValueMissing
    <3>3. Value(list, o) = Absent
      BY <1>1, <2>2, ValueMissing
    <3>4. QED
      BY <3>2, <3>3
  <2>3. QED
    BY <2>1, <2>2
<1>4. ASSUME k \in Keys, NEW i \in 1..(size + 1), i <= size => Order(t, i) \in {0, 1},
             Added(t, i)
      PROVE  /\ Value(list', k) = v
             /\ \A o : o # k => Value(list', o) = Value(list, o)
  <2>1. CASE i <= size /\ Order(t, i) = 0
    <3>1. /\ size' = size
          /\ \A j \in 1..size : list'[j] = IF j = i THEN e ELSE list[j]
      BY <1>4, <2>1 DEF Added
    <3>2. i \in 1..size /\ list[i].key = k
      <4>1. i \in 1..size
        BY <1>1, <2>1
      <4>2. list[i].key \in Keys
        BY <1>1, <4>1 DEF Entries
      <4>3. QED
        BY <1>4, <2>1, <4>1, <4>2, LessIsOrder DEF Order
    <3>3. Value(list', k) = v
      <4>1. list'[i] = e /\ i \in 1..size'
        BY <3>1, <3>2
      <4>2. list'[i].key = k /\ list'[i].value = v
        BY <4>1
      <4>3. QED
        BY <1>2, <4>1, <4>2, ValueFound
    <3>4. ASSUME NEW o, o # k PROVE Value(list', o) = Value(list, o)
      <4>1. \A j \in 1..size : list[j].key = o => list'[j] = list[j]
        BY <3>1, <3>2, <3>4
      <4>2. \A j \in 1..size : list'[j].key = o => list'[j] = list[j]
        BY <3>1, <3>2, <3>4
      <4>3. QED
        BY <1>3, <3>1, <4>1, <4>2
    <3>5. QED
      BY <3>3, <3>4
  <2>2. CASE ~(i <= size /\ Order(t, i) = 0)
    <3>1. /\ size' = size + 1
          /\ \A j \in 1..(size + 1) :
               list'[j] = IF j < i THEN list[j] ELSE IF j = i THEN e ELSE list[j - 1]
      BY <1>4, <2>2 DEF Added
    <3>2. Value(list', k) = v
      <4>1. list'[i] = e /\ i \in 1..size'
        BY <3>1
      <4>2. list'[i].key = k /\ list'[i].value = v
        BY <4>1
      <4>3. QED
        BY <1>2, <4>1, <4>2, ValueFound
    <3>3. ASSUME NEW o, o # k PROVE Value(list', o) = Value(list, o)
      <4>1. ASSUME NEW j \in 1..size PROVE \E m \in 1..size' : list'[m] = list[j]
        <5>1. CASE j < i
          <6>1. j \in 1..(size + 1) /\ list'[j] = list[j]
            BY <1>1, <3>1, <5>1
          <6>2. QED
            BY <3>1, <6>1
        <5>2. CASE ~(j < i)
          <6>1. j + 1 \in 1..(size + 1) /\ ~(j + 1 < i) /\ j + 1 # i /\ j + 1 - 1 = j
            BY <1>1, <5>2
          <6>2. list'[j + 1] = list[j]
            BY <3>1, <6>1
          <6>3. QED
            BY <3>1, <6>1, <6>2
        <5>3. QED
          BY <5>1, <5>2
      <4>2. ASSUME NEW m \in 1..size', list'[m].key = o
            PROVE  \E j \in 1..size : list'[m] = list[j]
        <5>1. m \in 1..(size + 1) /\ m # i
          BY <3>1, <3>3, <4>2
        <5>2. CASE m < i
          <6>1. m \in 1..size /\ list'[m] = list[m]
            BY <1>1, <3>1, <5>1, <5>2
          <6>2. QED
            BY <6>1
        <5>3. CASE ~(m < i)
          <6>1. m - 1 \in 1..size /\ list'[m] = list[m - 1]
            BY <1>1, <3>1, <5>1, <5>3
          <6>2. QED
            BY <6>1
        <5>4. QED
          BY <5>2, <5>3
      <4>3. QED
        BY <1>3, <4>1, <4>2
    <3>4. QED
      BY <3>2, <3>3
  <2>3. QED
    BY <2>1, <2>2
<1>5. ASSUME NEW i \in 1..size, list[i].key = k, Removed(i)
      PROVE  /\ Value(list', k) = Absent
             /\ \A o : o # k => Value(list', o) = Value(list, o)
  <2>1. /\ size' = size - 1
        /\ \A j \in 1..(size - 1) : list'[j] = IF j < i THEN list[j] ELSE list[j + 1]
    BY <1>5 DEF Removed
  <2>2. ASSUME NEW m \in 1..size'
        PROVE  \E j \in 1..size : j # i /\ list'[m] = list[j]
    <3>1. CASE m < i
      <4>1. m \in 1..size /\ m # i /\ list'[m] = list[m]
        BY <1>1, <2>1, <3>1
      <4>2. QED
        BY <4>1
    <3>2. CASE ~(m < i)
      <4>1. m + 1 \in 1..size /\ m + 1 # i /\ list'[m] = list[m + 1]
        BY <1>1, <2>1, <3>2
      <4>2. QED
        BY <4>1
    <3>3. QED
      BY <3>1, <3>2
  <2>3. Value(list', k) = Absent
    <3>1. \A m \in 1..size' : list'[m].key # k
      BY <1>1, <1>5, <2>2
    <3>2. QED
      BY <1>2, <3>1, ValueMissing
  <2>4. ASSUME NEW o, o # k PROVE Value(list', o) = Value(list, o)
    <3>1. ASSUME NEW j \in 1..size, list[j].key = o
          PROVE  \E m \in 1..size' : list'[m] = list[j]
      <4>1. j # i
        BY <1>5, <2>4, <3>1
      <4>2. CASE j < i
        <5>1. j \in 1..(size - 1) /\ list'[j] = list[j]
          BY <1>1, <2>1, <4>2
        <5>2. QED
          BY <2>1, <5>1
      <4>3. CASE ~(j < i)
        <5>1. j - 1 \in 1..(size - 1) /\ ~(j - 1 < i) /\ j - 1 + 1 = j
          BY <1>1, <4>1, <4>3
        <5>2. list'[j - 1] = list[j]
          BY <2>1, <5>1
        <5>3. QED
          BY <2>1, <5>1, <5>2
      <4>4. QED
        BY <4>2, <4>3
    <3>2. QED
      BY <1>3, <2>2, <3>1
  <2>5. QED
    BY <2>3, <2>4
<1>6. ASSUME \A i \in 1..size : list[i].key # k, list' = list
      PROVE  /\ Value(list', k) = Absent
             /\ \A o : o # k => Value(list', o) = Value(list, o)
  BY <1>1, <1>6, ValueMissing
<1>7. QED
  BY <1>4, <1>5, <1>6 DEF Ended

-----------------------------------------------------------------------------
(* What a step leaves alone *)

Locals == /\ cap = [t \in Threads |-> cap[t]] /\ keys = [t \in Threads |-> keys[t]]
          /\ res = [t \in Threads |-> res[t]] /\ seen = [t \in Threads |-> seen[t]]
          /\ calm = [t \in Threads |-> calm[t]]

Stays(u) == /\ pc'[u] = pc[u] /\ req'[u] = req[u] /\ new'[u] = new[u]
            /\ cap'[u] = cap[u] /\ keys'[u] = keys[u] /\ res'[u] = res[u]

\* f changes only at t.
Only(f, g, t) == \E x : g = [f EXCEPT ![t] = x]

LEMMA OnlyStays ==
  ASSUME NEW f, f = [u \in Threads |-> f[u]], NEW g, NEW t \in Threads, Only(f, g, t) \/ g = f
  PROVE  /\ g = [u \in Threads |-> g[u]]
         /\ \A u \in Threads : u # t => g[u] = f[u]
<1>1. CASE Only(f, g, t)
  <2>1. PICK x : g = [f EXCEPT ![t] = x]
    BY <1>1 DEF Only
  <2>2. g = [u \in Threads |-> IF u = t THEN x ELSE f[u]]
    BY <2>1
  <2>3. QED
    BY <2>2
<1>2. CASE g = f
  BY <1>2
<1>3. QED
  BY <1>1, <1>2

LEMMA OwnOnly ==
  ASSUME Inv, NEW t \in Threads, Ends(t) \/ Goes(t)
  PROVE  /\ Only(pc, pc', t) \/ pc' = pc
         /\ Only(req, req', t) \/ req' = req
         /\ Only(new, new', t) \/ new' = new
         /\ Only(cap, cap', t) \/ cap' = cap
         /\ Only(keys, keys', t) \/ keys' = keys
         /\ Only(res, res', t) \/ res' = res
<1> USE DEF Only, Goto, Undefined, local, Answers
<1>1. CASE Request(t)
  BY <1>1 DEF Request
<1>2. CASE Answer(t)
  BY <1>2 DEF Answer
<1>3. CASE LockAdd(t) \/ LockRemove(t)
  BY <1>3 DEF LockAdd, LockRemove
<1>4. CASE AddCompare(t) \/ AddFirst(t) \/ Push(t) \/ PushLink(t) \/ Insert(t) \/ InsertLink(t)
             \/ AddLast(t) \/ Replace(t)
  BY <1>4 DEF AddCompare, AddFirst, Push, PushLink, Insert, InsertLink, AddLast, Replace
<1>5. CASE (RemoveCompare(t) /\ cur[t] # Null) \/ Unlink(t) \/ RemoveDestroy(t)
  BY <1>5 DEF RemoveCompare, Unlink, RemoveDestroy
<1>6. CASE Ends(t)
  BY <1>6 DEF Ends, AddGrow, ReplaceReuse, RemoveCompare, RemoveFree, PutReturns, RemoveReturns,
              Unlock
<1>7. ASSUME NEW v, GetReturns(t, v), pc[t] \in Getting
      PROVE  /\ Only(pc, pc', t) \/ pc' = pc
             /\ Only(res, res', t) \/ res' = res
             /\ UNCHANGED <<req, new, cap, keys>>
  <2>1. req[t].op \in {"get", "del", "gettable"}
    BY <1>7 DEF Inv, Shared, Asked, Serves
  <2>2. QED
    BY <1>7, <2>1 DEF GetReturns
<1>8. CASE GetBegin(t) \/ GetNext(t) \/ Size(t) \/ KeysNext(t)
  BY <1>8 DEF GetBegin, GetNext, Size, KeysNext, Advance
<1>9. CASE GetCompare(t) \/ GetCopy(t)
  BY <1>7, <1>9 DEF GetCompare, GetCopy, Getting
<1>10. CASE KeysCount(t) \/ KeysTestSize(t) \/ KeysTestHead(t) \/ KeysAlloc(t) \/ KeysHead(t)
  BY <1>10 DEF KeysCount, KeysTest, KeysTestSize, KeysTestHead, KeysAlloc, KeysHead
<1>11. CASE KeysCompare(t) \/ KeysCopy(t) \/ KeysAgain(t)
  BY <1>11 DEF KeysCompare, KeysCopy, KeysAgain
<1>12. CASE Read(t)
  BY <1>8, <1>9, <1>10, <1>11, <1>12 DEF Read
<1>13. QED
  BY <1>1, <1>2, <1>3, <1>4, <1>5, <1>6, <1>12 DEF Goes

LEMMA HistoryOnly ==
  ASSUME Inv, Locals, NEW t \in Threads, Ends(t) \/ Goes(t)
  PROVE  seen' = [u \in Threads |-> seen'[u]] /\ calm' = [u \in Threads |-> calm'[u]]
<1>1. CASE Request(t) \/ Answer(t)
  BY <1>1 DEF Request, Answer, Locals
<1>2. CASE LockAdd(t) \/ LockRemove(t)
  BY <1>2 DEF LockAdd, LockRemove, Lock
<1>3. CASE Read(t)
  BY <1>3 DEF Locals, Read, GetBegin, GetCompare, GetNext, GetCopy, Size, KeysCount,
              KeysTest, KeysTestSize, KeysTestHead, KeysAlloc,
              KeysHead, KeysCompare, KeysNext, KeysCopy, KeysAgain, Advance, GetReturns, Undefined, past
<1>4. CASE AddCompare(t) \/ AddFirst(t) \/ Push(t) \/ PushLink(t) \/ Insert(t) \/ InsertLink(t)
             \/ AddLast(t) \/ Replace(t)
  BY <1>4 DEF AddCompare, AddFirst, Push, PushLink, Insert, InsertLink, AddLast, Replace,
              Undefined, past, Locals
<1>5. CASE (RemoveCompare(t) /\ cur[t] # Null) \/ Unlink(t) \/ RemoveDestroy(t)
  BY <1>5 DEF RemoveCompare, Unlink, RemoveDestroy, Undefined, past, Locals
<1>6. CASE Ends(t)
  BY <1>6 DEF Ends, AddGrow, ReplaceReuse, RemoveCompare, RemoveFree, Locals
<1>7. QED
  BY <1>1, <1>2, <1>3, <1>4, <1>5, <1>6 DEF Goes

LEMMA StepFrame ==
  ASSUME Inv, Locals, NEW t \in Threads, Ends(t) \/ Goes(t)
  PROVE  Locals' /\ \A u \in Threads : u # t => Stays(u)
<1>1. /\ pc = [u \in Threads |-> pc[u]] /\ req = [u \in Threads |-> req[u]]
      /\ new = [u \in Threads |-> new[u]] /\ cap = [u \in Threads |-> cap[u]]
      /\ keys = [u \in Threads |-> keys[u]] /\ res = [u \in Threads |-> res[u]]
  BY DEF Inv, Shared, TypeOK, Locals
<1>2. /\ Only(pc, pc', t) \/ pc' = pc
      /\ Only(req, req', t) \/ req' = req
      /\ Only(new, new', t) \/ new' = new
      /\ Only(cap, cap', t) \/ cap' = cap
      /\ Only(keys, keys', t) \/ keys' = keys
      /\ Only(res, res', t) \/ res' = res
  BY OwnOnly
<1>3. /\ \A u \in Threads : u # t => pc'[u] = pc[u]
      /\ \A u \in Threads : u # t => req'[u] = req[u]
      /\ \A u \in Threads : u # t => new'[u] = new[u]
  BY <1>1, <1>2, OnlyStays
<1>4. /\ cap' = [u \in Threads |-> cap'[u]] /\ \A u \in Threads : u # t => cap'[u] = cap[u]
      /\ keys' = [u \in Threads |-> keys'[u]] /\ \A u \in Threads : u # t => keys'[u] = keys[u]
      /\ res' = [u \in Threads |-> res'[u]] /\ \A u \in Threads : u # t => res'[u] = res[u]
  BY <1>1, <1>2, OnlyStays
<1>5. QED
  BY <1>3, <1>4, HistoryOnly DEF Locals, Stays

-----------------------------------------------------------------------------
(* Where readers are, and what they have found *)

\* list_add has a new node and has not put it into the list.
Unlinked == {"first", "add", "replace", "reuse", "push", "insert", "append"}

Pointing ==
  /\ \A u \in Threads : cur[u] \in live \cup {Null, Freed}
  /\ \A t \in Threads : pc[t] \in Unlinked => \A u \in Threads : cur[u] # new[t]

\* A thread that has found an entry has it, unless it was destroyed.
Copying == \A u \in Threads : pc[u] = "copy" =>
  cur[u] = Freed \/ (HasEntry(cur[u]) /\ entry[cur[u]].key = Wanted(u))

Destroyed == \A t \in Threads : pc[t] \in {"reuse", "free"} => entry[cur[t]] = Freed

LEMMA ChainClosed ==
  ASSUME NEW m \in Nat, NEW c \in [1..m -> Nodes], Strung(m, c)
  PROVE  /\ head \in Range(c) \cup {Null}
         /\ \A n \in Range(c) : next[n] \in Range(c) \cup {Null}
<1>1. Range(c) = {c[j] : j \in 1..m}
  BY DEF Range
<1>2. \A j \in 1..m : c[j] \in Range(c)
  BY <1>1
<1>3. head \in Range(c) \cup {Null}
  BY <1>2 DEF Strung
<1>4. \A j \in 1..m : next[c[j]] \in Range(c) \cup {Null}
  <2>1. SUFFICES ASSUME NEW j \in 1..m PROVE next[c[j]] \in Range(c) \cup {Null}
    OBVIOUS
  <2>2. next[c[j]] = IF j = m THEN Null ELSE c[j + 1]
    BY DEF Strung
  <2>3. j # m => j + 1 \in 1..m
    OBVIOUS
  <2>4. QED
    BY <1>2, <2>2, <2>3
<1>5. QED
  BY <1>1, <1>3, <1>4

\* Who walks along next stays in memory that is allocated, and does not come to
\* a node that is not linked yet.
LEMMA Reach ==
  ASSUME Inv
  PROVE  /\ head \in live \cup {Null}
         /\ \A n \in live : next[n] \in live \cup {Null}
         /\ \A t \in Threads : pc[t] \in Unlinked =>
              /\ new[t] \in Nodes /\ head # new[t]
              /\ \A n \in live : next[n] # new[t]
<1>1. TypeOK /\ size \in Nat /\ Null \notin Nodes /\ Held
  BY NodesAssumption DEF Inv, Shared, TypeOK
<1>2. Unlinked \subseteq Writing /\ Unlinked \subseteq Adding
  BY DEF Unlinked, Writing, Adding
<1>3. CASE mutex = Null
  <2>1. PICK c \in [1..size -> Nodes] : Strung(size, c) /\ live = Range(c)
    BY <1>3 DEF Inv, Shape, Settled
  <2>2. \A t \in Threads : pc[t] \notin Unlinked
    BY <1>1, <1>2, <1>3, ThreadsNotNull DEF Held
  <2>3. QED
    BY <1>1, <2>1, <2>2, ChainClosed
<1>4. CASE mutex # Null
  <2>1. PICK t \in Threads : mutex = t
    BY <1>1, <1>4 DEF TypeOK
  <2>2. pc[t] \in Writing
    BY <1>1, <2>1 DEF Held
  <2>3. PICK c \in [1..size -> Nodes], i \in 1..(size + 1) : IsInjective(c) /\ At(t, c, i)
    BY <2>2, Holder
  <2>4. \A u \in Threads : pc[u] \in Unlinked => u = t
    BY <1>1, <1>2, <2>1 DEF Held
  <2>5. CASE pc[t] \in Removing
    <3>1. RemovingAt(t, c, i) /\ pc[t] \notin Unlinked
      BY <2>3, <2>5 DEF At, Adding, Removing, Unlinked
    <3>2. live = Range(c)
      BY <3>1 DEF RemovingAt
    <3>3. CASE pc[t] \in {"rm", "unlink"}
      <4>1. Strung(size, c)
        BY <3>1, <3>3 DEF RemovingAt
      <4>2. QED
        BY <1>1, <2>4, <3>1, <3>2, <4>1, ChainClosed
    <3>4. CASE pc[t] \in {"destroy", "free"}
      <4>1. /\ Strung(size - 1, Without(c, i)) /\ i <= size
            /\ next[c[i]] = IF i = size THEN Null ELSE c[i + 1]
        BY <3>1, <3>4 DEF RemovingAt
      <4>2. i \in 1..size /\ size - 1 \in Nat
        BY <1>1, <4>1
      <4>3. /\ Without(c, i) \in [1..(size - 1) -> Nodes]
            /\ Range(Without(c, i)) = live \ {c[i]}
        BY <1>1, <2>3, <3>2, <4>2, WithoutNode
      <4>4. /\ head \in live \cup {Null}
            /\ \A n \in live \ {c[i]} : next[n] \in live \cup {Null}
        BY <4>1, <4>2, <4>3, ChainClosed
      <4>5. next[c[i]] \in live \cup {Null}
        <5>1. i # size => i + 1 \in 1..size
          BY <1>1, <4>2
        <5>2. QED
          BY <3>2, <4>1, <5>1 DEF Range
      <4>6. QED
        BY <2>4, <3>1, <4>4, <4>5
    <3>5. QED
      BY <2>5, <3>3, <3>4 DEF Removing
  <2>6. CASE pc[t] \in Adding
    <3> DEFINE n == new[t]
    <3>1. AddingAt(t, c, i)
      BY <2>3, <2>6 DEF At, Adding, Removing
    <3>2. n \in Nodes \ Range(c) /\ live = Range(c) \cup {n} /\ n # Null
      BY <1>1, <3>1 DEF AddingAt
    <3>3. CASE pc[t] \in Unlinked
      <4>1. Strung(size, c) /\ next[n] = Null
        BY <3>1, <3>3 DEF AddingAt, Unlinked
      <4>2. /\ head \in Range(c) \cup {Null}
            /\ \A x \in Range(c) : next[x] \in Range(c) \cup {Null}
        BY <1>1, <4>1, ChainClosed
      <4>3. QED
        BY <2>4, <3>2, <4>1, <4>2
    <3>4. CASE pc[t] = "grow"
      <4>1. Strung(size + 1, With(c, i, n))
        BY <3>1, <3>4 DEF AddingAt
      <4>2. With(c, i, n) \in [1..(size + 1) -> Nodes] /\ Range(With(c, i, n)) = live
        BY <1>1, <2>3, <3>2, WithNode
      <4>3. size + 1 \in Nat
        BY <1>1
      <4>4. QED
        BY <2>4, <3>4, <4>1, <4>2, <4>3, ChainClosed DEF Unlinked
    <3>5. CASE pc[t] \in {"pushed", "inserted"}
      <4>1. \A j \in 1..size : c[j] \in live
        BY <3>2 DEF Range
      <4>2. head \in live
        <5>1. CASE pc[t] = "pushed"
          BY <3>1, <3>2, <5>1 DEF AddingAt
        <5>2. CASE pc[t] = "inserted"
          <6>1. head = c[1] /\ i > 1 /\ i <= size
            BY <3>1, <5>2 DEF AddingAt
          <6>2. 1 \in 1..size
            BY <1>1, <6>1
          <6>3. QED
            BY <4>1, <6>1, <6>2
        <5>3. QED
          BY <3>5, <5>1, <5>2
      <4>3. next[n] = Null
        BY <3>1, <3>5 DEF AddingAt
      <4>4. \A j \in 1..size : next[c[j]] \in {Null, n} \/ (j # size /\ next[c[j]] = c[j + 1])
        <5>1. CASE pc[t] = "pushed"
          <6>1. \A j \in 1..size : next[c[j]] = IF j = size THEN Null ELSE c[j + 1]
            BY <3>1, <5>1 DEF AddingAt
          <6>2. QED
            BY <6>1
        <5>2. CASE pc[t] = "inserted"
          <6>1. \A j \in 1..size : next[c[j]] = IF j = size THEN Null
                                                ELSE IF j = i - 1 THEN n ELSE c[j + 1]
            BY <3>1, <5>2 DEF AddingAt
          <6>2. QED
            BY <6>1
        <5>3. QED
          BY <3>5, <5>1, <5>2
      <4>5. \A j \in 1..size : j # size => j + 1 \in 1..size
        BY <1>1
      <4>6. \A j \in 1..size : next[c[j]] \in live \cup {Null}
        BY <3>2, <4>1, <4>4, <4>5
      <4>7. \A x \in live : next[x] \in live \cup {Null}
        BY <3>2, <4>3, <4>6 DEF Range
      <4>8. QED
        BY <2>4, <3>5, <4>2, <4>7 DEF Unlinked
    <3>6. QED
      BY <2>6, <3>3, <3>4, <3>5 DEF Adding, Unlinked
  <2>7. QED
    BY <2>3, <2>5, <2>6 DEF At
<1>5. QED
  BY <1>3, <1>4

\* What a step does to the places where threads are: they walk, take a node for
\* a put, or destroy an entry; ReplaceReuse and RemoveFree are the other steps.
Walks(t) ==
  /\ UNCHANGED <<live, entry>>
  /\ \E x \in {cur[t], head, Null} \cup {next[n] : n \in live \cap {cur[t]}} :
       cur' = [cur EXCEPT ![t] = x]
  /\ pc'[t] \in Unlinked => pc[t] \in Unlinked /\ new' = new
  /\ pc'[t] \notin {"reuse", "free"}

Takes(t) ==
  /\ cur' = [cur EXCEPT ![t] = head]
  /\ \E n \in Nodes \ live :
       /\ live' = live \cup {n}
       /\ entry' = [entry EXCEPT ![n] = [key |-> req[t].key, value |-> req[t].value]]
       /\ new' = [new EXCEPT ![t] = n]
  /\ pc'[t] \in {"first", "add"}

Destroys(t) ==
  /\ UNCHANGED <<live, new>>
  /\ EntryDestroy(t, cur[t])
  /\ pc[t] \in {"replace", "destroy"}
  /\ pc'[t] = IF pc[t] = "replace" THEN "reuse" ELSE "free"

LEMMA CurMoves ==
  ASSUME Inv, NEW t \in Threads, Ends(t) \/ Goes(t)
  PROVE  Walks(t) \/ Takes(t) \/ Destroys(t) \/ ReplaceReuse(t) \/ RemoveFree(t)
<1>1. /\ TypeOK /\ pc' = [u \in Threads |-> pc'[u]]
  <2>1. TypeOK /\ TypeOK'
    BY EndsStep, GoesStep DEF Inv, Shared
  <2>2. QED
    BY <2>1 DEF TypeOK
<1>2. cur = [cur EXCEPT ![t] = cur[t]]
  BY <1>1 DEF TypeOK
<1> USE DEF Unlinked
<1>3. CASE Request(t) \/ Answer(t)
  <2>1. UNCHANGED heap /\ pc'[t] \in {"put", "get", "size", "count", "idle"}
    BY <1>1, <1>3 DEF Request, Answer, TypeOK, Goto, Asks, FirstStep
  <2>2. \E x \in {cur[t], Null} : cur' = [cur EXCEPT ![t] = x]
    BY <1>2, <1>3 DEF Request, Answer, local
  <2>3. QED
    BY <2>1, <2>2 DEF Walks, heap
<1>4. CASE Read(t)
  <2>1. UNCHANGED heap
    BY <1>4, ReadFrame
  <2>2. pc'[t] \notin Unlinked \cup {"free"}
    <3>1. PICK p \in Aside \cup {"del"} : pc' = [pc EXCEPT ![t] = p]
      BY <1>4, ReadFrame
    <3>2. QED
      BY <1>1, <3>1 DEF TypeOK, Aside, Reading
  <2>3. \E x \in {cur[t], head} \cup {next[n] : n \in live \cap {cur[t]}} :
          cur' = [cur EXCEPT ![t] = x]
    <3>1. CASE GetBegin(t) \/ KeysHead(t)
      BY <1>2, <3>1 DEF GetBegin, KeysHead, Undefined, local
    <3>2. CASE GetNext(t) \/ KeysNext(t)
      <4>1. CASE cur[t] \in live
        BY <3>2, <4>1 DEF GetNext, KeysNext, Advance
      <4>2. CASE cur[t] \notin live
        BY <1>2, <3>2, <4>2 DEF GetNext, KeysNext, Advance, Undefined, local
      <4>3. QED
        BY <4>1, <4>2
    <3>3. CASE \/ GetCompare(t) \/ GetCopy(t) \/ Size(t) \/ KeysCount(t)
               \/ KeysTestSize(t) \/ KeysTestHead(t) \/ KeysAlloc(t)
               \/ KeysCompare(t) \/ KeysCopy(t) \/ KeysAgain(t)
      <4>1. cur' = cur
        BY <3>3 DEF GetCompare, GetCopy, Size, KeysCount,
                    KeysTest, KeysTestSize, KeysTestHead, KeysAlloc, KeysCompare, KeysCopy,
                    KeysAgain, GetReturns, Undefined, local
      <4>2. QED
        BY <1>2, <4>1
    <3>4. QED
      BY <1>4, <3>1, <3>2, <3>3 DEF Read
  <2>4. QED
    BY <2>1, <2>2, <2>3 DEF Walks, heap
<1>5. CASE LockAdd(t)
  <2>1. Malloc \in Nodes \ live
    <3>1. \E n \in Nodes \ live : TRUE
      BY <1>1, <1>5 DEF LockAdd, TypeOK
    <3>2. QED
      BY <3>1 DEF Malloc
  <2>2. pc'[t] \in {"first", "add"}
    BY <1>1, <1>5 DEF LockAdd, TypeOK, Goto
  <2>3. QED
    BY <1>5, <2>1, <2>2 DEF LockAdd, Takes, Lock
<1>6. CASE LockRemove(t)
  <2>1. UNCHANGED heap /\ cur' = [cur EXCEPT ![t] = head] /\ pc'[t] = "rm"
    BY <1>1, <1>6 DEF LockRemove, Lock, TypeOK, Goto
  <2>2. QED
    BY <2>1 DEF Walks, heap
<1>7. CASE AddCompare(t)
  <2>1. UNCHANGED heap /\ new' = new /\ pc[t] = "add"
    BY <1>7 DEF AddCompare, Undefined, local
  <2>2. pc'[t] \notin {"reuse", "free"}
    BY <1>1, <1>7 DEF AddCompare, Undefined, TypeOK
  <2>3. CASE HasEntry(cur[t])
    <3>1. \E x \in {cur[t]} \cup {next[n] : n \in live \cap {cur[t]}} :
            cur' = [cur EXCEPT ![t] = x]
      BY <1>2, <1>7, <2>3 DEF AddCompare, HasEntry
    <3>2. QED
      BY <2>1, <2>2, <3>1 DEF Walks, heap
  <2>4. CASE ~HasEntry(cur[t])
    <3>1. cur' = cur
      BY <1>7, <2>4 DEF AddCompare, Undefined, local
    <3>2. QED
      BY <1>2, <2>1, <2>2, <3>1 DEF Walks, heap
  <2>5. QED
    BY <2>3, <2>4
<1>8. CASE AddFirst(t) \/ Push(t) \/ PushLink(t) \/ Insert(t) \/ InsertLink(t) \/ AddLast(t)
  <2>1. UNCHANGED <<live, entry, new, cur>> /\ pc[t] \in Unlinked \cup {"pushed", "inserted"}
    BY <1>8 DEF AddFirst, Push, PushLink, Insert, InsertLink, AddLast, Undefined, local, heap, Goto
  <2>2. pc'[t] \in {"grow", "pushed", "inserted", "undefined"}
    BY <1>1, <1>8 DEF AddFirst, Push, PushLink, Insert, InsertLink, AddLast, Undefined, Goto, TypeOK
  <2>3. QED
    BY <1>2, <2>1, <2>2 DEF Walks
<1>9. CASE Replace(t) \/ RemoveDestroy(t)
  BY <1>1, <1>9 DEF Replace, RemoveDestroy, Destroys, Goto, TypeOK
<1>10. CASE RemoveCompare(t)
  <2>1. UNCHANGED heap
    BY <1>10 DEF RemoveCompare, Undefined
  <2>2. pc'[t] \in {"undefined", "answer", "unlink", "rm"}
    BY <1>1, <1>10 DEF RemoveCompare, Undefined, RemoveReturns, Unlock, Answers, Goto, TypeOK
  <2>3. \E x \in {cur[t]} \cup {next[n] : n \in live \cap {cur[t]}} :
            cur' = [cur EXCEPT ![t] = x]
    <3>1. CASE cur' = cur
      BY <1>2, <3>1
    <3>2. CASE cur' = [cur EXCEPT ![t] = next[@]] /\ HasEntry(cur[t])
      BY <3>2 DEF HasEntry
    <3>3. QED
      BY <1>10, <3>1, <3>2 DEF RemoveCompare, Undefined, local
  <2>4. QED
    BY <2>1, <2>2, <2>3 DEF Walks, heap
<1>11. CASE Unlink(t) \/ AddGrow(t)
  <2>1. UNCHANGED <<live, entry, cur>>
    BY <1>11 DEF Unlink, AddGrow, Undefined, local, heap
  <2>2. pc'[t] \in {"undefined", "destroy", "answer"}
    BY <1>1, <1>11 DEF Unlink, AddGrow, Undefined, PutReturns, Unlock, Answers, Goto, TypeOK
  <2>3. QED
    BY <1>2, <2>1, <2>2 DEF Walks
<1>12. QED
  BY <1>3, <1>4, <1>5, <1>6, <1>7, <1>8, <1>9, <1>10, <1>11 DEF Ends, Goes

Places == Pointing /\ Copying /\ Destroyed

LEMMA PointingStep ==
  ASSUME Inv, Locals, Pointing, NEW t \in Threads, Ends(t) \/ Goes(t)
  PROVE  Pointing'
<1>1. TypeOK /\ TypeOK' /\ Held /\ Held' /\ Null \notin Nodes /\ Freed \notin Nodes
  BY NodesAssumption, EndsStep, GoesStep DEF Inv, Shared
<1>2. \A u \in Threads : u # t => Stays(u)
  BY StepFrame
<1>3. /\ \A u \in Threads : cur[u] \in live \cup {Null, Freed}
      /\ \A w \in Threads : pc[w] \in Unlinked => \A u \in Threads : cur[u] # new[w]
  BY DEF Pointing
<1>4. /\ head \in live \cup {Null}
      /\ \A n \in live : next[n] \in live \cup {Null}
      /\ \A w \in Threads : pc[w] \in Unlinked =>
           /\ new[w] \in Nodes /\ head # new[w]
           /\ \A n \in live : next[n] # new[w]
  BY Reach
<1>5. live \subseteq Nodes /\ cur = [u \in Threads |-> cur[u]] /\ new = [u \in Threads |-> new[u]]
  BY <1>1 DEF TypeOK
<1>6. CASE Walks(t)
  <2>1. PICK x \in {cur[t], head, Null} \cup {next[n] : n \in live \cap {cur[t]}} :
          cur' = [cur EXCEPT ![t] = x]
    BY <1>6 DEF Walks
  <2>2. \A u \in Threads : cur'[u] = IF u = t THEN x ELSE cur[u]
    BY <1>5, <2>1
  <2>3. x \in live \cup {Null, Freed}
    BY <1>3, <1>4, <2>1
  <2>4. ASSUME NEW w \in Threads, pc'[w] \in Unlinked, NEW u \in Threads
        PROVE  cur'[u] # new'[w]
    <3>1. pc[w] \in Unlinked /\ new'[w] = new[w]
      BY <1>2, <1>6, <2>4 DEF Walks, Stays
    <3>2. x # new[w]
      BY <1>1, <1>3, <1>4, <2>1, <3>1
    <3>3. QED
      BY <1>3, <2>2, <3>1, <3>2
  <2>5. QED
    BY <1>3, <1>6, <2>2, <2>3, <2>4 DEF Pointing, Walks
<1>7. CASE Takes(t)
  <2>1. PICK n \in Nodes \ live : live' = live \cup {n} /\ new' = [new EXCEPT ![t] = n]
    BY <1>7 DEF Takes
  <2>2. \A u \in Threads : cur'[u] = IF u = t THEN head ELSE cur[u]
    BY <1>5, <1>7 DEF Takes
  <2>3. \A w \in Threads : new'[w] = IF w = t THEN n ELSE new[w]
    BY <1>5, <2>1
  <2>4. \A u \in Threads : cur'[u] \in live \cup {Null, Freed}
    BY <1>3, <1>4, <2>2
  <2>5. \A u \in Threads : cur'[u] # n
    BY <1>1, <2>4
  <2>6. \A w \in Threads : w # t => pc'[w] = pc[w]
    BY <1>2 DEF Stays
  <2>7. \A w \in Threads : w # t /\ pc[w] \in Unlinked => \A u \in Threads : cur'[u] # new[w]
    BY <1>3, <1>4, <2>2
  <2>8. QED
    BY <2>1, <2>3, <2>4, <2>5, <2>6, <2>7 DEF Pointing
<1>8. CASE Destroys(t)
  <2>1. /\ UNCHANGED <<live, new>>
        /\ \A u \in Threads : cur'[u] \in {cur[u], Freed}
    BY <1>8 DEF Destroys, EntryDestroy
  <2>2. \A w \in Threads : pc'[w] \in Unlinked => pc[w] \in Unlinked
    BY <1>2, <1>8 DEF Stays, Destroys, Unlinked
  <2>3. \A w \in Threads : pc[w] \in Unlinked => new[w] # Freed
    BY <1>1, <1>4
  <2>4. QED
    BY <1>3, <2>1, <2>2, <2>3 DEF Pointing
<1>9. CASE ReplaceReuse(t)
  <2>1. pc[t] \in Unlinked /\ live' = live \ {new[t]} /\ UNCHANGED <<cur, new>>
    BY <1>9 DEF ReplaceReuse, Unlinked
  <2>2. pc'[t] \notin Unlinked
    BY <1>1, <1>9 DEF ReplaceReuse, PutReturns, Unlock, Answers, TypeOK, Unlinked
  <2>3. \A w \in Threads : pc'[w] \in Unlinked => pc[w] \in Unlinked
    BY <1>2, <2>2 DEF Stays
  <2>4. \A u \in Threads : cur[u] \in live' \cup {Null, Freed}
    BY <1>3, <2>1
  <2>5. QED
    BY <1>3, <2>1, <2>3, <2>4 DEF Pointing
<1>10. CASE RemoveFree(t)
  <2>1. pc[t] = "free" /\ live' = live \ {cur[t]} /\ new' = new /\ cur' = Forget(cur, cur[t])
    BY <1>10 DEF RemoveFree
  <2>2. \A u \in Threads : cur'[u] = IF cur[u] = cur[t] THEN Freed ELSE cur[u]
    BY <1>5, <2>1 DEF Forget
  <2>3. \A w \in Threads : pc'[w] \notin Unlinked
    <3>1. mutex' = Null
      BY <1>10 DEF RemoveFree, RemoveReturns, Unlock
    <3>2. QED
      BY <1>1, <3>1, ThreadsNotNull DEF Held, Unlinked, Writing
  <2>4. \A u \in Threads : cur'[u] \in live' \cup {Null, Freed}
    BY <1>3, <2>1, <2>2
  <2>5. QED
    BY <2>3, <2>4 DEF Pointing
<1>11. QED
  BY <1>6, <1>7, <1>8, <1>9, <1>10, CurMoves

\* Only a comparison that found the key comes to the copy of an entry.
LEMMA CopyFound ==
  ASSUME Inv, NEW t \in Threads, Ends(t) \/ Goes(t), pc'[t] = "copy"
  PROVE  /\ HasEntry(cur[t]) /\ entry[cur[t]].key = Wanted(t)
         /\ UNCHANGED <<heap, req, local>>
<1>1. TypeOK /\ Serves(req[t].op, pc[t])
  BY DEF Inv, Shared, Asked
<1> USE DEF Goto, Undefined, TypeOK, Answers
<1>2. ~(Request(t) \/ Answer(t))
  BY <1>1 DEF Request, Answer, Asks, FirstStep
<1>3. ~Ends(t)
  BY <1>1 DEF Ends, AddGrow, ReplaceReuse, RemoveCompare, RemoveFree, PutReturns, RemoveReturns,
              Unlock
<1>4. ~(LockAdd(t) \/ AddCompare(t) \/ AddFirst(t) \/ Push(t) \/ PushLink(t)
           \/ Insert(t) \/ InsertLink(t) \/ AddLast(t) \/ Replace(t))
  BY <1>1 DEF LockAdd, AddCompare, AddFirst, Push, PushLink, Insert, InsertLink, AddLast, Replace
<1>5. ~(LockRemove(t) \/ (RemoveCompare(t) /\ cur[t] # Null) \/ Unlink(t) \/ RemoveDestroy(t))
  BY <1>1 DEF LockRemove, RemoveCompare, Unlink, RemoveDestroy
<1>6. Read(t)
  BY <1>2, <1>3, <1>4, <1>5 DEF Goes
<1>7. ~(\/ GetBegin(t) \/ GetNext(t) \/ Size(t) \/ KeysCount(t)
        \/ KeysTestSize(t) \/ KeysTestHead(t) \/ KeysAlloc(t) \/ KeysHead(t)
        \/ KeysCompare(t) \/ KeysNext(t) \/ KeysCopy(t) \/ KeysAgain(t))
  BY <1>1 DEF GetBegin, GetNext, Size, KeysCount,
              KeysTest, KeysTestSize, KeysTestHead, KeysAlloc, KeysHead, KeysCompare, KeysNext,
              KeysCopy, KeysAgain, Advance
<1>8. ASSUME NEW v, GetReturns(t, v), pc[t] \in Getting PROVE FALSE
  BY <1>1, <1>8 DEF GetReturns, Serves
<1>9. ~GetCopy(t)
  BY <1>1, <1>8 DEF GetCopy, Getting
<1>10. GetCompare(t)
  BY <1>6, <1>7, <1>9 DEF Read
<1>11. QED
  BY <1>1, <1>8, <1>10 DEF GetCompare, Getting

LEMMA DestroyedStep ==
  ASSUME Inv, Locals, Places, NEW t \in Threads, Ends(t) \/ Goes(t)
  PROVE  Destroyed'
<1>1. TypeOK /\ TypeOK' /\ Held /\ Held'
  BY EndsStep, GoesStep DEF Inv, Shared
<1>2. \A u \in Threads : u # t => Stays(u)
  BY StepFrame
<1>3. SUFFICES ASSUME NEW w \in Threads, pc'[w] \in {"reuse", "free"} PROVE entry'[cur'[w]] = Freed
  BY DEF Destroyed
<1>4. mutex' = w /\ w \in Threads
  BY <1>1, <1>3 DEF Held, Writing
<1>5. CASE Destroys(t)
  <2>1. w = t
    <3>1. pc'[t] \in Writing
      BY <1>5 DEF Destroys, Writing
    <3>2. QED
      BY <1>1, <1>4, <3>1 DEF Held
  <2>2. cur'[t] = cur[t] /\ entry' = [entry EXCEPT ![cur[t]] = Freed]
    BY <1>5 DEF Destroys, EntryDestroy
  <2>3. cur[t] \in Nodes
    <3>1. pc[t] \in Writing
      BY <1>5 DEF Destroys, Writing
    <3>2. PICK c \in [1..size -> Nodes], i \in 1..(size + 1) : At(t, c, i)
      BY <3>1, Holder
    <3>3. cur[t] = c[i] /\ i <= size
      BY <1>5, <3>2 DEF Destroys, At, AddingAt, RemovingAt, Adding, Removing
    <3>4. i \in 1..size
      BY <1>1, <3>3 DEF TypeOK
    <3>5. QED
      BY <3>3, <3>4
  <2>4. QED
    BY <1>1, <2>1, <2>2, <2>3 DEF TypeOK
<1>6. CASE ReplaceReuse(t) \/ RemoveFree(t)
  <2>1. mutex' = Null
    BY <1>6 DEF ReplaceReuse, RemoveFree, PutReturns, RemoveReturns, Unlock
  <2>2. QED
    BY <1>4, <2>1, ThreadsNotNull
<1>7. CASE Takes(t)
  <2>1. pc'[t] \in Writing /\ pc'[t] \notin {"reuse", "free"}
    BY <1>7 DEF Takes, Writing
  <2>2. QED
    BY <1>1, <1>3, <1>4, <2>1 DEF Held
<1>8. CASE Walks(t)
  <2>1. w # t
    BY <1>3, <1>8 DEF Walks
  <2>2. pc[w] \in {"reuse", "free"}
    BY <1>2, <1>3, <2>1 DEF Stays
  <2>3. cur'[w] = cur[w] /\ entry' = entry
    BY <1>1, <1>8, <2>1 DEF Walks, TypeOK
  <2>4. QED
    BY <2>2, <2>3 DEF Places, Destroyed
<1>9. QED
  BY <1>5, <1>6, <1>7, <1>8, CurMoves

LEMMA CopyingStep ==
  ASSUME Inv, Locals, Places, NEW t \in Threads, Ends(t) \/ Goes(t)
  PROVE  Copying'
<1>1. TypeOK /\ Null \notin Nodes /\ Freed \notin Nodes
  BY NodesAssumption DEF Inv, Shared
<1>2. \A u \in Threads : u # t => Stays(u)
  BY StepFrame
<1>3. SUFFICES ASSUME NEW u \in Threads, pc'[u] = "copy", cur'[u] # Freed
               PROVE  HasEntry(cur[u])' /\ entry'[cur'[u]].key = Wanted(u)'
  BY DEF Copying
<1>4. CASE u = t
  <2>1. /\ HasEntry(cur[t]) /\ entry[cur[t]].key = Wanted(t)
        /\ UNCHANGED <<heap, req, local>>
    BY <1>3, <1>4, CopyFound
  <2>2. Wanted(t)' = Wanted(t)
    BY <2>1 DEF Wanted, local
  <2>3. UNCHANGED <<live, entry, cur>>
    BY <2>1 DEF heap, local
  <2>4. QED
    BY <1>4, <2>1, <2>2, <2>3 DEF HasEntry
<1>5. CASE u # t
  <2>1. pc[u] = "copy" /\ Wanted(u)' = Wanted(u)
    BY <1>2, <1>3, <1>5 DEF Stays, Wanted
  <2>2. cur[u] = Freed \/ (cur[u] \in live /\ entry[cur[u]] # Freed /\ entry[cur[u]].key = Wanted(u))
    BY <2>1 DEF Places, Copying, HasEntry
  <2>3. SUFFICES cur'[u] = cur[u] /\ (cur[u] \in live => cur[u] \in live' /\ entry'[cur[u]] = entry[cur[u]])
    BY <1>3, <2>1, <2>2 DEF HasEntry
  <2>4. CASE Walks(t)
    BY <1>1, <1>5, <2>4 DEF Walks, TypeOK
  <2>5. CASE Takes(t)
    BY <1>1, <1>5, <2>5 DEF Takes, TypeOK
  <2>6. CASE Destroys(t)
    <3>1. /\ cur'[u] = IF cur[u] = cur[t] THEN Freed ELSE cur[u]
          /\ entry' = [entry EXCEPT ![cur[t]] = Freed] /\ live' = live
      BY <1>5, <2>1, <2>6 DEF Destroys, EntryDestroy
    <3>2. QED
      BY <1>1, <1>3, <3>1 DEF TypeOK
  <2>7. CASE ReplaceReuse(t)
    <3>1. /\ entry' = [entry EXCEPT ![cur[t]] = entry[new[t]], ![new[t]] = Freed]
          /\ live' = live \ {new[t]} /\ cur' = cur /\ pc[t] = "reuse"
      BY <2>7 DEF ReplaceReuse
    <3>2. cur[u] # new[t]
      BY <3>1 DEF Places, Pointing, Unlinked
    <3>3. cur[u] \in live => cur[u] # cur[t]
      <4>1. entry[cur[t]] = Freed
        BY <3>1 DEF Places, Destroyed
      <4>2. cur[u] \in live => cur[u] # Freed
        BY <1>1 DEF TypeOK
      <4>3. QED
        BY <2>2, <4>1, <4>2
    <3>4. QED
      BY <1>1, <3>1, <3>2, <3>3 DEF TypeOK
  <2>8. CASE RemoveFree(t)
    <3>1. /\ entry' = entry /\ live' = live \ {cur[t]} /\ cur' = Forget(cur, cur[t])
      BY <2>8 DEF RemoveFree
    <3>2. cur'[u] = IF cur[u] = cur[t] THEN Freed ELSE cur[u]
      BY <1>1, <3>1 DEF Forget, TypeOK
    <3>3. QED
      BY <1>3, <3>1, <3>2
  <2>9. QED
    BY <2>4, <2>5, <2>6, <2>7, <2>8, CurMoves
<1>6. QED
  BY <1>4, <1>5

LEMMA PlacesStep ==
  ASSUME Inv, Locals, Places, NEW t \in Threads, Ends(t) \/ Goes(t)
  PROVE  Places'
  BY PointingStep, CopyingStep, DestroyedStep DEF Places

-----------------------------------------------------------------------------
(* What a get answers while others write *)

\* A get remembers every value its key has had since it was asked.
Remembers == \A u \in Threads : req[u].op = "get" /\ pc[u] \in Getting =>
  {Value(list, req[u].key)} \cup Doing(req[u].key) \subseteq seen[u]

\* An entry that is not destroyed is of the list, or of the put in progress.
LEMMA EntryValue ==
  ASSUME UnitOrder, Inv, Sorted, Destroyed, NEW n, HasEntry(n)
  PROVE  entry[n].value \in {Value(list, entry[n].key)} \cup Doing(entry[n].key)
<1>1. /\ TypeOK /\ size \in Nat /\ list \in [1..size -> Entries] /\ Held
      /\ \A t \in Threads : Asked(t)
  BY DEF Inv, Shared, TypeOK
<1>2. ASSUME NEW j \in 1..size, entry[n] = list[j]
      PROVE  entry[n].value = Value(list, entry[n].key)
  <2>1. Value(list, list[j].key) = list[j].value
    BY <1>1, SortedDistinct, ValueFound
  <2>2. QED
    BY <1>2, <2>1
<1>3. CASE mutex = Null
  <2>1. PICK c \in [1..size -> Nodes] : Settled(c)
    BY <1>3 DEF Inv, Shape
  <2>2. PICK j \in 1..size : n = c[j]
    BY <2>1 DEF Settled, Range, HasEntry
  <2>3. entry[n] = list[j]
    BY <2>1, <2>2 DEF Settled
  <2>4. QED
    BY <1>2, <2>3
<1>4. CASE mutex # Null
  <2>1. PICK t \in Threads : mutex = t
    BY <1>1, <1>4 DEF TypeOK
  <2>2. pc[t] \in Writing
    BY <1>1, <2>1 DEF Held
  <2>3. PICK c \in [1..size -> Nodes], i \in 1..(size + 1) : At(t, c, i)
    BY <2>2, Holder
  <2>4. CASE pc[t] \in Adding
    <3>1. AddingAt(t, c, i)
      BY <2>3, <2>4 DEF At, Adding, Removing
    <3>2. CASE n = new[t]
      <4>1. entry[n] = [key |-> req[t].key, value |-> req[t].value] /\ req[t].op = "put"
        BY <1>1, <2>4, <3>1, <3>2 DEF AddingAt, Asked, Serves
      <4>2. entry[n].key = req[t].key /\ entry[n].value = req[t].value
        BY <4>1
      <4>3. QED
        BY <2>1, <4>1, <4>2 DEF Doing
    <3>3. CASE n # new[t]
      <4>1. PICK j \in 1..size : n = c[j]
        BY <3>1, <3>3 DEF AddingAt, Range, HasEntry
      <4>2. ~(pc[t] = "reuse" /\ j = i)
        <5>1. pc[t] = "reuse" => cur[t] = c[i] /\ entry[cur[t]] = Freed
          BY <3>1 DEF AddingAt, Destroyed
        <5>2. QED
          BY <4>1, <5>1 DEF HasEntry
      <4>3. entry[n] = list[j]
        BY <3>1, <4>1, <4>2 DEF AddingAt
      <4>4. QED
        BY <1>2, <4>3
    <3>4. QED
      BY <3>2, <3>3
  <2>5. CASE pc[t] \in Removing
    <3>1. RemovingAt(t, c, i)
      BY <2>3, <2>5 DEF At, Adding, Removing
    <3>2. PICK j \in 1..size : n = c[j]
      BY <3>1 DEF RemovingAt, Range, HasEntry
    <3>3. ~(pc[t] = "free" /\ j = i)
      <4>1. pc[t] = "free" => cur[t] = c[i] /\ entry[cur[t]] = Freed
        BY <3>1 DEF RemovingAt, Destroyed
      <4>2. QED
        BY <3>2, <4>1 DEF HasEntry
    <3>4. entry[n] = list[j]
      BY <3>1, <3>2, <3>3 DEF RemovingAt
    <3>5. QED
      BY <1>2, <3>4
  <2>6. QED
    BY <2>3, <2>4, <2>5 DEF At
<1>5. QED
  BY <1>3, <1>4

\* A step that neither takes the mutex nor gives it back.
LEMMA DoingStays ==
  ASSUME Inv, Locals, NEW t \in Threads, Goes(t), mutex' = mutex
  PROVE  \A k : Doing(k)' = Doing(k)
<1>1. TypeOK /\ Held /\ Held'
  BY GoesStep DEF Inv, Shared
<1>2. \A w \in Threads : mutex = w => req'[w] = req[w]
  <2>1. SUFFICES ASSUME NEW w \in Threads, mutex = w, w = t PROVE req' = req
    BY StepFrame DEF Stays
  <2>2. pc[t] \in Writing /\ pc'[t] \in Writing
    BY <1>1, <2>1 DEF Held
  <2>3. ~(Request(t) \/ Answer(t))
    BY <2>2 DEF Request, Answer, Goto, Writing
  <2>4. CASE Read(t)
    BY <2>4, ReadFrame
  <2>5. CASE LockAdd(t) \/ LockRemove(t)
    BY <2>5 DEF LockAdd, LockRemove
  <2>6. CASE AddCompare(t) \/ AddFirst(t) \/ Push(t) \/ PushLink(t) \/ Insert(t) \/ InsertLink(t)
               \/ AddLast(t) \/ Replace(t)
    BY <2>6 DEF AddCompare, AddFirst, Push, PushLink, Insert, InsertLink, AddLast, Replace, Undefined
  <2>7. CASE (RemoveCompare(t) /\ cur[t] # Null) \/ Unlink(t) \/ RemoveDestroy(t)
    BY <2>7 DEF RemoveCompare, Unlink, RemoveDestroy, Undefined
  <2>8. QED
    BY <2>3, <2>4, <2>5, <2>6, <2>7 DEF Goes
<1>3. \A k : {u \in Threads : mutex' = u /\ req'[u].key = k} = {u \in Threads : mutex = u /\ req[u].key = k}
  BY <1>2
<1>4. SUFFICES ASSUME NEW k PROVE Doing(k)' = Doing(k)
  OBVIOUS
<1> DEFINE S == {u \in Threads : mutex = u /\ req[u].key = k}
<1>5. Doing(k)' = {IF req'[u].op = "put" THEN req'[u].value ELSE Absent : u \in S}
  BY <1>3 DEF Doing
<1>6. \A u \in S : req'[u] = req[u]
  BY <1>2
<1>7. QED
  BY <1>5, <1>6 DEF Doing

LEMMA DoingHolder ==
  ASSUME NEW t \in Threads, mutex = t
  PROVE  Doing(req[t].key) = {IF req[t].op = "put" THEN req[t].value ELSE Absent}
         /\ \A k : k # req[t].key => Doing(k) = {}
<1>1. {u \in Threads : mutex = u /\ req[u].key = req[t].key} = {t}
  OBVIOUS
<1>2. \A k : k # req[t].key => {u \in Threads : mutex = u /\ req[u].key = k} = {}
  OBVIOUS
<1>3. QED
  BY <1>1, <1>2 DEF Doing

LEMMA SeenGrows ==
  ASSUME Inv, Locals, NEW t \in Threads, Ends(t) \/ Goes(t)
  PROVE  \A u \in Threads : u # t \/ pc[t] \in Reading => seen[u] \subseteq seen'[u]
<1>1. CASE LockAdd(t) \/ LockRemove(t)
  BY <1>1 DEF LockAdd, LockRemove, Lock, Goto, Reading
<1>2. CASE Request(t) \/ Answer(t)
  BY <1>2 DEF Request, Answer, Goto, Reading, Locals
<1>3. CASE Read(t)
  BY <1>3 DEF Read, GetBegin, GetCompare, GetNext, GetCopy, Size, KeysCount,
              KeysTest, KeysTestSize, KeysTestHead, KeysAlloc,
              KeysHead, KeysCompare, KeysNext, KeysCopy, KeysAgain, Advance, GetReturns, Undefined, past
<1>4. CASE AddCompare(t) \/ AddFirst(t) \/ Push(t) \/ PushLink(t) \/ Insert(t) \/ InsertLink(t)
             \/ AddLast(t) \/ Replace(t)
  BY <1>4 DEF AddCompare, AddFirst, Push, PushLink, Insert, InsertLink, AddLast, Replace,
              Undefined, past
<1>5. CASE (RemoveCompare(t) /\ cur[t] # Null) \/ Unlink(t) \/ RemoveDestroy(t)
  BY <1>5 DEF RemoveCompare, Unlink, RemoveDestroy, Undefined, past
<1>6. CASE Ends(t)
  BY <1>6 DEF Ends, AddGrow, ReplaceReuse, RemoveCompare, RemoveFree
<1>7. QED
  BY <1>1, <1>2, <1>3, <1>4, <1>5, <1>6 DEF Goes

\* The mutex goes to a thread only by a lock.
LEMMA GoesMutex ==
  ASSUME Inv, NEW t \in Threads, Goes(t)
  PROVE  mutex' = mutex \/ ((LockAdd(t) \/ LockRemove(t)) /\ mutex = Null /\ mutex' = t)
<1>1. CASE LockAdd(t) \/ LockRemove(t)
  BY <1>1 DEF LockAdd, LockRemove, Lock
<1>2. CASE Request(t) \/ Answer(t)
  BY <1>2 DEF Request, Answer
<1>3. CASE Read(t)
  BY <1>3, ReadFrame
<1>4. CASE AddCompare(t) \/ AddFirst(t) \/ Push(t) \/ PushLink(t) \/ Insert(t) \/ InsertLink(t)
             \/ AddLast(t) \/ Replace(t)
  BY <1>4 DEF AddCompare, AddFirst, Push, PushLink, Insert, InsertLink, AddLast, Replace, Undefined
<1>5. CASE (RemoveCompare(t) /\ cur[t] # Null) \/ Unlink(t) \/ RemoveDestroy(t)
  BY <1>5 DEF RemoveCompare, Unlink, RemoveDestroy, Undefined
<1>6. QED
  BY <1>1, <1>2, <1>3, <1>4, <1>5 DEF Goes

\* Only a request and a read bring a thread to a place where it reads.
LEMMA ReadingFrom ==
  ASSUME Inv, NEW t \in Threads, Ends(t) \/ Goes(t), pc'[t] \in Reading
  PROVE  Request(t) \/ Read(t)
<1>1. TypeOK
  BY DEF Inv, Shared
<1> USE <1>1 DEF TypeOK, Reading, Goto, Undefined
<1>2. CASE Ends(t)
  BY <1>2 DEF Ends, AddGrow, ReplaceReuse, RemoveCompare, RemoveFree, PutReturns, RemoveReturns,
              Unlock, Answers
<1>3. CASE LockAdd(t) \/ AddCompare(t) \/ AddFirst(t) \/ Push(t) \/ PushLink(t)
           \/ Insert(t) \/ InsertLink(t) \/ AddLast(t) \/ Replace(t)
  BY <1>3 DEF LockAdd, AddCompare, AddFirst, Push, PushLink, Insert, InsertLink, AddLast, Replace
<1>4. CASE LockRemove(t) \/ (RemoveCompare(t) /\ cur[t] # Null) \/ Unlink(t) \/ RemoveDestroy(t)
  BY <1>4 DEF LockRemove, RemoveCompare, Unlink, RemoveDestroy
<1>5. CASE Answer(t)
  BY <1>5 DEF Answer
<1>6. QED
  BY <1>2, <1>3, <1>4, <1>5 DEF Goes

\* A step that gives the mutex back is of the thread that holds it.
LEMMA EndsHolder ==
  ASSUME Inv, NEW t \in Threads, Ends(t)
  PROVE  mutex = t /\ mutex' = Null /\ pc[t] \in Writing /\ pc'[t] = "answer"
         /\ (req[t].op = "put" \/ req[t].op = "del") /\ UNCHANGED <<req, calm, seen>>
<1>1. TypeOK /\ Held /\ Serves(req[t].op, pc[t])
  BY DEF Inv, Shared, Asked
<1>2. /\ pc[t] \in {"grow", "reuse", "rm", "free"} /\ pc'[t] = "answer" /\ mutex' = Null
      /\ UNCHANGED <<req, calm, seen>>
  BY <1>1 DEF Ends, AddGrow, ReplaceReuse, RemoveCompare, RemoveFree, PutReturns, RemoveReturns,
              Unlock, Answers, TypeOK, HasEntry, Undefined
<1>3. pc[t] \in Writing /\ (req[t].op = "put" \/ req[t].op = "del")
  BY <1>1, <1>2 DEF Writing, Serves, Adding, Removing
<1>4. QED
  BY <1>1, <1>2, <1>3 DEF Held

LEMMA RemembersStep ==
  ASSUME UnitOrder, Inv, Locals, Sorted, Sorted', Remembers,
         NEW t \in Threads, Ends(t) \/ Goes(t)
  PROVE  Remembers'
<1>1. SUFFICES ASSUME NEW u \in Threads, NEW k, req'[u].op = "get", pc'[u] \in Getting,
                      req'[u].key = k
               PROVE  {Value(list', k)} \cup Doing(k)' \subseteq seen'[u]
  BY DEF Remembers, Doing
<1>2. Inv' /\ \A w \in Threads : w # t => Stays(w)
  BY EndsStep, GoesStep, StepFrame
<1>3. /\ req[t].op = "put" => req[t].key \in Keys
      /\ req[t].op = "del" => req[t].value = Absent
      /\ Serves(req[t].op, pc[t]) /\ TypeOK /\ req = [w \in Threads |-> req[w]]
  BY DEF Inv, Shared, Asked
<1>4. ASSUME u # t
      PROVE  /\ req'[u] = req[u] /\ req[u].op = "get" /\ pc[u] \in Getting
             /\ req[u].key = k /\ {Value(list, k)} \cup Doing(k) \subseteq seen[u]
             /\ seen[u] \subseteq seen'[u]
  <2>1. req'[u] = req[u] /\ pc'[u] = pc[u]
    BY <1>2, <1>4 DEF Stays
  <2>2. QED
    BY <1>1, <1>4, <2>1, SeenGrows DEF Remembers
<1>5. CASE Ends(t)
  <2>1. mutex = t /\ mutex' = Null /\ pc'[t] = "answer" /\ Ended(t)
    BY <1>5, EndsHolder, EndsStep
  <2>2. u # t
    BY <1>1, <2>1 DEF Getting
  <2>3. Doing(k)' = {}
    <3>1. {w \in Threads : mutex' = w /\ req'[w].key = k} = {}
      BY <2>1, ThreadsNotNull
    <3>2. QED
      BY <3>1 DEF Doing
  <2>4. /\ Value(list', req[t].key) = IF req[t].op = "put" THEN req[t].value ELSE Absent
        /\ \A o : o # req[t].key => Value(list', o) = Value(list, o)
    BY <1>2, <1>3, <2>1, ValueEnded
  <2>5. Value(list', k) \in {Value(list, k)} \cup Doing(k)
    <3>1. CASE k = req[t].key
      BY <2>1, <2>4, <3>1, DoingHolder
    <3>2. CASE k # req[t].key
      BY <2>4, <3>2
    <3>3. QED
      BY <3>1, <3>2
  <2>6. QED
    BY <1>4, <2>2, <2>3, <2>5
<1>6. CASE Goes(t) /\ mutex' = mutex
  <2>1. list' = list /\ \A o : Doing(o)' = Doing(o)
    BY <1>6, GoesStep, DoingStays
  <2>2. CASE u # t
    BY <1>4, <2>1, <2>2
  <2>3. CASE u = t
    <3>1. Request(t) \/ Read(t)
      BY <1>1, <2>3, ReadingFrom DEF Getting, Reading
    <3>2. CASE Request(t)
      <4>1. PICK op \in Asks(t), ky \in Keys, v \in Values :
              /\ req' = [req EXCEPT ![t] =
                   [op |-> op, key |-> IF op \in {"put", "get", "del"} THEN ky ELSE Null,
                    value |-> IF op = "put" THEN v ELSE Absent]]
              /\ seen' = [seen EXCEPT ![t] =
                   IF op = "get" THEN {Value(list, ky)} \cup Doing(ky) ELSE {}]
        BY <3>2 DEF Request
      <4>2. /\ req'[t] = [op |-> op, key |-> IF op \in {"put", "get", "del"} THEN ky ELSE Null,
                          value |-> IF op = "put" THEN v ELSE Absent]
            /\ seen'[t] = IF op = "get" THEN {Value(list, ky)} \cup Doing(ky) ELSE {}
        BY <1>3, <4>1 DEF Locals
      <4>3. op = "get" /\ req'[t].key = ky
        BY <1>1, <2>3, <4>2
      <4>4. ky = k
        BY <1>1, <2>3, <4>3
      <4>5. seen'[t] = {Value(list, k)} \cup Doing(k)
        BY <4>2, <4>3, <4>4
      <4>6. Doing(k)' = Doing(k) /\ Value(list', k) = Value(list, k)
        BY <2>1
      <4>7. QED
        BY <2>3, <4>5, <4>6
    <3>3. CASE Read(t)
      <4>1. req' = req /\ pc[t] \in Reading
        BY <3>3, ReadFrame
      <4>2. pc[t] \in Getting
        BY <1>1, <1>3, <2>3, <4>1 DEF Reading, Getting, Serves, Counting
      <4>3. seen[t] \subseteq seen'[t]
        BY <4>1, SeenGrows
      <4>4. QED
        BY <1>1, <2>1, <2>3, <4>1, <4>2, <4>3 DEF Remembers
    <3>4. QED
      BY <3>1, <3>2, <3>3
  <2>4. QED
    BY <2>2, <2>3
<1>7. CASE Goes(t) /\ (LockAdd(t) \/ LockRemove(t)) /\ mutex = Null /\ mutex' = t
  <2>1. /\ Lock(t) /\ UNCHANGED <<req, list>>
        /\ pc'[t] \in Writing /\ req[t].op \in {"put", "del"}
    BY <1>3, <1>7 DEF LockAdd, LockRemove, Goto, TypeOK, Writing, Serves
  <2>2. u # t
    BY <1>1, <2>1 DEF Writing, Getting
  <2>3. seen'[u] = IF req[u].op = "get" /\ req[u].key = req[t].key
                   THEN seen[u] \cup {req[t].value} ELSE seen[u]
    BY <2>1 DEF Lock
  <2>4. Doing(k)' \subseteq IF k = req[t].key THEN {req[t].value} ELSE {}
    <3>1. {w \in Threads : mutex' = w /\ req'[w].key = k} \subseteq
            IF k = req[t].key THEN {t} ELSE {}
      BY <1>7, <2>1
    <3>2. (IF req'[t].op = "put" THEN req'[t].value ELSE Absent) = req[t].value
      BY <1>3, <2>1
    <3>3. \A x \in Doing(k)' : k = req[t].key /\ x = req[t].value
      <4>1. SUFFICES ASSUME NEW w \in {w \in Threads : mutex' = w /\ req'[w].key = k}
                     PROVE  /\ k = req[t].key
                            /\ (IF req'[w].op = "put" THEN req'[w].value ELSE Absent) = req[t].value
        BY <2>1, <2>2, <1>4 DEF Doing
      <4>2. QED
        BY <3>1, <3>2
    <3>4. QED
      BY <3>3
  <2>5. QED
    BY <1>4, <2>1, <2>2, <2>3, <2>4
<1>8. QED
  BY <1>5, <1>6, <1>7, GoesMutex

\* A get answers with an entry that it has found, or that there is none.
LEMMA GetAnswers ==
  ASSUME Inv, Locals, NEW t \in Threads, Ends(t) \/ Goes(t),
         pc'[t] = "answer", req'[t].op = "get"
  PROVE  /\ \/ res'[t] = <<Absent>>
            \/ /\ pc[t] = "copy" /\ HasEntry(cur[t])
               /\ res'[t] = <<entry[cur[t]].value>>
         /\ UNCHANGED <<req, seen>> /\ req[t].op = "get" /\ pc[t] \in Getting
<1>1. TypeOK /\ Serves(req[t].op, pc[t]) /\ req = [w \in Threads |-> req[w]]
  BY DEF Inv, Shared, Asked
<1> USE DEF Goto, Undefined, TypeOK
<1>2. ~Ends(t)
  <2>1. SUFFICES ASSUME Ends(t) PROVE FALSE
    OBVIOUS
  <2>2. req' = req /\ (req[t].op = "put" \/ req[t].op = "del")
    BY <2>1, EndsHolder
  <2>3. QED
    BY <2>2
<1>3. ~(Request(t) \/ Answer(t))
  BY <1>1 DEF Request, Answer, Asks, FirstStep
<1>4. ~(LockAdd(t) \/ AddCompare(t) \/ AddFirst(t) \/ Push(t) \/ PushLink(t)
           \/ Insert(t) \/ InsertLink(t) \/ AddLast(t) \/ Replace(t))
  BY <1>1 DEF LockAdd, AddCompare, AddFirst, Push, PushLink, Insert, InsertLink, AddLast, Replace
<1>5. ~(LockRemove(t) \/ (RemoveCompare(t) /\ cur[t] # Null) \/ Unlink(t) \/ RemoveDestroy(t))
  BY <1>1 DEF LockRemove, RemoveCompare, Unlink, RemoveDestroy
<1>6. Read(t)
  BY <1>2, <1>3, <1>4, <1>5 DEF Goes
<1>7. req' = req /\ pc[t] \in Reading /\ req[t].op = "get"
  BY <1>6, ReadFrame
<1>8. pc[t] \in Getting
  BY <1>1, <1>7 DEF Serves, Reading, Getting, Counting
<1>9. GetCompare(t) \/ GetCopy(t)
  BY <1>1, <1>6, <1>8 DEF Read, GetBegin, GetNext, Size, KeysCount,
                          KeysTest, KeysTestSize, KeysTestHead, KeysAlloc, KeysHead,
              KeysCompare, KeysNext, KeysCopy, KeysAgain, Advance, Getting
<1>10. ASSUME NEW v, GetReturns(t, v) PROVE res'[t] = <<v>> /\ seen' = seen
  BY <1>7, <1>10 DEF GetReturns, Answers, past, Locals
<1>11. QED
  BY <1>1, <1>7, <1>8, <1>9, <1>10 DEF GetCompare, GetCopy

LEMMA GetReturnsWrittenStep ==
  ASSUME UnitOrder, Inv, Locals, Places, Sorted, Remembers, GetReturnsWritten,
         NEW t \in Threads, Ends(t) \/ Goes(t)
  PROVE  GetReturnsWritten'
<1>1. SUFFICES ASSUME NEW u \in Threads, pc'[u] = "answer", req'[u].op = "get"
               PROVE  Range(res'[u]) \subseteq seen'[u] \cup {Absent}
  BY DEF GetReturnsWritten
<1>2. CASE u # t
  <2>1. pc'[u] = pc[u] /\ req'[u] = req[u] /\ res'[u] = res[u] /\ seen[u] \subseteq seen'[u]
    BY <1>2, StepFrame, SeenGrows DEF Stays
  <2>2. QED
    BY <1>1, <2>1 DEF GetReturnsWritten
<1>3. CASE u = t
  <2>1. /\ \/ res'[t] = <<Absent>>
           \/ /\ pc[t] = "copy" /\ HasEntry(cur[t])
              /\ res'[t] = <<entry[cur[t]].value>>
        /\ UNCHANGED <<req, seen>> /\ req[t].op = "get" /\ pc[t] \in Getting
    BY <1>1, <1>3, GetAnswers
  <2>2. CASE res'[t] = <<Absent>>
    BY <1>3, <2>2 DEF Range
  <2>3. CASE pc[t] = "copy" /\ HasEntry(cur[t]) /\ res'[t] = <<entry[cur[t]].value>>
    <3>1. Freed \notin live /\ cur[t] # Freed
      BY <2>3, NodesAssumption DEF HasEntry, Inv, Shared, TypeOK
    <3>2. entry[cur[t]].key = req[t].key
      BY <2>1, <2>3, <3>1 DEF Places, Copying, Wanted
    <3>3. entry[cur[t]].value \in seen[t]
      BY <2>1, <2>3, <3>2, EntryValue DEF Places, Remembers
    <3>4. QED
      BY <1>3, <2>1, <2>3, <3>3 DEF Range
  <2>4. QED
    BY <2>1, <2>2, <2>3
<1>4. QED
  BY <1>2, <1>3

-----------------------------------------------------------------------------
(* Readers *)

Readable == Locals /\ Places /\ Sorted

LEMMA ReadableInit == Init => Readable /\ Remembers /\ GetReturnsWritten
<1> SUFFICES ASSUME Init PROVE Readable /\ Remembers /\ GetReturnsWritten
  OBVIOUS
<1> USE DEF Init
<1>1. Locals
  BY DEF Locals
<1>2. Places
  BY DEF Places, Pointing, Copying, Destroyed, Unlinked
<1>3. Sorted
  BY DEF Sorted
<1>4. Remembers /\ GetReturnsWritten
  BY DEF Remembers, GetReturnsWritten, Getting
<1>5. QED
  BY <1>1, <1>2, <1>3, <1>4 DEF Readable

LEMMA ReadableStep ==
  ASSUME UnitOrder, Inv, Readable, NEW t \in Threads, Ends(t) \/ Goes(t)
  PROVE  Readable'
<1>1. Locals' /\ Places'
  BY StepFrame, PlacesStep DEF Readable
<1>2. CASE Ends(t)
  <2>1. Inv' /\ Ended(t) /\ (req[t].op = "put" => req[t].key \in Keys)
    BY <1>2, EndsStep DEF Inv, Shared, Asked
  <2>2. QED
    BY <1>1, <2>1, SortedStep DEF Readable
<1>3. CASE Goes(t)
  <2>1. list' = list /\ Inv'
    BY <1>3, GoesStep
  <2>2. size' = size
    <3>1. size = Len(list) /\ size' = Len(list')
      BY <2>1 DEF Inv, Shared, TypeOK
    <3>2. QED
      BY <2>1, <3>1
  <2>3. QED
    BY <1>1, <2>1, <2>2 DEF Readable, Sorted
<1>4. QED
  BY <1>2, <1>3

LEMMA ReadersStutter ==
  ASSUME UNCHANGED vars
  PROVE  /\ Readable => Readable'
         /\ Remembers => Remembers'
         /\ GetReturnsWritten => GetReturnsWritten'
<1>1. UNCHANGED <<head, size, next, prev, entry, live, mutex, pc, req, cur, new, cap, keys, res,
                  list, seen, calm>>
  BY DEF vars, heap, local, past
<1>2. Readable => Readable'
  BY <1>1 DEF Readable, Locals, Places, Pointing, Copying, Destroyed, Sorted, HasEntry, Wanted
<1>3. Remembers => Remembers'
  BY <1>1 DEF Remembers, Doing
<1>4. QED
  BY <1>1, <1>2, <1>3 DEF GetReturnsWritten

LEMMA RememberedAlways ==
  ASSUME UnitOrder
  PROVE  Spec => [](Inv /\ Readable /\ Remembers /\ GetReturnsWritten)
<1> DEFINE I == Inv /\ Readable /\ Remembers /\ GetReturnsWritten
<1>1. Init => I
  BY InitInv, ReadableInit
<1>2. I /\ [Next]_vars => I'
  <2> SUFFICES ASSUME I, [Next]_vars PROVE I'
    OBVIOUS
  <2>1. CASE Next
    <3>1. PICK t \in Threads : Ends(t) \/ Goes(t)
      BY <2>1, NextSplits
    <3>2. Inv' /\ Readable'
      BY <3>1, StepInv, ReadableStep
    <3>3. Remembers'
      BY <3>1, <3>2, RemembersStep DEF Readable
    <3>4. GetReturnsWritten'
      BY <3>1, GetReturnsWrittenStep DEF Readable
    <3>5. QED
      BY <3>2, <3>3, <3>4
  <2>2. CASE UNCHANGED vars
    BY <2>2, StepInv, ReadersStutter
  <2>3. QED
    BY <2>1, <2>2
<1>3. QED
  BY <1>1, <1>2, PTL DEF Spec

\* With a strcmp in -1..1, for any number of threads and nodes: what a GET
\* answers without the mutex is a value that its key had in the table since the
\* request came, or that a put of that time was about to write, or that there is
\* none (table_get, list_get, block_duplicate).
THEOREM GetReturnsWrittenAlways ==
  ASSUME UnitOrder
  PROVE  Spec => []GetReturnsWritten
<1>1. Spec => [](Inv /\ Readable /\ Remembers /\ GetReturnsWritten)
  BY RememberedAlways
<1>2. QED
  BY <1>1, PTL

-----------------------------------------------------------------------------
(* What an operation answers when nobody else writes *)

\* Who is calm knows that nobody else holds the mutex.
CalmMutex == \A t \in Threads : calm[t] => mutex \in {Null, t}

\* A request finds nothing of the one before.
Rested == \A t \in Threads : pc[t] = "idle" => keys[t] = <<>> /\ res[t] = <<>>

\* The first m keys and values of the list.
Copied(m) == [j \in 1..m |-> list[j].key]
Packed(m) == [j \in 1..m |-> list[j].value]

\* The i-th place of a walk, the last of which is behind the list.
Place(t, i) == cur[t] = IF i <= size THEN Chained(head, next)[i] ELSE Null

Passed(t, i) == \A j \in 1..(i - 1) : list[j].key # Wanted(t)

\* table_get of a thread that nobody disturbs.
Looking(t) ==
  /\ pc[t] = "walk" => \E i \in 1..(size + 1) : Passed(t, i) /\ Place(t, i)
  /\ pc[t] = "next" => \E i \in 1..size : Passed(t, i + 1) /\ Place(t, i)
  /\ pc[t] = "copy" => \E i \in 1..size : list[i].key = Wanted(t) /\ Place(t, i)

\* table_get_keys, and the look-ups of GETTABLE.
Gathering(t) ==
  /\ pc[t] = "count" => keys[t] = <<>>
  /\ pc[t] \in Counting \ {"count"} => size > 0 /\ cap[t][1] = size
  /\ pc[t] \in Counting => res[t] = <<>>
  /\ pc[t] \in {"lempty", "lhead", "lsize"} => keys[t] = <<>> /\ cap[t] = <<size, 0>>
  /\ pc[t] = "khead" => keys[t] = <<>>
  /\ pc[t] \in {"khead", "kwalk", "knext"} => cap[t][2] = size
  /\ pc[t] = "kwalk" => \E i \in 1..(size + 1) : keys[t] = Copied(i - 1) /\ Place(t, i)
  /\ pc[t] = "knext" => \E i \in 1..size : keys[t] = Copied(i) /\ Place(t, i)
  /\ pc[t] \in {"copykeys", "nkeys"} => keys[t] = Copied(size)
  /\ pc[t] \in Getting /\ req[t].op = "gettable" =>
       /\ size > 0 /\ cap[t][1] = size /\ keys[t] = Copied(size)
       /\ \E m \in 0..(size - 1) : res[t] = Packed(m)

Quiet(t) == /\ pc[t] # "undefined" /\ Looking(t) /\ Gathering(t)
            /\ pc[t] = "answer" => Exact(t)

Undisturbed == \A t \in Threads : calm[t] /\ pc[t] \notin Writing => Quiet(t)

Calmness == CalmMutex /\ Rested /\ Undisturbed

LEMMA Extended ==
  ASSUME NEW S, NEW m \in Nat, NEW s \in [1..m -> S], NEW r \in [1..(m + 1) -> S],
         \A j \in 1..m : r[j] = s[j]
  PROVE  Append(s, r[m + 1]) = r
<1>1. s \in Seq(S) /\ r \in Seq(S) /\ Len(s) = m /\ Len(r) = m + 1 /\ r[m + 1] \in S
  OBVIOUS
<1> DEFINE e == r[m + 1]
           p == Append(s, e)
<1>2. s \in Seq(S) /\ e \in S
  BY <1>1
<1>3. /\ Append(s, e) \in Seq(S) /\ Len(Append(s, e)) = Len(s) + 1
      /\ \A i \in 1..Len(s) : Append(s, e)[i] = s[i]
      /\ Append(s, e)[Len(s) + 1] = e
  BY ONLY <1>2, AppendProperties
<1> HIDE DEF p
<1>4. p \in Seq(S) /\ Len(p) = Len(r) /\ \A i \in 1..Len(p) : p[i] = r[i]
  BY <1>1, <1>3 DEF p
<1>5. p = r
  BY <1>1, <1>4, SeqEqual
<1>6. QED
  BY <1>5 DEF p

\* What a thread sees when nobody holds the mutex.
LEMMA QuietHeap ==
  ASSUME Inv, mutex = Null
  PROVE  \E c \in [1..size -> Nodes] :
           /\ Chained(head, next) = c /\ size \in Nat /\ list \in [1..size -> Entries]
           /\ head = IF 1 <= size THEN c[1] ELSE Null
           /\ \A j \in 1..size :
                /\ c[j] \in live /\ c[j] # Null
                /\ HasEntry(c[j]) /\ entry[c[j]] = list[j] /\ list[j].key \in Keys
                /\ next[c[j]] = IF j + 1 <= size THEN c[j + 1] ELSE Null
<1>1. PICK c \in [1..size -> Nodes] : IsInjective(c) /\ Settled(c)
  BY DEF Inv, Shape
<1>2. size \in Nat /\ list \in [1..size -> Entries] /\ Null \notin Nodes /\ Freed \notin Entries
  BY NodesAssumption DEF Inv, Shared, TypeOK, Entries
<1>3. /\ head = IF size = 0 THEN Null ELSE c[1]
      /\ \A j \in 1..size : next[c[j]] = IF j = size THEN Null ELSE c[j + 1]
  BY <1>1 DEF Settled, Strung
<1>4. Chained(head, next) = c
  <2>1. size \in Nat
    BY <1>2
  <2>2. head = IF size = 0 THEN Null ELSE c[1]
    BY <1>3
  <2>3. \A j \in 1..size : next[c[j]] = IF j = size THEN Null ELSE c[j + 1]
    BY <1>3
  <2>4. QED
    BY ONLY <1>1, <2>1, <2>2, <2>3, ChainIsWalked
<1>5. \A j \in 1..size : c[j] \in live /\ entry[c[j]] = list[j]
  BY <1>1 DEF Settled, Range
<1>6. \A j \in 1..size : HasEntry(c[j]) /\ list[j].key \in Keys
  BY <1>2, <1>5 DEF HasEntry, Entries
<1>7. \A j \in 1..size : next[c[j]] = IF j + 1 <= size THEN c[j + 1] ELSE Null
  BY <1>2, <1>3
<1>8. head = IF 1 <= size THEN c[1] ELSE Null
  BY <1>2, <1>3
<1>9. QED
  BY <1>1, <1>2, <1>4, <1>5, <1>6, <1>7, <1>8

\* Others who do not take the mutex leave a quiet thread as it is.
LEMMA QuietStays ==
  ASSUME UNCHANGED <<heap, list>>, NEW t \in Threads, Stays(t), cur'[t] = cur[t], Quiet(t)
  PROVE  Quiet(t)'
<1>1. UNCHANGED <<head, size, next, list>>
  BY DEF heap
<1>2. Exact(t) => Exact(t)'
  BY <1>1 DEF Exact, Stays
<1>3. Wanted(t)' = Wanted(t)
  BY DEF Wanted, Stays
<1>4. \A i : (Passed(t, i)' <=> Passed(t, i)) /\ (Place(t, i)' <=> Place(t, i))
  BY <1>1, <1>3 DEF Passed, Place
<1>5. \A m : Copied(m)' = Copied(m) /\ Packed(m)' = Packed(m)
  BY <1>1 DEF Copied, Packed
<1>6. pc'[t] = pc[t] /\ req'[t] = req[t] /\ cap'[t] = cap[t] /\ keys'[t] = keys[t] /\ res'[t] = res[t]
  BY DEF Stays
<1>7. Looking(t) => Looking(t)'
  BY <1>1, <1>3, <1>4, <1>6 DEF Looking
<1>8. Gathering(t) => Gathering(t)'
  BY <1>1, <1>4, <1>5, <1>6 DEF Gathering
<1>9. QED
  BY <1>2, <1>6, <1>7, <1>8 DEF Quiet

\* What a GET, a DEL that checks, and a look-up of GETTABLE get from table_get is
\* exact.
LEMMA ReturnsQuiet ==
  ASSUME UnitOrder, Inv, Locals, Sorted, NEW t \in Threads, pc[t] \in Getting, Gathering(t),
         NEW v, v = Value(list, Wanted(t)), GetReturns(t, v)
  PROVE  Quiet(t)'
<1>1. /\ size \in Nat /\ list \in [1..size -> Entries] /\ TypeOK
      /\ req[t].op \in {"get", "del", "gettable"} /\ UNCHANGED <<heap, list, req, keys, cap>>
  BY DEF Inv, Shared, TypeOK, Asked, Serves, GetReturns, past
<1>2. size' = size /\ Len(list) = size
  BY <1>1 DEF heap
<1>3. \A m : Copied(m)' = Copied(m) /\ Packed(m)' = Packed(m)
  BY <1>1 DEF Copied, Packed
<1>4. ASSUME pc'[t] = "answer", Exact(t)' PROVE Quiet(t)'
  BY <1>4 DEF Quiet, Looking, Gathering, Counting, Getting
<1>5. CASE req[t].op = "get"
  <2>1. pc'[t] = "answer" /\ res'[t] = <<v>>
    BY <1>1, <1>5 DEF GetReturns, Answers, TypeOK, Locals
  <2>2. Exact(t)'
    BY <1>1, <1>5, <2>1 DEF Exact, Wanted
  <2>3. QED
    BY <1>4, <2>1, <2>2
<1>6. CASE req[t].op = "del"
  <2>1. CASE v = Absent
    <3>1. pc'[t] = "answer"
      BY <1>1, <1>6, <2>1 DEF GetReturns, Answers, TypeOK
    <3>2. Exact(t)'
      BY <1>1, <1>6, <2>1 DEF Exact, Wanted
    <3>3. QED
      BY <1>4, <3>1, <3>2
  <2>2. CASE v # Absent
    <3>1. pc'[t] = "del"
      BY <1>1, <1>6, <2>2 DEF GetReturns, TypeOK
    <3>2. QED
      BY <3>1 DEF Quiet, Looking, Gathering, Counting, Getting
  <2>3. QED
    BY <2>1, <2>2
<1>7. CASE req[t].op = "gettable"
  <2>1. PICK m \in 0..(size - 1) : res[t] = Packed(m)
    BY <1>7 DEF Gathering
  <2>2. size > 0 /\ cap[t][1] = size /\ keys[t] = Copied(size)
    BY <1>7 DEF Gathering
  <2>3. m \in Nat /\ m + 1 \in 1..size /\ Len(res[t]) = m
    BY <1>1, <2>1 DEF Packed
  <2>4. Wanted(t) = list[m + 1].key
    BY <1>7, <2>2, <2>3 DEF Wanted, Copied
  <2>5. v = list[m + 1].value
    BY <2>3, <2>4, SortedDistinct, ValueFound
  <2>6. v \in Values /\ v # Absent
    BY <1>1, <2>3, <2>5, NodesAssumption DEF Entries
  <2>7. Append(res[t], v) = Packed(m + 1)
    <3> DEFINE r == Packed(m + 1)
               s == Packed(m)
    <3>1. \A j \in 1..(m + 1) : list[j].value \in Values
      BY <1>1, <2>3 DEF Entries
    <3>2. r \in [1..(m + 1) -> Values] /\ s \in [1..m -> Values]
      BY <2>3, <3>1 DEF Packed
    <3>3. (\A j \in 1..m : r[j] = s[j]) /\ r[m + 1] = v
      BY <2>3, <2>5 DEF Packed
    <3> HIDE DEF r, s
    <3>4. Append(s, r[m + 1]) = r
      BY ONLY <2>3, <3>2, <3>3, Extended
    <3>5. QED
      BY <2>1, <3>3, <3>4 DEF r, s
  <2>8. /\ res'[t] = Packed(m + 1)
        /\ pc'[t] = IF m + 1 = size THEN "answer" ELSE "get"
    BY <1>1, <1>7, <2>2, <2>3, <2>6, <2>7 DEF GetReturns, Locals, TypeOK
  <2>9. CASE m + 1 = size
    <3>1. list # <<>>
      BY <1>2, <2>2
    <3>2. Packed(size) = [i \in 1..Len(list) |-> list[i].value]
      BY <1>2 DEF Packed
    <3>3. Exact(t)'
      BY <1>1, <1>7, <2>8, <2>9, <3>1, <3>2 DEF Exact
    <3>4. QED
      BY <1>4, <2>8, <2>9, <3>3
  <2>10. CASE m + 1 # size
    <3>1. m + 1 \in 0..(size - 1) /\ pc'[t] = "get"
      BY <1>1, <2>3, <2>8, <2>10
    <3>2. Looking(t)'
      BY <3>1 DEF Looking
    <3>3. Gathering(t)'
      BY <1>1, <1>2, <1>3, <1>7, <2>2, <2>8, <3>1 DEF Gathering, Counting, Getting
    <3>4. QED
      BY <3>1, <3>2, <3>3 DEF Quiet
  <2>11. QED
    BY <2>9, <2>10
<1>8. QED
  BY <1>1, <1>5, <1>6, <1>7

LEMMA LookingStep ==
  ASSUME UnitOrder, Inv, Locals, Sorted, mutex = Null, NEW t \in Threads, Quiet(t),
         GetBegin(t) \/ GetCompare(t) \/ GetNext(t) \/ GetCopy(t)
  PROVE  Quiet(t)'
<1>1. PICK c \in [1..size -> Nodes] :
           /\ Chained(head, next) = c /\ size \in Nat /\ list \in [1..size -> Entries]
           /\ head = IF 1 <= size THEN c[1] ELSE Null
           /\ \A j \in 1..size :
                /\ c[j] \in live /\ c[j] # Null
                /\ HasEntry(c[j]) /\ entry[c[j]] = list[j] /\ list[j].key \in Keys
                /\ next[c[j]] = IF j + 1 <= size THEN c[j + 1] ELSE Null
  BY QuietHeap
<1>2. /\ UNCHANGED <<heap, list, req>> /\ TypeOK /\ Null \notin live
      /\ Looking(t) /\ Gathering(t) /\ pc[t] \in Getting
  <2>1. Read(t)
    BY DEF Read
  <2>2. TypeOK /\ Null \notin live
    BY NodesAssumption DEF Inv, Shared, TypeOK
  <2>3. pc[t] \in Getting
    BY DEF GetBegin, GetCompare, GetNext, GetCopy, Advance, Getting
  <2>4. QED
    BY <2>1, <2>2, <2>3, ReadFrame DEF Quiet
<1>3. UNCHANGED <<head, size, next, list>> /\ \A m : Copied(m)' = Copied(m) /\ Packed(m)' = Packed(m)
  BY <1>2 DEF Copied, Packed, heap
<1>4. \A i : (Place(t, i)' <=> cur'[t] = IF i <= size THEN c[i] ELSE Null)
  BY <1>1, <1>3 DEF Place
<1>5. \A i : (Place(t, i) <=> cur[t] = IF i <= size THEN c[i] ELSE Null)
  BY <1>1 DEF Place
\* A step of the walk itself.
<1>6. ASSUME UNCHANGED <<keys, res, cap>>, pc'[t] \in Getting, Looking(t)'
      PROVE  Quiet(t)'
  <2>1. Gathering(t)'
    BY <1>2, <1>3, <1>6 DEF Gathering, Counting, Getting
  <2>2. QED
    BY <1>6, <2>1 DEF Quiet, Getting
<1>7. UNCHANGED <<keys, res>> => \A i : Passed(t, i)' <=> Passed(t, i)
  BY <1>2, <1>3 DEF Passed, Wanted
<1>8. UNCHANGED <<keys, res>> => Wanted(t)' = Wanted(t)
  BY <1>2 DEF Wanted
<1>9. CASE GetBegin(t)
  <2>1. ~(req[t].op = "gettable" /\ Len(res[t]) = Len(keys[t]))
    <3>1. SUFFICES ASSUME req[t].op = "gettable" PROVE Len(res[t]) # Len(keys[t])
      OBVIOUS
    <3>2. keys[t] = Copied(size) /\ \E m \in 0..(size - 1) : res[t] = Packed(m)
      BY <1>2, <3>1 DEF Gathering
    <3>3. Len(Copied(size)) = size /\ \A m \in 0..(size - 1) : Len(Packed(m)) = m
      BY <1>1 DEF Copied, Packed
    <3>4. QED
      BY <1>1, <3>2, <3>3
  <2>2. pc'[t] = "walk" /\ cur'[t] = head /\ UNCHANGED <<keys, res, cap>>
    BY <1>2, <1>9, <2>1 DEF GetBegin, Goto, TypeOK
  <2>3. Passed(t, 1)' /\ Place(t, 1)' /\ 1 \in 1..(size' + 1)
    BY <1>1, <1>3, <1>4, <2>2 DEF Passed
  <2>4. Looking(t)'
    BY <2>2, <2>3 DEF Looking
  <2>5. QED
    BY <1>6, <2>2, <2>4 DEF Getting
<1>10. CASE GetCompare(t)
  <2>1. PICK i \in 1..(size + 1) : Passed(t, i) /\ Place(t, i)
    BY <1>2, <1>10 DEF GetCompare, Looking
  <2>2. CASE i = size + 1
    <3>1. cur[t] = Null
      BY <1>1, <1>5, <2>1, <2>2
    <3>2. \A j \in 1..size : list[j].key # Wanted(t)
      BY <1>1, <2>1, <2>2 DEF Passed
    <3>3. Value(list, Wanted(t)) = Absent
      BY <1>1, <3>2, ValueMissing
    <3>4. GetReturns(t, Absent)
      BY <1>2, <1>10, <3>1 DEF GetCompare, HasEntry
    <3>5. QED
      BY <1>2, <3>3, <3>4, ReturnsQuiet
  <2>3. CASE i # size + 1
    <3>1. i \in 1..size /\ cur[t] = c[i] /\ cur[t] # Null /\ HasEntry(cur[t]) /\ entry[cur[t]] = list[i]
      BY <1>1, <1>5, <2>1, <2>3
    <3>2. /\ pc' = [pc EXCEPT ![t] = IF list[i].key = Wanted(t) THEN "copy" ELSE "next"]
          /\ UNCHANGED <<cur, keys, res, cap>>
      BY <1>10, <3>1 DEF GetCompare, Goto, local
    <3>3. Place(t, i)'
      BY <1>3, <1>4, <1>5, <2>1, <3>2
    <3>4. CASE list[i].key = Wanted(t)
      <4>1. pc'[t] = "copy"
        BY <1>2, <3>2, <3>4 DEF TypeOK
      <4>2. list'[i].key = Wanted(t)' /\ i \in 1..size'
        BY <1>3, <1>8, <3>1, <3>2, <3>4
      <4>3. Looking(t)'
        BY <3>3, <4>1, <4>2 DEF Looking
      <4>4. QED
        BY <1>6, <3>2, <4>1, <4>3 DEF Getting
    <3>5. CASE list[i].key # Wanted(t)
      <4>1. pc'[t] = "next"
        BY <1>2, <3>2, <3>5 DEF TypeOK
      <4>2. Passed(t, i + 1)
        BY <1>1, <2>1, <3>1, <3>5 DEF Passed
      <4>3. Passed(t, i + 1)' /\ i \in 1..size'
        BY <1>3, <1>7, <3>1, <3>2, <4>2
      <4>4. Looking(t)'
        BY <3>3, <4>1, <4>3 DEF Looking
      <4>5. QED
        BY <1>6, <3>2, <4>1, <4>4 DEF Getting
    <3>6. QED
      BY <3>4, <3>5
  <2>4. QED
    BY <2>2, <2>3
<1>11. CASE GetNext(t)
  <2>1. PICK i \in 1..size : Passed(t, i + 1) /\ Place(t, i)
    BY <1>2, <1>11 DEF GetNext, Advance, Looking
  <2>2. cur[t] = c[i] /\ cur[t] \in live
    BY <1>1, <1>5, <2>1
  <2>3. pc'[t] = "walk" /\ cur'[t] = next[c[i]] /\ UNCHANGED <<keys, res, cap>>
    BY <1>2, <1>11, <2>2 DEF GetNext, Advance, Goto, TypeOK
  <2>4. Place(t, i + 1)'
    BY <1>1, <1>4, <2>1, <2>3
  <2>5. Passed(t, i + 1)' /\ i + 1 \in 1..(size' + 1)
    BY <1>1, <1>3, <1>7, <2>1, <2>3
  <2>6. Looking(t)'
    BY <2>3, <2>4, <2>5 DEF Looking
  <2>7. QED
    BY <1>6, <2>3, <2>6 DEF Getting
<1>12. CASE GetCopy(t)
  <2>1. PICK i \in 1..size : list[i].key = Wanted(t) /\ Place(t, i)
    BY <1>2, <1>12 DEF GetCopy, Looking
  <2>2. HasEntry(cur[t]) /\ entry[cur[t]] = list[i]
    BY <1>1, <1>5, <2>1
  <2>3. list[i].value = Value(list, Wanted(t))
    BY <2>1, SortedDistinct, ValueFound
  <2>4. GetReturns(t, list[i].value)
    BY <1>12, <2>2 DEF GetCopy
  <2>5. QED
    BY <1>2, <2>3, <2>4, ReturnsQuiet
<1>13. QED
  BY <1>9, <1>10, <1>11, <1>12

LEMMA GatheringStep ==
  ASSUME Inv, Locals, mutex = Null, NEW t \in Threads, Quiet(t),
         \/ Size(t) \/ KeysCount(t)
         \/ KeysTestSize(t) \/ KeysTestHead(t) \/ KeysAlloc(t) \/ KeysHead(t) \/ KeysCompare(t)
         \/ KeysNext(t) \/ KeysCopy(t) \/ KeysAgain(t)
  PROVE  Quiet(t)'
<1>1. PICK c \in [1..size -> Nodes] :
           /\ Chained(head, next) = c /\ size \in Nat /\ list \in [1..size -> Entries]
           /\ head = IF 1 <= size THEN c[1] ELSE Null
           /\ \A j \in 1..size :
                /\ c[j] \in live /\ c[j] # Null
                /\ HasEntry(c[j]) /\ entry[c[j]] = list[j] /\ list[j].key \in Keys
                /\ next[c[j]] = IF j + 1 <= size THEN c[j + 1] ELSE Null
  BY QuietHeap
<1>2. /\ UNCHANGED <<heap, list, req>> /\ TypeOK /\ Null \notin live
      /\ Gathering(t) /\ Serves(req[t].op, pc[t]) /\ Null \notin Seq(Keys)
  <2>1. Read(t)
    BY DEF Read
  <2>2. TypeOK /\ Null \notin live /\ Serves(req[t].op, pc[t])
    BY NodesAssumption DEF Inv, Shared, TypeOK, Asked
  <2>3. QED
    BY <2>1, <2>2, ReadFrame, NodesAssumption DEF Quiet
<1>3. UNCHANGED <<head, size, next, list>> /\ \A m : Copied(m)' = Copied(m) /\ Packed(m)' = Packed(m)
  BY <1>2 DEF Copied, Packed, heap
<1>4. \A i : (Place(t, i)' <=> cur'[t] = IF i <= size THEN c[i] ELSE Null)
  BY <1>1, <1>3 DEF Place
<1>5. \A i : (Place(t, i) <=> cur[t] = IF i <= size THEN c[i] ELSE Null)
  BY <1>1 DEF Place
<1>6. Len(list) = size /\ (list = <<>> <=> size = 0)
  BY <1>1
<1>7. \A m \in 0..size : Copied(m) \in [1..m -> Keys] /\ Copied(m) \in Seq(Keys) /\ Len(Copied(m)) = m
  <2>1. SUFFICES ASSUME NEW m \in 0..size
                 PROVE  Copied(m) \in [1..m -> Keys] /\ Copied(m) \in Seq(Keys) /\ Len(Copied(m)) = m
    OBVIOUS
  <2>2. m \in Nat /\ \A j \in 1..m : list[j].key \in Keys
    BY <1>1
  <2>3. Copied(m) \in [1..m -> Keys]
    BY <2>2 DEF Copied
  <2>4. QED
    BY <2>2, <2>3
<1> USE <1>2 DEF TypeOK, Goto, Undefined, Serves, Getting, Counting
\* An answer, and a place of list_get_keys.
<1>8. ASSUME pc'[t] = "answer", Exact(t)' PROVE Quiet(t)'
  BY <1>8 DEF Quiet, Looking, Gathering
<1>9. ASSUME pc'[t] \in Counting, Gathering(t)' PROVE Quiet(t)'
  BY <1>9 DEF Quiet, Looking
<1>10. CASE Size(t)
  <2>1. pc'[t] = "answer" /\ req[t].op = "size"
    BY <1>10 DEF Size, Answers
  <2>2. Exact(t)'
    BY <1>3, <1>6, <2>1 DEF Exact
  <2>3. QED
    BY <1>8, <2>1, <2>2
<1>11. CASE KeysCount(t)
  <2>1. pc[t] = "count" /\ keys[t] = <<>> /\ res[t] = <<>> /\ req[t].op \in {"getkeys", "gettable"}
        /\ keys' = keys
    BY <1>11 DEF KeysCount, Gathering
  <2>2. CASE size <= 0
    <3>1. pc'[t] = "answer" /\ res'[t] = <<Absent>>
      BY <1>11, <2>2 DEF KeysCount, Answers, Locals
    <3>2. list' = <<>>
      BY <1>1, <1>3, <1>6, <2>2
    <3>3. Exact(t)'
      BY <2>1, <3>1, <3>2 DEF Exact
    <3>4. QED
      BY <1>8, <3>1, <3>3
  <2>3. CASE ~(size <= 0)
    <3>1. pc'[t] = "lempty" /\ cap'[t] = <<size, 0>> /\ res' = res
      BY <1>11, <2>3 DEF KeysCount, Locals
    <3>2. size > 0 /\ cap'[t][1] = size
      BY <1>1, <2>3, <3>1
    <3>3. Gathering(t)'
      BY <1>3, <2>1, <3>1, <3>2 DEF Gathering
    <3>4. QED
      BY <1>9, <3>1, <3>3
  <2>4. QED
    BY <2>2, <2>3
<1>11a. CASE KeysTestSize(t) \/ KeysTestHead(t)
  <2>1. pc[t] \in {"lempty", "lhead"} /\ UNCHANGED <<cap, res>>
    BY <1>11a DEF KeysTest, KeysTestSize, KeysTestHead
  <2>2. size > 0 /\ keys[t] = <<>> /\ res[t] = <<>> /\ cap[t] = <<size, 0>> /\ head # Null
    BY <1>1, <2>1 DEF Gathering
  <2>3. pc'[t] \in {"lhead", "lsize"} /\ keys'[t] = <<>>
    BY <1>1, <1>11a, <2>2 DEF KeysTest, KeysTestSize, KeysTestHead, Locals
  <2>4. Gathering(t)'
    BY <1>3, <2>1, <2>2, <2>3 DEF Gathering
  <2>5. QED
    BY <1>9, <2>3, <2>4
<1>12. CASE KeysAlloc(t)
  <2>1. pc[t] = "lsize"
    BY <1>12 DEF KeysAlloc
  <2>2. size > 0 /\ keys[t] = <<>> /\ res[t] = <<>> /\ cap[t] = <<size, 0>>
    BY <2>1 DEF Gathering
  <2>3. pc'[t] = "khead" /\ UNCHANGED <<keys, res>> /\ cap' = [cap EXCEPT ![t][2] = size]
    BY <1>1, <1>12, <2>2 DEF KeysAlloc
  <2>4. cap'[t][1] = size /\ cap'[t][2] = size
    BY <2>2, <2>3 DEF Locals
  <2>5. Gathering(t)'
    BY <1>3, <2>2, <2>3, <2>4 DEF Gathering
  <2>6. QED
    BY <1>9, <2>3, <2>5
<1>13. CASE KeysHead(t)
  <2>1. pc[t] = "khead"
    BY <1>13 DEF KeysHead
  <2>2. size > 0 /\ keys[t] = <<>> /\ res[t] = <<>> /\ cap[t][1] = size /\ cap[t][2] = size
    BY <2>1 DEF Gathering
  <2>3. head = c[1] /\ head # Null
    BY <1>1, <2>2
  <2>4. pc'[t] = "kwalk" /\ cur'[t] = head /\ UNCHANGED <<keys, res, cap>>
    BY <1>13, <2>3 DEF KeysHead
  <2>5. Place(t, 1)' /\ 1 \in 1..(size' + 1)
    BY <1>1, <1>3, <1>4, <2>2, <2>3, <2>4
  <2>6. Copied(1 - 1)' = <<>>
    BY <1>3 DEF Copied
  <2>7. Gathering(t)'
    BY <1>3, <2>2, <2>4, <2>5, <2>6 DEF Gathering
  <2>8. QED
    BY <1>9, <2>4, <2>7
<1>14. CASE KeysCompare(t)
  <2>1. pc[t] = "kwalk"
    BY <1>14 DEF KeysCompare
  <2>2. PICK i \in 1..(size + 1) : keys[t] = Copied(i - 1) /\ Place(t, i)
    BY <2>1 DEF Gathering
  <2>3. size > 0 /\ res[t] = <<>> /\ cap[t][1] = size /\ cap[t][2] = size
    BY <2>1 DEF Gathering
  <2>4. i - 1 \in 0..size /\ Len(keys[t]) = i - 1 /\ Len(keys[t]) <= cap[t][2]
    <3>1. size \in Nat /\ i \in 1..(size + 1) /\ cap[t][2] = size /\ keys[t] = Copied(i - 1)
      BY <1>1, <2>2, <2>3
    <3>2. i - 1 \in 0..size /\ i - 1 <= size
      BY ONLY <3>1
    <3>3. Len(keys[t]) = i - 1
      BY ONLY <1>7, <3>1, <3>2
    <3>4. QED
      BY ONLY <3>1, <3>2, <3>3
  <2>5. CASE i = size + 1
    <3>1. cur[t] = Null /\ i - 1 = size
      BY <1>1, <1>5, <2>2, <2>5
    <3>2. pc'[t] = "copykeys" /\ UNCHANGED <<keys, res, cap>>
      BY <1>1, <1>14, <2>3, <2>4, <3>1 DEF KeysCompare
    <3>3. Gathering(t)'
      BY <1>3, <2>2, <2>3, <3>1, <3>2 DEF Gathering
    <3>4. QED
      BY <1>9, <3>2, <3>3
  <2>6. CASE i # size + 1
    <3>1. i \in 1..size /\ cur[t] = c[i] /\ cur[t] # Null /\ HasEntry(cur[t]) /\ entry[cur[t]] = list[i]
      BY <1>1, <1>5, <2>2, <2>6
    <3>2. /\ pc'[t] = "knext" /\ UNCHANGED <<cur, res, cap>>
          /\ keys'[t] = Append(keys[t], list[i].key)
      BY <1>1, <1>14, <2>3, <2>4, <3>1 DEF KeysCompare, Locals
    <3>3. Append(Copied(i - 1), list[i].key) = Copied(i)
      <4> DEFINE r == Copied(i)
                 s == Copied(i - 1)
      <4>1. i \in 0..size /\ i - 1 \in Nat /\ i - 1 + 1 = i
        BY <1>1, <2>4, <3>1
      <4>2. r \in [1..(i - 1 + 1) -> Keys] /\ s \in [1..(i - 1) -> Keys]
        BY <1>7, <2>4, <4>1
      <4>3. (\A j \in 1..(i - 1) : r[j] = s[j]) /\ r[i - 1 + 1] = list[i].key
        BY <4>1 DEF Copied
      <4> HIDE DEF r, s
      <4>4. Append(s, r[i - 1 + 1]) = r
        BY ONLY <4>1, <4>2, <4>3, Extended
      <4>5. QED
        BY <4>3, <4>4 DEF r, s
    <3>4. Place(t, i)'
      BY <1>4, <3>1, <3>2
    <3>5. Gathering(t)'
      BY <1>3, <2>2, <2>3, <3>1, <3>2, <3>3, <3>4 DEF Gathering
    <3>6. QED
      BY <1>9, <3>2, <3>5
  <2>7. QED
    BY <2>5, <2>6
<1>15. CASE KeysNext(t)
  <2>1. pc[t] = "knext"
    BY <1>15 DEF KeysNext, Advance
  <2>2. PICK i \in 1..size : keys[t] = Copied(i) /\ Place(t, i)
    BY <2>1 DEF Gathering
  <2>3. size > 0 /\ res[t] = <<>> /\ cap[t][1] = size /\ cap[t][2] = size
    BY <2>1 DEF Gathering
  <2>4. i \in 1..size /\ i <= size /\ cur[t] = c[i] /\ cur[t] \in live
    BY ONLY <1>1, <1>5, <2>2
  <2>5. pc'[t] = "kwalk" /\ cur'[t] = next[c[i]] /\ UNCHANGED <<keys, res, cap>>
    BY <1>15, <2>4 DEF KeysNext, Advance
  <2>6. Place(t, i + 1)' /\ i + 1 \in 1..(size' + 1) /\ i + 1 - 1 = i
    BY ONLY <1>1, <1>3, <1>4, <2>4, <2>5
  <2>7. keys'[t] = Copied(i + 1 - 1)'
    BY <1>3, <2>2, <2>5, <2>6
  <2>8. Gathering(t)'
    BY <1>3, <2>3, <2>5, <2>6, <2>7 DEF Gathering
  <2>9. QED
    BY <1>9, <2>5, <2>8
<1>16. CASE KeysCopy(t)
  <2>1. pc[t] = "copykeys"
    BY <1>16 DEF KeysCopy
  <2>2. size > 0 /\ res[t] = <<>> /\ cap[t][1] = size /\ keys[t] = Copied(size)
    BY <2>1 DEF Gathering
  <2>3. keys[t] # Null /\ Len(keys[t]) = size
    BY <1>1, <1>7, <2>2
  <2>4. pc'[t] = "nkeys" /\ keys'[t] = keys[t] /\ UNCHANGED <<res, cap>>
    BY <1>1, <1>16, <2>2, <2>3 DEF KeysCopy, Locals
  <2>5. Gathering(t)'
    BY <1>3, <2>2, <2>4 DEF Gathering
  <2>6. QED
    BY <1>9, <2>4, <2>5
<1>17. CASE KeysAgain(t)
  <2>1. pc[t] = "nkeys" /\ req[t].op \in {"getkeys", "gettable"}
    BY <1>17 DEF KeysAgain
  <2>2. size > 0 /\ res[t] = <<>> /\ cap[t][1] = size /\ keys[t] = Copied(size)
    BY <2>1 DEF Gathering
  <2>3. Len(keys[t]) = size /\ cap'[t] = <<size, 0>> /\ keys' = keys
    BY <1>1, <1>7, <1>17, <2>2 DEF KeysAgain, Locals
  <2>4. cap'[t][1] = size /\ list # <<>>
    BY <1>1, <1>6, <2>2, <2>3
  <2>5. CASE req[t].op = "getkeys"
    <3>1. pc'[t] = "answer"
      BY <1>1, <1>17, <2>3, <2>5 DEF KeysAgain, Answers
    <3>2. Copied(size) = [i \in 1..size |-> list[i].key]
      BY DEF Copied
    <3>3. Exact(t)'
      BY <1>3, <1>6, <2>2, <2>3, <2>4, <2>5, <3>2 DEF Exact
    <3>4. QED
      BY <1>8, <3>1, <3>3
  <2>6. CASE req[t].op = "gettable"
    <3>1. pc'[t] = "get" /\ res' = res
      BY <1>1, <1>17, <2>2, <2>6 DEF KeysAgain
    <3>2. Packed(0)' = <<>> /\ 0 \in 0..(size' - 1)
      BY <1>1, <1>3, <2>2 DEF Packed
    <3>3. Gathering(t)'
      BY <1>3, <2>2, <2>3, <2>4, <3>1, <3>2 DEF Gathering
    <3>4. QED
      BY <3>1, <3>3 DEF Quiet, Looking
  <2>7. QED
    BY <2>1, <2>5, <2>6
<1>18. QED
  BY <1>10, <1>11, <1>11a, <1>12, <1>13, <1>14, <1>15, <1>16, <1>17

\* Who is calm after a step was so, and no other thread took the mutex; or it has
\* just asked, and found the mutex free.
LEMMA CalmMoves ==
  ASSUME Inv, Locals, NEW t \in Threads, Ends(t) \/ Goes(t), NEW u \in Threads, calm'[u]
  PROVE  \/ calm[u] /\ (u # t => ~(LockAdd(t) \/ LockRemove(t)))
         \/ u = t /\ Request(t) /\ mutex = Null
<1> DEFINE Locking == LockAdd(t) \/ LockRemove(t)
<1>1. CASE Locking
  <2>1. calm'[u] = (calm[u] /\ u = t)
    BY <1>1 DEF LockAdd, LockRemove, Lock
  <2>2. QED
    BY <2>1
<1>2. CASE ~Locking /\ calm' = calm
  BY <1>2
<1>3. CASE Request(t)
  <2>1. calm' = [calm EXCEPT ![t] = (mutex = Null)] /\ ~Locking
    BY <1>3 DEF Request, LockAdd, LockRemove, Goto
  <2>2. calm'[u] = IF u = t THEN mutex = Null ELSE calm[u]
    BY <2>1 DEF Locals
  <2>3. QED
    BY <1>3, <2>1, <2>2
<1>4. ~Locking /\ ~Request(t) => calm' = calm
  <2>1. CASE Answer(t)
    BY <2>1 DEF Answer
  <2>2. CASE Read(t)
    BY <2>2 DEF Read, GetBegin, GetCompare, GetNext, GetCopy, Size, KeysCount,
                KeysTest, KeysTestSize, KeysTestHead, KeysAlloc,
                KeysHead, KeysCompare, KeysNext, KeysCopy, KeysAgain, Advance, GetReturns, Undefined, past
  <2>3. CASE AddCompare(t) \/ AddFirst(t) \/ Push(t) \/ PushLink(t) \/ Insert(t) \/ InsertLink(t)
             \/ AddLast(t) \/ Replace(t)
    BY <2>3 DEF AddCompare, AddFirst, Push, PushLink, Insert, InsertLink, AddLast, Replace,
                Undefined, past
  <2>4. CASE (RemoveCompare(t) /\ cur[t] # Null) \/ Unlink(t) \/ RemoveDestroy(t)
    BY <2>4 DEF RemoveCompare, Unlink, RemoveDestroy, Undefined, past
  <2>5. CASE Ends(t)
    BY <2>5, EndsHolder
  <2>6. QED
    BY <2>1, <2>2, <2>3, <2>4, <2>5 DEF Goes
<1>5. QED
  BY <1>1, <1>2, <1>3, <1>4

LEMMA CalmMutexStep ==
  ASSUME Inv, Locals, CalmMutex, NEW t \in Threads, Ends(t) \/ Goes(t)
  PROVE  CalmMutex'
<1>1. SUFFICES ASSUME NEW u \in Threads, calm'[u] PROVE mutex' \in {Null, u}
  BY DEF CalmMutex
<1>2. CASE u = t /\ Request(t) /\ mutex = Null
  BY <1>2 DEF Request
<1>3. CASE calm[u] /\ (u # t => ~(LockAdd(t) \/ LockRemove(t)))
  <2>1. mutex \in {Null, u}
    BY <1>3 DEF CalmMutex
  <2>2. CASE Ends(t)
    BY <2>2, EndsHolder
  <2>3. CASE Goes(t)
    BY <1>3, <2>1, <2>3, GoesMutex
  <2>4. QED
    BY <2>2, <2>3
<1>4. QED
  BY <1>1, <1>2, <1>3, CalmMoves

LEMMA RestedStep ==
  ASSUME Inv, Locals, Rested, NEW t \in Threads, Ends(t) \/ Goes(t)
  PROVE  Rested'
<1>1. SUFFICES ASSUME NEW u \in Threads, pc'[u] = "idle" PROVE keys'[u] = <<>> /\ res'[u] = <<>>
  BY DEF Rested
<1>2. CASE u # t
  <2>1. Stays(u)
    BY <1>2, StepFrame
  <2>2. QED
    BY <1>1, <2>1 DEF Stays, Rested
<1>3. CASE u = t
  <2>1. TypeOK /\ Serves(req[t].op, pc[t])
    BY DEF Inv, Shared, Asked
  <2> USE <2>1 DEF TypeOK, Goto, Undefined
  <2>2. ~Ends(t)
    BY <1>1, <1>3, EndsHolder
  <2>3. ~(LockAdd(t) \/ AddCompare(t) \/ AddFirst(t) \/ Push(t) \/ PushLink(t)
           \/ Insert(t) \/ InsertLink(t) \/ AddLast(t) \/ Replace(t))
    BY <1>1, <1>3 DEF LockAdd, AddCompare, AddFirst, Push, PushLink, Insert, InsertLink, AddLast, Replace
  <2>4. ~(LockRemove(t) \/ (RemoveCompare(t) /\ cur[t] # Null) \/ Unlink(t) \/ RemoveDestroy(t))
    BY <1>1, <1>3 DEF LockRemove, RemoveCompare, Unlink, RemoveDestroy
  <2>5. ~Request(t)
    BY <1>1, <1>3 DEF Request, Asks, FirstStep
  <2>6. ASSUME NEW v, GetReturns(t, v), pc[t] \in Getting PROVE FALSE
    BY <1>1, <1>3, <2>6 DEF GetReturns, Answers, Serves
  <2>7. ~(GetCompare(t) \/ GetCopy(t))
    BY <1>1, <1>3, <2>6 DEF GetCompare, GetCopy, Getting
  <2>8. ~(\/ GetBegin(t) \/ GetNext(t) \/ Size(t) \/ KeysCount(t)
          \/ KeysTestSize(t) \/ KeysTestHead(t) \/ KeysAlloc(t) \/ KeysHead(t)
          \/ KeysCompare(t) \/ KeysNext(t) \/ KeysCopy(t) \/ KeysAgain(t))
    BY <1>1, <1>3 DEF GetBegin, GetNext, Size, KeysCount,
                      KeysTest, KeysTestSize, KeysTestHead, KeysAlloc, KeysHead, KeysCompare, KeysNext,
              KeysCopy, KeysAgain, Advance, Answers
  <2>9. Answer(t)
    BY <2>2, <2>3, <2>4, <2>5, <2>7, <2>8 DEF Goes, Read
  <2>10. QED
    BY <1>3, <2>9 DEF Answer, Locals
<1>4. QED
  BY <1>2, <1>3

LEMMA UndisturbedStep ==
  ASSUME UnitOrder, Inv, Readable, Readable', Calmness, NEW t \in Threads, Ends(t) \/ Goes(t)
  PROVE  Undisturbed'
<1>1. SUFFICES ASSUME NEW u \in Threads, calm'[u], pc'[u] \notin Writing PROVE Quiet(u)'
  BY DEF Undisturbed
<1>2. Inv' /\ Held /\ Held' /\ TypeOK /\ TypeOK' /\ Locals /\ Sorted
      /\ \A w \in Threads : w # t => Stays(w)
  BY EndsStep, GoesStep, StepFrame DEF Inv, Shared, Readable
<1>3. ASSUME calm[u], pc[u] \notin Writing
      PROVE  mutex = Null /\ Quiet(u)
  BY <1>2, <1>3 DEF Calmness, CalmMutex, Undisturbed, Held
<1>4. CASE u # t
  <2>1. calm[u] /\ ~(LockAdd(t) \/ LockRemove(t)) /\ pc[u] \notin Writing /\ Stays(u)
    BY <1>1, <1>2, <1>4, CalmMoves DEF Stays
  <2>2. mutex = Null /\ Quiet(u)
    BY <1>3, <2>1
  <2>3. pc[t] \notin Writing
    BY <1>2, <2>2, ThreadsNotNull DEF Held
  <2>4. ~Ends(t)
    BY <2>3, EndsHolder
  <2>5. CASE Request(t) \/ Answer(t)
    <3>1. UNCHANGED <<heap, list>>
      BY <2>5 DEF Request, Answer
    <3>2. cur'[u] = cur[u]
      BY <1>2, <1>4, <2>5 DEF Request, Answer, local, TypeOK
    <3>3. QED
      BY <2>1, <2>2, <3>1, <3>2, QuietStays
  <2>6. CASE Read(t)
    <3>1. UNCHANGED <<heap, list>>
      BY <2>6, ReadFrame
    <3>2. PICK x : cur' = [cur EXCEPT ![t] = x]
      BY <2>6, ReadFrame
    <3>3. cur'[u] = cur[u]
      BY <1>2, <1>4, <3>2 DEF TypeOK
    <3>4. QED
      BY <2>1, <2>2, <3>1, <3>3, QuietStays
  <2>7. ~(AddCompare(t) \/ AddFirst(t) \/ Push(t) \/ PushLink(t) \/ Insert(t) \/ InsertLink(t)
             \/ AddLast(t) \/ Replace(t))
    BY <2>3 DEF AddCompare, AddFirst, Push, PushLink, Insert, InsertLink, AddLast, Replace,
                Goto, Writing
  <2>8. ~((RemoveCompare(t) /\ cur[t] # Null) \/ Unlink(t) \/ RemoveDestroy(t))
    BY <2>3 DEF RemoveCompare, Unlink, RemoveDestroy, Goto, Writing
  <2>9. QED
    BY <2>1, <2>4, <2>5, <2>6, <2>7, <2>8 DEF Goes
<1>5. CASE u = t
  <2>1. CASE Ends(t)
    <3>1. pc'[t] = "answer" /\ req' = req /\ Ended(t)
      BY <2>1, EndsHolder, EndsStep
    <3>2. req[t].op = "put" => req[t].key \in Keys
      BY DEF Inv, Shared, Asked
    <3>3. Value(list', req[t].key) = IF req[t].op = "put" THEN req[t].value ELSE Absent
      BY <1>2, <3>1, <3>2, ValueEnded DEF Readable
    <3>4. Exact(t)'
      BY <2>1, <3>1, <3>3, EndsHolder DEF Exact
    <3>5. QED
      BY <1>5, <3>1, <3>4 DEF Quiet, Looking, Gathering, Counting, Getting
  <2>2. CASE Request(t)
    <3>1. PICK op \in Asks(t) : pc' = [pc EXCEPT ![t] = FirstStep[op]]
      BY <2>2 DEF Request
    <3>2. pc'[t] \in {"put", "get", "size", "count"}
      BY <1>2, <3>1 DEF TypeOK, FirstStep, Asks
    <3>3. pc'[t] = "get" => req'[t].op # "gettable"
      <4>1. PICK o \in Asks(t), ky \in Keys, v \in Values :
              /\ req' = [req EXCEPT ![t] =
                   [op |-> o, key |-> IF o \in {"put", "get", "del"} THEN ky ELSE Null,
                    value |-> IF o = "put" THEN v ELSE Absent]]
              /\ pc' = [pc EXCEPT ![t] = FirstStep[o]]
        BY <2>2 DEF Request
      <4>2. pc'[t] = FirstStep[o] /\ req'[t].op = o
        BY <1>2, <4>1 DEF TypeOK, Inv, Shared
      <4>3. FirstStep["gettable"] = "count"
        BY DEF FirstStep
      <4>4. QED
        BY <4>2, <4>3
    <3>4. keys'[t] = <<>> /\ res'[t] = <<>>
      BY <2>2 DEF Request, Goto, local, Calmness, Rested
    <3>5. QED
      BY <1>5, <3>2, <3>3, <3>4 DEF Quiet, Looking, Gathering, Counting, Getting
  <2>3. CASE Answer(t)
    <3>1. pc'[t] = "idle"
      BY <1>2, <2>3 DEF Answer, Goto, TypeOK
    <3>2. QED
      BY <1>5, <3>1 DEF Quiet, Looking, Gathering, Counting, Getting
  <2>4. CASE Read(t)
    <3>1. pc[t] \in Reading /\ ~Request(t)
      BY <2>4, ReadFrame DEF Request, Reading
    <3>2. calm[t] /\ pc[t] \notin Writing
      <4>1. calm'[t]
        BY <1>1, <1>5
      <4>2. calm[t]
        BY <1>2, <3>1, <4>1, CalmMoves
      <4>3. QED
        BY <3>1, <4>2 DEF Reading, Writing
    <3>3. mutex = Null /\ Quiet(t)
      BY <1>3, <1>5, <3>2
    <3>4. QED
      BY <1>2, <1>5, <2>4, <3>3, LookingStep, GatheringStep DEF Read
  <2>5. CASE LockAdd(t) \/ LockRemove(t)
    <3>1. mutex' = t
      BY <2>5 DEF LockAdd, LockRemove, Lock
    <3>2. QED
      BY <1>1, <1>2, <1>5, <3>1 DEF Held
  <2>6. CASE Goes(t) /\ ~(Request(t) \/ Answer(t) \/ Read(t) \/ LockAdd(t) \/ LockRemove(t))
    <3>1. pc[t] \in Writing
      BY <2>6 DEF Goes, AddCompare, AddFirst, Push, PushLink, Insert, InsertLink, AddLast, Replace,
                  RemoveCompare, Unlink, RemoveDestroy, Goto, Writing
    <3>2. mutex = t /\ mutex' = mutex
      BY <1>2, <2>6, <3>1, GoesMutex DEF Held
    <3>3. QED
      BY <1>1, <1>2, <1>5, <3>2 DEF Held
  <2>7. QED
    BY <2>1, <2>2, <2>3, <2>4, <2>5, <2>6
<1>6. QED
  BY <1>4, <1>5

LEMMA CalmnessAlways ==
  ASSUME UnitOrder
  PROVE  Spec => [](Inv /\ Readable /\ Calmness)
<1> DEFINE I == Inv /\ Readable /\ Calmness
<1>1. Init => I
  <2> SUFFICES ASSUME Init PROVE Calmness
    BY InitInv, ReadableInit
  <2>1. CalmMutex /\ Rested
    BY DEF Init, CalmMutex, Rested
  <2>2. Undisturbed
    BY DEF Init, Undisturbed, Quiet, Looking, Gathering, Counting, Getting
  <2>3. QED
    BY <2>1, <2>2 DEF Calmness
<1>2. I /\ [Next]_vars => I'
  <2> SUFFICES ASSUME I, [Next]_vars PROVE I'
    OBVIOUS
  <2>1. CASE Next
    <3>1. PICK t \in Threads : Ends(t) \/ Goes(t)
      BY <2>1, NextSplits
    <3>2. Inv' /\ Readable'
      BY <3>1, StepInv, ReadableStep
    <3>3. CalmMutex' /\ Rested'
      BY <3>1, CalmMutexStep, RestedStep DEF Readable, Calmness
    <3>4. Undisturbed'
      BY <3>1, <3>2, UndisturbedStep
    <3>5. QED
      BY <3>2, <3>3, <3>4 DEF Calmness
  <2>2. CASE UNCHANGED vars
    <3>1. Inv' /\ Readable'
      BY <2>2, StepInv, ReadersStutter
    <3>2. UNCHANGED <<heap, list, mutex, pc, req, cur, new, cap, keys, res, calm>>
      BY <2>2 DEF vars, local, past
    <3>3. \A u \in Threads : Quiet(u) => Quiet(u)'
      BY <3>2, QuietStays DEF Stays
    <3>4. QED
      BY <3>1, <3>2, <3>3 DEF Calmness, CalmMutex, Rested, Undisturbed
  <2>3. QED
    BY <2>1, <2>2
<1>3. QED
  BY <1>1, <1>2, PTL DEF Spec

\* With a strcmp in -1..1, for any number of threads, nodes and keys: an operation
\* that no put or del of another thread overlapped uses only its own memory and
\* answers exactly what the table has (invoke, table.c, list.c).
THEOREM CalmAnswersExactAlways ==
  ASSUME UnitOrder
  PROVE  Spec => []CalmAnswersExact
<1>1. Spec => [](Inv /\ Readable /\ Calmness)
  BY CalmnessAlways
<1>2. Inv /\ Readable /\ Calmness => CalmAnswersExact
  BY DEF Calmness, Undisturbed, Quiet, CalmAnswersExact, Writing
<1>3. QED
  BY <1>1, <1>2, PTL

-----------------------------------------------------------------------------
(* The nodes are the lists of HashTable *)

LEMMA UnitIsOrder == UnitOrder => OrderStrcmp
  BY DEF UnitOrder, OrderStrcmp

\* What HashTable computes from list 0, the only one with entries.
LEMMA ListIs ==
  ASSUME OrderStrcmp, NEW k \in Keys
  PROVE  H!List(k) = list
  BY ZeroHash, NodesAssumption DEF H!List

LEMMA LookupIs ==
  ASSUME UnitOrder, Inv, Sorted, NEW k \in Keys
  PROVE  H!Lookup(k) = Value(list, k)
<1>1. size \in Nat /\ list \in [1..size -> Entries]
      /\ \A a, b \in 1..size : list[a].key = list[b].key => a = b
  BY SortedDistinct
<1>2. list \in Seq(Entries) /\ Len(list) = size /\ \A i \in 1..size : list[i].key \in Keys
  <2>1. \A i \in 1..size : list[i] \in Entries
    BY <1>1
  <2>2. list \in Seq(Entries) /\ Len(list) = size
    BY ONLY <1>1
  <2>3. QED
    BY <2>1, <2>2 DEF Entries
<1>3. \A i \in 1..size : Strcmp(list[i].key, k) = 0 <=> list[i].key = k
  BY <1>2 DEF UnitOrder
<1>4. H!Lookup(k) = H!ListGet(list, k)
  BY ListIs, UnitIsOrder DEF H!Lookup
<1>5. \A i \in 1..size : H!Finds(list, k, i) <=> list[i].key = k
  <2> TAKE i \in 1..size
  <2>1. i <= Len(list) /\ \A j \in 1..(i - 1) : j \in 1..size /\ j # i
    BY <1>1, <1>2
  <2>2. CASE list[i].key = k
    <3>1. \A j \in 1..(i - 1) : Strcmp(list[j].key, k) # 0
      BY <1>1, <1>3, <2>1, <2>2
    <3>2. Strcmp(list[i].key, k) = 0
      BY <1>3, <2>2
    <3>3. QED
      BY <2>1, <2>2, <3>1, <3>2 DEF H!Finds, H!FirstPlace
  <2>3. CASE list[i].key # k
    <3>1. Strcmp(list[i].key, k) # 0
      BY <1>3, <2>3
    <3>2. QED
      BY <2>1, <2>3, <3>1 DEF H!Finds, H!FirstPlace
  <2>4. QED
    BY <2>2, <2>3
<1>6. CASE \E i \in 1..size : list[i].key = k
  <2>1. PICK i \in 1..size : list[i].key = k
    BY <1>6
  <2>2. \A j \in 1..Len(list) : H!Finds(list, k, j) <=> j = i
    BY <1>1, <1>2, <1>5, <2>1
  <2>3. H!ListGet(list, k) = list[i].value
    <3>1. (CHOOSE j \in 1..Len(list) : H!Finds(list, k, j)) = i
      BY <1>2, <2>2
    <3>2. \E j \in 1..Len(list) : H!Finds(list, k, j)
      BY <1>2, <2>2
    <3>3. QED
      BY <3>1, <3>2 DEF H!ListGet
  <2>4. Value(list, k) = list[i].value
    BY <1>1, <2>1, ValueFound
  <2>5. QED
    BY <1>4, <2>3, <2>4
<1>7. CASE ~ \E i \in 1..size : list[i].key = k
  <2>1. Value(list, k) = Absent
    BY <1>1, <1>7, ValueMissing
  <2>2. \A j \in 1..Len(list) : ~H!Finds(list, k, j)
    BY <1>2, <1>5, <1>7
  <2>3. QED
    BY <1>4, <2>1, <2>2 DEF H!ListGet
<1>8. QED
  BY <1>6, <1>7

LEMMA CountIs ==
  ASSUME UnitOrder, Inv
  PROVE  H!Count = size
<1> DEFINE S == 0..(NLists - 1)
           Lists == [i \in S |-> IF i = 0 THEN list ELSE <<>>]
           L == [i \in DOMAIN Lists |-> Len(Lists[i])]
<1>1. size \in Nat /\ Len(list) = size /\ Len(<<>>) = 0
  BY DEF Inv, Shared, TypeOK
<1>2. IsFiniteSet(S) /\ 0 \in S /\ DOMAIN Lists = S
  BY NodesAssumption, FS_Interval
<1>3. L \in [S -> Nat] /\ L[0] = size /\ \A x \in S : x # 0 => L[x] = 0
  BY <1>1, <1>2
<1>4. H!Count = H!SumFunction(L)
  BY DEF H!Count
<1>5. H!SumFunction(L) = HP!SumFunction(L)
  BY DEF H!SumFunction, HP!SumFunction, H!SumFunctionOnSet, HP!SumFunctionOnSet,
         H!FoldFunctionOnSet, HP!FoldFunctionOnSet, H!MapThenFoldSet, HP!MapThenFoldSet
<1>6. Keys \subseteq Seq(Int) /\ NLists \in Nat \ {0} /\ Absent \notin Values
  BY NodesAssumption
<1>7. HP!IsFiniteSet(S)
  BY <1>2 DEF IsFiniteSet, HP!IsFiniteSet
<1> HIDE DEF S, L
<1>8. HP!SumFunction(L) = L[0]
  BY <1>2, <1>3, <1>6, <1>7, UnitIsOrder, HP!SumOfOne DEF OrderStrcmp
<1>9. QED
  BY <1>3, <1>4, <1>5, <1>8

\* HashTableProofs, with what it assumes of its constants.
LEMMA OneFlattened ==
  ASSUME OrderStrcmp, NEW m \in Nat \ {0}, NEW T, NEW q, q \in [1..m -> Seq(T)],
         \A i \in 2..m : q[i] = <<>>
  PROVE  HP!FlattenSeq(q) = q[1]
<1>1. Keys \subseteq Seq(Int) /\ NLists \in Nat \ {0} /\ Absent \notin Values
  BY NodesAssumption
<1>2. \A a, b \in Keys :
        /\ Strcmp(a, b) \in Int
        /\ Strcmp(a, b) = 0 <=> a = b
        /\ Strcmp(a, b) < 0 <=> Strcmp(b, a) > 0
        /\ \A c \in Keys : Strcmp(a, b) < 0 /\ Strcmp(b, c) < 0 => Strcmp(a, c) < 0
  BY DEF OrderStrcmp
<1>3. QED
  BY <1>1, <1>2, HP!FlattenOfOne

LEMMA FlattenIs ==
  ASSUME UnitOrder, Inv
  PROVE  H!FlattenSeq([i \in 1..NLists |->
           H!KeysOf([j \in 0..(NLists - 1) |-> IF j = 0 THEN list ELSE <<>>][i - 1])])
             = Copied(size)
<1> DEFINE Lists == [j \in 0..(NLists - 1) |-> IF j = 0 THEN list ELSE <<>>]
           q == [i \in 1..NLists |-> H!KeysOf(Lists[i - 1])]
<1>1. /\ size \in Nat /\ Len(list) = size /\ Len(<<>>) = 0
      /\ \A i \in 1..size : list[i].key \in Keys
  BY DEF Inv, Shared, TypeOK, Entries
<1>2. Keys \subseteq Seq(Int) /\ NLists \in Nat \ {0} /\ Absent \notin Values
  BY NodesAssumption
<1>3. \A i \in 1..NLists : i - 1 \in 0..(NLists - 1) /\ (i - 1 = 0 <=> i = 1)
  BY <1>2
<1>4. H!KeysOf(list) = Copied(size) /\ H!KeysOf(<<>>) = <<>>
  BY <1>1 DEF H!KeysOf, Copied
<1>5. \A i \in 1..NLists : q[i] = IF i = 1 THEN Copied(size) ELSE <<>>
  BY <1>3, <1>4
<1>6. Copied(size) \in Seq(Keys) /\ <<>> \in Seq(Keys)
  BY <1>1 DEF Copied
<1>7. q \in [1..NLists -> Seq(Keys)] /\ q = [i \in 1..NLists |-> q[i]]
  <2>1. \A i \in 1..NLists : q[i] \in Seq(Keys)
    BY <1>5, <1>6
  <2>2. q = [i \in 1..NLists |-> q[i]]
    OBVIOUS
  <2> HIDE DEF q
  <2>3. QED
    BY <2>1, <2>2
<1>8. H!FlattenSeq(q) = HP!FlattenSeq(q)
  BY DEF H!FlattenSeq, HP!FlattenSeq
<1> HIDE DEF q
<1>9. (\A i \in 2..NLists : q[i] = <<>>) /\ q[1] = Copied(size)
  BY <1>2, <1>5
<1>10. HP!FlattenSeq(q) = q[1]
  BY <1>2, <1>7, <1>9, UnitIsOrder, OneFlattened
<1>11. QED
  BY <1>8, <1>9, <1>10 DEF q

\* A get asks for a key.
Named == \A t \in Threads : req[t].op = "get" => req[t].key \in Keys

LEMMA NamedStep ==
  ASSUME Inv, Named, NEW t \in Threads, Ends(t) \/ Goes(t)
  PROVE  Named'
<1>1. req = [u \in Threads |-> req[u]]
  BY DEF Inv, Shared
<1>2. CASE req' = req
  BY <1>2 DEF Named
<1>3. CASE Request(t)
  <2>1. PICK op \in Asks(t), k \in Keys, v \in Values :
          req' = [req EXCEPT ![t] =
            [op |-> op, key |-> IF op \in {"put", "get", "del"} THEN k ELSE Null,
             value |-> IF op = "put" THEN v ELSE Absent]]
    BY <1>3 DEF Request
  <2>2. QED
    BY <1>1, <2>1 DEF Named
<1>4. CASE Answer(t)
  BY <1>1, <1>4 DEF Answer, Named, Nobody
<1>5. CASE Ends(t)
  BY <1>2, <1>5, EndsHolder
<1>6. CASE Read(t)
  BY <1>2, <1>6, ReadFrame
<1>7. CASE Goes(t) /\ ~(Request(t) \/ Answer(t) \/ Read(t))
  <2>1. req' = req
    BY <1>7 DEF Goes, LockAdd, LockRemove, AddCompare, AddFirst, Push, PushLink, Insert, InsertLink,
                AddLast, Replace, RemoveCompare, Unlink, RemoveDestroy, Undefined
  <2>2. QED
    BY <1>2, <2>1
<1>8. QED
  BY <1>3, <1>4, <1>5, <1>6, <1>7

\* The key that a thread nobody disturbs looks for.
LEMMA WantedKey ==
  ASSUME Inv, Named, NEW t \in Threads, Gathering(t), pc[t] \in Getting
  PROVE  Wanted(t) \in Keys
<1>1. /\ size \in Nat /\ list \in [1..size -> Entries] /\ Asked(t)
  BY DEF Inv, Shared, TypeOK
<1>2. CASE req[t].op \in {"get", "del"}
  BY <1>1, <1>2 DEF Named, Asked, Wanted
<1>3. CASE req[t].op = "gettable"
  <2>1. size > 0 /\ keys[t] = Copied(size) /\ \E m \in 0..(size - 1) : res[t] = Packed(m)
    BY <1>3 DEF Gathering
  <2>2. PICK m \in 0..(size - 1) : res[t] = Packed(m)
    BY <2>1
  <2>3. m + 1 \in 1..size /\ Len(res[t]) = m
    BY <1>1, <2>2 DEF Packed
  <2>4. list[m + 1].key \in Keys
    <3>1. list[m + 1] \in Entries
      BY <1>1, <2>3
    <3>2. QED
      BY <3>1 DEF Entries
  <2>5. Wanted(t) = list[m + 1].key
    BY <1>3, <2>1, <2>3 DEF Wanted, Copied
  <2>6. QED
    BY <2>4, <2>5
<1>4. QED
  BY <1>1, <1>2, <1>3 DEF Asked, Serves

LEMMA GetCall ==
  ASSUME UnitOrder, Inv, Sorted, Named, mutex = Null, NEW t \in Threads, Quiet(t),
         GetCompare(t) \/ GetCopy(t)
  PROVE  reply' = reply \/ \E k \in Keys : reply' = <<"get", k, Value(list, k)>>
<1>1. PICK c \in [1..size -> Nodes] :
           /\ Chained(head, next) = c /\ size \in Nat /\ list \in [1..size -> Entries]
           /\ head = IF 1 <= size THEN c[1] ELSE Null
           /\ \A j \in 1..size :
                /\ c[j] \in live /\ c[j] # Null
                /\ HasEntry(c[j]) /\ entry[c[j]] = list[j] /\ list[j].key \in Keys
                /\ next[c[j]] = IF j + 1 <= size THEN c[j + 1] ELSE Null
  BY QuietHeap
<1>2. Looking(t) /\ Gathering(t)
  BY DEF Quiet
<1>3. pc[t] \in Getting
  BY DEF GetCompare, GetCopy, Getting
<1>4. Wanted(t) \in Keys
  BY <1>2, <1>3, WantedKey
<1>5. ASSUME NEW v, v = Value(list, Wanted(t)), GetReturns(t, v)
      PROVE  reply' = reply \/ \E k \in Keys : reply' = <<"get", k, Value(list, k)>>
  BY <1>4, <1>5 DEF GetReturns, Returned
<1>6. CASE GetCompare(t)
  <2>1. PICK i \in 1..(size + 1) : Passed(t, i) /\ Place(t, i)
    BY <1>2, <1>6 DEF GetCompare, Looking
  <2>2. CASE GetReturns(t, Absent) /\ cur[t] = Null
    <3>1. i = size + 1
      BY <1>1, <2>1, <2>2 DEF Place
    <3>2. \A j \in 1..size : list[j].key # Wanted(t)
      BY <1>1, <2>1, <3>1 DEF Passed
    <3>3. Value(list, Wanted(t)) = Absent
      BY <1>1, <3>2, ValueMissing
    <3>4. QED
      BY <1>5, <2>2, <3>3
  <2>3. QED
    BY <1>6, <2>2 DEF GetCompare, Undefined
<1>7. CASE GetCopy(t)
  <2>1. PICK i \in 1..size : list[i].key = Wanted(t) /\ Place(t, i)
    BY <1>2, <1>7 DEF GetCopy, Looking
  <2>2. HasEntry(cur[t]) /\ entry[cur[t]] = list[i]
    BY <1>1, <2>1 DEF Place
  <2>3. list[i].value = Value(list, Wanted(t))
    BY <2>1, SortedDistinct, ValueFound
  <2>4. GetReturns(t, list[i].value)
    BY <1>7, <2>2 DEF GetCopy
  <2>5. QED
    BY <1>5, <2>3, <2>4
<1>8. QED
  BY <1>6, <1>7

LEMMA KeysCall ==
  ASSUME Inv, Locals, NEW t \in Threads, Gathering(t),
         \/ Size(t) \/ KeysCount(t)
         \/ KeysTestSize(t) \/ KeysTestHead(t) \/ KeysAlloc(t) \/ KeysHead(t) \/ KeysCompare(t)
         \/ KeysNext(t) \/ KeysCopy(t) \/ KeysAgain(t)
  PROVE  \/ reply' = reply
         \/ reply' = <<"size", size>>
         \/ reply' = <<"keys", IF size <= 0 THEN Absent ELSE Copied(size)>>
<1>1. CASE Size(t) \/ KeysAgain(t)
  BY <1>1 DEF Size, KeysAgain, Returned
<1>2. CASE KeysCount(t)
  BY <1>2 DEF KeysCount, Returned
<1>3. CASE KeysCopy(t)
  <2>1. size > 0 /\ keys[t] = Copied(size)
    BY <1>3 DEF KeysCopy, Gathering, Counting
  <2>2. ~(size <= 0)
    BY <2>1 DEF Inv, Shared, TypeOK
  <2>3. CASE Undefined(t)
    BY <2>3 DEF Undefined
  <2>4. CASE keys' = [keys EXCEPT ![t] = IF size > 0 THEN @ ELSE <<>>]
             /\ Returned(t, <<"keys", keys'[t]>>)
    <3>1. keys'[t] = Copied(size)
      BY <2>1, <2>4 DEF Locals
    <3>2. QED
      BY <2>2, <2>4, <3>1 DEF Returned
  <2>5. QED
    BY <1>3, <2>3, <2>4 DEF KeysCopy
<1>4. CASE \/ KeysTestSize(t) \/ KeysTestHead(t) \/ KeysAlloc(t) \/ KeysHead(t)
           \/ KeysCompare(t) \/ KeysNext(t)
  BY <1>4 DEF KeysTest, KeysTestSize, KeysTestHead, KeysAlloc, KeysHead, KeysCompare, KeysNext, Advance, Undefined
<1>5. QED
  BY <1>1, <1>2, <1>3, <1>4

\* A read that a writer overlapped leaves the history as it is.
LEMMA OverlappedRead ==
  ASSUME NEW t \in Threads, Read(t), ~calm[t]
  PROVE  reply' = reply
<1> USE DEF Returned, Undefined
<1>1. CASE GetBegin(t) \/ GetCompare(t) \/ GetNext(t) \/ GetCopy(t)
  BY <1>1 DEF GetBegin, GetCompare, GetNext, GetCopy, Advance, GetReturns
<1>2. CASE \/ Size(t) \/ KeysCount(t)
           \/ KeysTestSize(t) \/ KeysTestHead(t) \/ KeysAlloc(t) \/ KeysHead(t) \/ KeysCompare(t)
           \/ KeysNext(t) \/ KeysCopy(t) \/ KeysAgain(t)
  BY <1>2 DEF Size, KeysCount, KeysTest, KeysTestSize, KeysTestHead, KeysAlloc, KeysHead,
              KeysCompare, KeysNext, KeysCopy, KeysAgain, Advance
<1>3. QED
  BY <1>1, <1>2 DEF Read

LEMMA ReadCall ==
  ASSUME UnitOrder, Inv, Readable, Calmness, Named, NEW t \in Threads, Read(t)
  PROVE  [H!Next]_(H!vars)
<1> DEFINE L == [i \in 0..(NLists - 1) |-> IF i = 0 THEN list ELSE <<>>]
<1>1. UNCHANGED list /\ L' = L
  <2>1. UNCHANGED list
    BY ReadFrame
  <2>2. QED
    BY <2>1
<1>2. CASE reply' = reply
  BY <1>1, <1>2 DEF H!vars
<1>3. ASSUME NEW k \in Keys, reply' = <<"get", k, Value(list, k)>>
      PROVE  H!Next
  <2>1. H!TableGet(k)
    BY <1>1, <1>3, LookupIs DEF H!TableGet, Readable
  <2>2. QED
    BY <2>1 DEF H!Next
<1>4. CASE reply' = <<"size", size>>
  <2>1. H!TableSize
    BY <1>1, <1>4, CountIs DEF H!TableSize
  <2>2. QED
    BY <2>1 DEF H!Next
<1>5. CASE reply' = <<"keys", IF size <= 0 THEN Absent ELSE Copied(size)>>
  <2>1. H!TableGetKeys
    BY <1>1, <1>5, CountIs, FlattenIs DEF H!TableGetKeys
  <2>2. QED
    BY <2>1 DEF H!Next
<1>6. CASE calm[t]
  <2>1. pc[t] \notin Writing
    BY ReadFrame DEF Reading, Writing
  <2>2. mutex = Null /\ Quiet(t)
    BY <1>6, <2>1 DEF Calmness, CalmMutex, Undisturbed, Inv, Shared, Held
  <2>3. CASE GetCompare(t) \/ GetCopy(t)
    <3>1. reply' = reply \/ \E k \in Keys : reply' = <<"get", k, Value(list, k)>>
      BY <2>2, <2>3, GetCall DEF Readable
    <3>2. QED
      BY <1>2, <1>3, <3>1
  <2>4. CASE GetBegin(t) \/ GetNext(t)
    BY <1>2, <2>4 DEF GetBegin, GetNext, Advance, Undefined
  <2>5. CASE \/ Size(t) \/ KeysCount(t)
             \/ KeysTestSize(t) \/ KeysTestHead(t) \/ KeysAlloc(t) \/ KeysHead(t) \/ KeysCompare(t)
             \/ KeysNext(t) \/ KeysCopy(t) \/ KeysAgain(t)
    <3>1. \/ reply' = reply
          \/ reply' = <<"size", size>>
          \/ reply' = <<"keys", IF size <= 0 THEN Absent ELSE Copied(size)>>
      BY <2>2, <2>5, KeysCall DEF Quiet, Readable
    <3>2. QED
      BY <1>2, <1>4, <1>5, <3>1
  <2>6. QED
    BY <2>3, <2>4, <2>5 DEF Read
<1>7. CASE ~calm[t]
  BY <1>2, <1>7, OverlappedRead
<1>8. QED
  BY <1>6, <1>7

LEMMA StepIsCall ==
  ASSUME UnitOrder, Inv, Readable, Calmness, Named, NEW t \in Threads, Ends(t) \/ Goes(t)
  PROVE  [H!Next]_(H!vars)
<1>1. CASE Ends(t)
  <2>1. Inv' /\ Ended(t)
    BY <1>1, EndsStep
  <2>2. Asked(t) /\ req[t].op \in {"put", "del"}
    BY <1>1, EndsHolder DEF Inv, Shared
  <2>3. req[t].key \in Keys /\ (req[t].op = "put" => req[t].value \in Values)
    BY <2>2 DEF Asked
  <2>4. \/ req[t].op = "put" /\ H!TablePut(req[t].key, req[t].value)
        \/ req[t].op = "del" /\ H!TableRemove(req[t].key)
    BY <2>1, <2>3, CallIs, UnitIsOrder
  <2>5. PICK k \in Keys : k = req[t].key
    BY <2>3
  <2>6. CASE req[t].op = "put" /\ H!TablePut(req[t].key, req[t].value)
    <3>1. PICK v \in Values : v = req[t].value
      BY <2>3, <2>6
    <3>2. H!TablePut(k, v)
      BY <2>5, <2>6, <3>1 DEF H!TablePut
    <3>3. QED
      BY <3>2 DEF H!Next
  <2>7. CASE H!TableRemove(req[t].key)
    <3>1. H!TableRemove(k)
      BY <2>5, <2>7 DEF H!TableRemove
    <3>2. QED
      BY <3>1 DEF H!Next
  <2>8. QED
    BY <2>4, <2>6, <2>7
<1>2. CASE Read(t)
  BY <1>2, ReadCall
<1>3. CASE Goes(t) /\ ~Read(t)
  <2>1. UNCHANGED list
    BY <1>3, GoesStep
  <2>2. reply' = reply
    BY <1>3 DEF Goes, Request, Answer, LockAdd, AddCompare, AddFirst, Push, PushLink, Insert,
                InsertLink, AddLast, Replace, LockRemove, RemoveCompare, Unlink, RemoveDestroy,
                Undefined
  <2>3. QED
    BY <2>1, <2>2 DEF H!vars
<1>4. QED
  BY <1>1, <1>2, <1>3

\* With a strcmp in -1..1: nodes, pointers and the steps of any number of threads
\* implement the lists of HashTable.  Every call of a writer, and every call of a
\* reader that no writer overlapped, is one call of table.h there; all that is
\* between shows nothing (invoke, table.c, list.c).
THEOREM NodesImplementTableHolds ==
  ASSUME UnitOrder
  PROVE  Spec => NodesImplementTable
<1> DEFINE I == Inv /\ Readable /\ Calmness
<1>1. Init => H!Init
  BY DEF Init, H!Init
<1>2. Init => Named
  BY DEF Init, Named, Nobody
<1>3. I /\ Named /\ [Next]_vars => Named' /\ [H!Next]_(H!vars)
  <2> SUFFICES ASSUME I, Named, [Next]_vars PROVE Named' /\ [H!Next]_(H!vars)
    OBVIOUS
  <2>1. CASE Next
    <3>1. PICK t \in Threads : Ends(t) \/ Goes(t)
      BY <2>1, NextSplits
    <3>2. Named'
      BY <3>1, NamedStep
    <3>3. [H!Next]_(H!vars)
      BY <3>1, StepIsCall
    <3>4. QED
      BY <3>2, <3>3
  <2>2. CASE UNCHANGED vars
    <3>1. UNCHANGED <<req, list, reply>>
      BY <2>2 DEF vars, past
    <3>2. UNCHANGED H!vars
      BY <3>1 DEF H!vars
    <3>3. QED
      BY <3>1, <3>2 DEF Named
  <2>3. QED
    BY <2>1, <2>2
<1>4. Spec => []I
  BY CalmnessAlways
<1>5. QED
  BY <1>1, <1>2, <1>3, <1>4, PTL DEF Spec, NodesImplementTable, H!Spec

-----------------------------------------------------------------------------
(* The nodes are the map of TableMap *)

\* H and HP are the same HashTable.
LEMMA SameLists ==
  ASSUME OrderStrcmp
  PROVE  /\ \A l, k, R, i : H!FirstPlace(l, k, R, i) = HP!FirstPlace(l, k, R, i)
         /\ \A l, k, i : H!Finds(l, k, i) = HP!Finds(l, k, i)
         /\ \A l, e, i : H!ListAdd(l, e, i) = HP!ListAdd(l, e, i)
         /\ \A l, i : H!RemoveAt(l, i) = HP!RemoveAt(l, i)
         /\ \A l, k : H!ListGet(l, k) = HP!ListGet(l, k)
         /\ \A l : H!KeysOf(l) = HP!KeysOf(l)
         /\ H!Stops = HP!Stops
<1>1. ASSUME NEW l, NEW k, NEW R, NEW i
      PROVE  H!FirstPlace(l, k, R, i) = HP!FirstPlace(l, k, R, i)
  BY DEF H!FirstPlace, HP!FirstPlace
<1>2. ASSUME NEW l, NEW k, NEW i PROVE H!Finds(l, k, i) = HP!Finds(l, k, i)
  BY DEF H!Finds, HP!Finds, H!FirstPlace, HP!FirstPlace
<1>3. ASSUME NEW l, NEW e, NEW i PROVE H!ListAdd(l, e, i) = HP!ListAdd(l, e, i)
  BY DEF H!ListAdd, HP!ListAdd, H!ReplaceAt, HP!ReplaceAt, H!InsertAt, HP!InsertAt
<1>4. ASSUME NEW l, NEW i PROVE H!RemoveAt(l, i) = HP!RemoveAt(l, i)
  BY DEF H!RemoveAt, HP!RemoveAt
<1>5. ASSUME NEW l, NEW k PROVE H!ListGet(l, k) = HP!ListGet(l, k)
  BY DEF H!ListGet, HP!ListGet, H!Finds, HP!Finds, H!FirstPlace, HP!FirstPlace
<1>6. ASSUME NEW l PROVE H!KeysOf(l) = HP!KeysOf(l)
  BY DEF H!KeysOf, HP!KeysOf
<1>7. H!Stops = HP!Stops
  BY DEF H!Stops, HP!Stops
<1>8. QED
  BY <1>1, <1>2, <1>3, <1>4, <1>5, <1>6, <1>7

LEMMA SameTable ==
  ASSUME OrderStrcmp
  PROVE  [H!Next]_(H!vars) => [HP!Next]_(HP!vars)
<1>1. \A k \in Keys : H!HashFunction(k) = 0 /\ HP!HashFunction(k) = 0
  <2>1. Keys \subseteq Seq(Int) /\ NLists \in Nat \ {0} /\ Absent \notin Values
    BY NodesAssumption
  <2>2. QED
    BY <2>1, ZeroHash, HP!HashIsZero DEF OrderStrcmp
<1>2. ASSUME NEW k \in Keys PROVE H!List(k) = HP!List(k)
  <2>1. H!HashFunction(k) = HP!HashFunction(k)
    BY <1>1
  <2>2. PICK z : z = H!HashFunction(k)
    OBVIOUS
  <2>3. H!List(k) = [i \in 0..(NLists - 1) |-> IF i = 0 THEN list ELSE <<>>][z]
    BY <2>2 DEF H!List
  <2>4. HP!List(k) = [i \in 0..(NLists - 1) |-> IF i = 0 THEN list ELSE <<>>][z]
    BY <2>1, <2>2 DEF HP!List
  <2>5. QED
    BY <2>3, <2>4
<1> DEFINE L == [i \in 0..(NLists - 1) |-> IF i = 0 THEN list ELSE <<>>]
<1>3. ASSUME NEW k \in Keys, NEW v \in Values, H!TablePut(k, v) PROVE HP!TablePut(k, v)
  <2>1. PICK i \in 1..(Len(H!List(k)) + 1) :
          /\ H!FirstPlace(H!List(k), k, H!Stops, i)
          /\ L' = [L EXCEPT ![H!HashFunction(k)] = H!ListAdd(@, [key |-> k, value |-> v], i)]
          /\ reply' = <<"put", k, v, 0>>
    BY <1>3 DEF H!TablePut
  <2>2. L' = [L EXCEPT ![HP!HashFunction(k)] = HP!ListAdd(@, [key |-> k, value |-> v], i)]
    <3> HIDE DEF L
    <3>1. PICK r : r = H!ListAdd(L[0], [key |-> k, value |-> v], i)
      OBVIOUS
    <3>2. r = HP!ListAdd(L[0], [key |-> k, value |-> v], i)
      BY <3>1, SameLists
    <3>3. H!HashFunction(k) = 0 /\ HP!HashFunction(k) = 0
      BY <1>1
    <3>4. L' = [L EXCEPT ![0] = r]
      BY ONLY <2>1, <3>1, <3>3
    <3>5. QED
      BY ONLY <3>2, <3>3, <3>4
  <2>3. HP!FirstPlace(HP!List(k), k, HP!Stops, i) /\ i \in 1..(Len(HP!List(k)) + 1)
    BY <1>2, <2>1, SameLists
  <2>4. QED
    BY <2>1, <2>2, <2>3 DEF HP!TablePut
<1>4. \A k \in Keys : H!TableGet(k) => HP!TableGet(k)
  BY <1>2, SameLists DEF H!TableGet, HP!TableGet, H!Lookup, HP!Lookup
<1>5. \A k \in Keys : H!TableRemove(k) => HP!TableRemove(k)
  BY <1>1, <1>2, SameLists DEF H!TableRemove, HP!TableRemove
<1>6. H!Count = HP!Count
  BY DEF H!Count, HP!Count, H!SumFunction, HP!SumFunction, H!SumFunctionOnSet, HP!SumFunctionOnSet,
         H!FoldFunctionOnSet, HP!FoldFunctionOnSet, H!MapThenFoldSet, HP!MapThenFoldSet
<1>7. H!TableSize => HP!TableSize
  BY <1>6 DEF H!TableSize, HP!TableSize
<1>8. H!TableGetKeys => HP!TableGetKeys
  BY <1>6 DEF H!TableGetKeys, HP!TableGetKeys, H!KeysOf, HP!KeysOf, H!FlattenSeq, HP!FlattenSeq
<1>9. QED
  BY <1>3, <1>4, <1>5, <1>7, <1>8 DEF H!Next, HP!Next, H!vars, HP!vars

\* With a strcmp in -1..1: the nodes of list.c under any number of threads are
\* the map that table.h promises (TableMap), for every put and remove, and for
\* every get, size and getkeys that no writer overlapped.
THEOREM NodesAreMap ==
  ASSUME UnitOrder
  PROVE  Spec => HP!TableIsMap
<1>1. Keys \subseteq Seq(Int) /\ NLists \in Nat \ {0} /\ Absent \notin Values
  BY NodesAssumption
<1>2. \A a, b \in Keys :
        /\ Strcmp(a, b) \in Int
        /\ Strcmp(a, b) = 0 <=> a = b
        /\ Strcmp(a, b) < 0 <=> Strcmp(b, a) > 0
        /\ \A c \in Keys : Strcmp(a, b) < 0 /\ Strcmp(b, c) < 0 => Strcmp(a, c) < 0
  BY UnitIsOrder DEF OrderStrcmp
<1>3. HP!UnitStrcmp
  BY DEF HP!UnitStrcmp, UnitOrder
<1>4. HP!Spec => HP!TableIsMap
  BY <1>1, <1>2, <1>3, HP!TableIsMapHolds
<1>5. H!Init => HP!Init
  BY DEF H!Init, HP!Init
<1>6. [H!Next]_(H!vars) => [HP!Next]_(HP!vars)
  BY UnitIsOrder, SameTable
<1>7. QED
  BY <1>4, <1>5, <1>6, NodesImplementTableHolds, PTL DEF NodesImplementTable, H!Spec, HP!Spec
=============================================================================
