----------------------------- MODULE HashTable -----------------------------
(***************************************************************************)
(* The table of one server: table.c over the linked lists of list.c, with  *)
(* entry_compare and hash_function.  A list is the sequence of its         *)
(* entries; one operation runs at a time (table_mutex, or one thread).     *)
(***************************************************************************)
EXTENDS Integers, SequencesExt

CONSTANTS Keys,    \* strings: the sequences of their bytes
          Values,
          Absent,  \* NULL, or a key without an entry
          NLists,  \* argument of table_create
          Strcmp(_, _) \* the int that libc's strcmp returns

\* C promises the sign of strcmp, never the magnitude.
ASSUME StrcmpAssumption ==
  \A a, b \in Keys :
       /\ Strcmp(a, b) \in Int
       /\ Strcmp(a, b) = 0 <=> a = b
       /\ Strcmp(a, b) < 0 <=> Strcmp(b, a) > 0
       /\ \A c \in Keys : Strcmp(a, b) < 0 /\ Strcmp(b, c) < 0 => Strcmp(a, c) < 0

ASSUME TableAssumption ==
  /\ Keys \subseteq Seq(Int)
  /\ NLists \in Nat \ {0}
  /\ Absent \notin Values

VARIABLES lists,  \* lists[i]: t->lists[i], from head to tail
          reply   \* the last call and what it returned

vars == <<lists, reply>>

Entries == [key : Keys, value : Values]

\* multi starts at 0 and is only ever multiplied.
HashFunction(k) == FoldSeq(LAMBDA byte, multi : multi * byte, 0, k) % NLists

Init ==
  /\ lists = [i \in 0..(NLists - 1) |-> <<>>]
  /\ reply = <<"create", 0>>

-----------------------------------------------------------------------------
(* list.c *)

\* Place i of l is the first whose key, compared with k, gives a result in R;
\* it is the place after the last if there is none.
FirstPlace(l, k, R, i) ==
  /\ \A j \in 1..(i-1) : Strcmp(l[j].key, k) \notin R
  /\ i <= Len(l) => Strcmp(l[i].key, k) \in R

\* Mutant: a new entry always goes to the end.
StopsAtEqual == {0}

\* The loop stops at 0, to replace, or at exactly 1, to insert before; if it
\* stops nowhere it appends.
Stops == {0, 1}

\* Mutants: an old entry is kept; it is left in front of the new one; the entry
\* where the loop stopped is replaced whatever its key.
KeepOld(l, e, i) ==
  IF i <= Len(l) /\ Strcmp(l[i].key, e.key) = 0 THEN l ELSE InsertAt(l, i, e)
AddBehind(l, e, i) == InsertAt(l, IF i <= Len(l) THEN i + 1 ELSE i, e)
ReplaceAtStop(l, e, i) == IF i <= Len(l) THEN ReplaceAt(l, i, e) ELSE InsertAt(l, i, e)

ListAdd(l, e, i) ==
  IF i <= Len(l) /\ Strcmp(l[i].key, e.key) = 0
  THEN ReplaceAt(l, i, e) ELSE InsertAt(l, i, e)

\* The entry of k that list_get finds, and list_remove takes out.
Finds(l, k, i) == i <= Len(l) /\ FirstPlace(l, k, {0}, i)

ListGet(l, k) ==
  IF \E i \in 1..Len(l) : Finds(l, k, i)
  THEN l[CHOOSE i \in 1..Len(l) : Finds(l, k, i)].value
  ELSE Absent

-----------------------------------------------------------------------------
(* table.c *)

List(k) == lists[HashFunction(k)]

\* What a get of k finds now.
Lookup(k) == ListGet(List(k), k)

KeysOf(l) == [i \in 1..Len(l) |-> l[i].key]

TablePut(k, v) == \E i \in 1..(Len(List(k)) + 1) :
  /\ FirstPlace(List(k), k, Stops, i)
  /\ lists' = [lists EXCEPT ![HashFunction(k)] = ListAdd(@, [key |-> k, value |-> v], i)]
  /\ reply' = <<"put", k, v, 0>>

TableGet(k) ==
  /\ reply' = <<"get", k, Lookup(k)>>
  /\ UNCHANGED lists

\* Mutant: the entry is freed, its node stays.
RemoveEntryOnly(k) == \E i \in 1..Len(List(k)) :
  /\ Finds(List(k), k, i)
  /\ lists' = [lists EXCEPT ![HashFunction(k)] = ReplaceAt(@, i, Absent)]
  /\ reply' = <<"remove", k, 0>>

TableRemove(k) ==
  \/ \E i \in 1..Len(List(k)) :
       /\ Finds(List(k), k, i)
       /\ lists' = [lists EXCEPT ![HashFunction(k)] = RemoveAt(@, i)]
       /\ reply' = <<"remove", k, 0>>
  \/ /\ \A i \in 1..Len(List(k)) : ~Finds(List(k), k, i)
     /\ reply' = <<"remove", k, 1>>
     /\ UNCHANGED lists

Count == SumFunction([i \in DOMAIN lists |-> Len(lists[i])])

TableSize ==
  /\ reply' = <<"size", Count>>
  /\ UNCHANGED lists

TableGetKeys ==
  /\ reply' = <<"keys", IF Count <= 0 THEN Absent
                        ELSE FlattenSeq([i \in 1..NLists |-> KeysOf(lists[i-1])])>>
  /\ UNCHANGED lists

Next ==
  \/ \E k \in Keys, v \in Values : TablePut(k, v)
  \/ \E k \in Keys : TableGet(k) \/ TableRemove(k)
  \/ TableSize \/ TableGetKeys

Spec == Init /\ [][Next]_vars

-----------------------------------------------------------------------------
(* Properties that hold whatever magnitudes strcmp returns *)

TypeOK == lists \in [0..(NLists - 1) -> Seq(Entries)]

\* What was put is what the next get finds, also when the list holds the key
\* twice: a new entry never lands behind an old one of the same key.
PutIsFound == [][\A k \in Keys, v \in Values :
  TablePut(k, v) => Lookup(k)' = v]_vars

\* Putting or removing a key never changes what a get of another key finds.
OthersKept == [][\A k, other \in Keys :
  other # k /\ (TableRemove(k) \/ \E v \in Values : TablePut(k, v))
    => Lookup(other)' = Lookup(other)]_vars

-----------------------------------------------------------------------------
(* Properties that need a strcmp, or keys, with results in -1..1 *)

UnitStrcmp == \A a, b \in Keys : Strcmp(a, b) \in -1..1

\* Every list is strictly increasing, so it holds no key twice (list_add).
Sorted == \A h \in DOMAIN lists : \A i, j \in 1..Len(lists[h]) :
  i < j => Strcmp(lists[h][i].key, lists[h][j].key) < 0

\* The table is a map: no operation can tell it from one.
TM == INSTANCE TableMap WITH map <- [k \in Keys |-> Lookup(k)]

TableIsMap == TM!TMSpec

-----------------------------------------------------------------------------
(* What the comments of the sources say *)

\* list_add: an entry with the same key is replaced.
NoDuplicateKeys == \A h \in DOMAIN lists : \A i, j \in 1..Len(lists[h]) :
  lists[h][i].key = lists[h][j].key => i = j

\* hash_function: the product of the characters modulo the number of lists.
DocumentedHash(k) == FoldSeq(LAMBDA byte, multi : multi * byte, 1, k) % NLists

SpreadByHash == \A h \in DOMAIN lists : \A i \in 1..Len(lists[h]) :
  DocumentedHash(lists[h][i].key) = h
=============================================================================
