----------------------------- MODULE TableNodes -----------------------------
(***************************************************************************)
(* The table of one server under all its threads: invoke, table.c and the  *)
(* nodes of list.c, one read or write of shared memory at a time.  Writers *)
(* hold table_mutex; GET, SIZE, GETKEYS, GETTABLE and the check of DEL do  *)
(* not.  hash_function is 0 for every key (HashTable), so one list is all  *)
(* there is to see of the NLists.                                          *)
(***************************************************************************)
EXTENDS Integers, SequencesExt, FiniteSets

CONSTANTS Keys, Values, Absent, NLists,
          Strcmp(_, _),
          Writers,  \* threads of client_handler whose clients put and del
          Readers,  \* threads whose clients read
          Ops,      \* the operations that clients ask for
          Nodes,    \* what malloc can give for struct node_t
          Null, Freed  \* a pointer to nothing, and one to freed memory

ASSUME NodesAssumption ==
  /\ Keys \subseteq Seq(Int) /\ NLists \in Nat \ {0}
  /\ IsFiniteSet(Nodes)
  /\ Null \notin Nodes \cup Writers \cup Readers \cup Seq(Keys)
  /\ Freed \notin Nodes \cup {Null} \cup [key : Keys, value : Values]
  /\ Absent \notin Values
  /\ Ops \subseteq {"put", "get", "del", "size", "getkeys", "gettable"}

VARIABLES
  head, size,        \* of list 0
  next, prev, entry, \* of the nodes
  live,              \* nodes that are allocated
  mutex,             \* the thread that holds table_mutex, or Null
  pc,                \* pc[t]: where thread t is
  req,               \* req[t]: the request it serves
  cur,               \* cur[t]: its current; after a match, the entry it found there
  new,               \* new[t]: its new_node
  cap,               \* cap[t]: the sizes it allocated keys for, table then list
  keys,              \* keys[t]: the copies of keys it has, Null for no array
  res,               \* res[t]: the values it will answer; Absent alone is OP_ERROR
  list,              \* history: the entries when table_mutex was last released
  seen,              \* history: what a get in progress may answer
  calm,              \* history: calm[t]: no other thread wrote since t's request
  reply              \* history: the last calm call of table.h, and what it returned

heap  == <<head, size, next, prev, entry, live>>
local == <<cur, new, cap, keys, res>>
past  == <<list, seen, calm>>
vars  == <<heap, mutex, pc, req, local, past, reply>>

Threads  == Writers \cup Readers
Entries  == [key : Keys, value : Values]
Pointers == Nodes \cup {Null, Freed}
Writing  == {"add", "first", "replace", "reuse", "push", "pushed", "insert",
             "inserted", "append", "grow", "rm", "unlink", "destroy", "free"}
Reading  == {"size", "get", "walk", "next", "copy", "count", "lempty", "lhead",
             "lsize", "khead", "kwalk", "knext", "copykeys", "nkeys"}

Nobody == [op |-> "none"]

Init ==
  /\ head = Null /\ size = 0
  /\ next = [n \in Nodes |-> Null]
  /\ prev = [n \in Nodes |-> Null]
  /\ entry = [n \in Nodes |-> Freed]
  /\ live = {}
  /\ mutex = Null
  /\ pc = [t \in Threads |-> "idle"]
  /\ req = [t \in Threads |-> Nobody]
  /\ cur = [t \in Threads |-> Null]
  /\ new = [t \in Threads |-> Null]
  /\ cap = [t \in Threads |-> <<0, 0>>]
  /\ keys = [t \in Threads |-> <<>>]
  /\ res = [t \in Threads |-> <<>>]
  /\ list = <<>>
  /\ seen = [t \in Threads |-> {}]
  /\ calm = [t \in Threads |-> TRUE]
  /\ reply = <<"create", 0>>

-----------------------------------------------------------------------------
(* Memory *)

\* Nothing points to a node any more that did; reads of it are undefined.
Forget(f, n) == [x \in DOMAIN f |-> IF f[x] = n THEN Freed ELSE f[x]]

Goto(t, from, to) == pc[t] = from /\ pc' = [pc EXCEPT ![t] = to]

\* The program reads or writes memory it does not own: anything may follow.
Undefined(t) ==
  /\ pc' = [pc EXCEPT ![t] = "undefined"]
  /\ UNCHANGED <<heap, mutex, req, local, past, reply>>

HasEntry(n) == n \in live /\ entry[n] # Freed

\* Which node malloc gives makes no difference: to one that was freed, no
\* pointer is left that is not Freed.
Malloc == CHOOSE n \in Nodes \ live : TRUE

\* The nodes from h on, in the order of next.
Chained(h, nx) ==
  LET at[i \in 0..Cardinality(Nodes)] ==
        IF i = 0 THEN h ELSE IF at[i-1] \in Nodes THEN nx[at[i-1]] ELSE Null
  IN [i \in 1..Cardinality({j \in DOMAIN at : at[j] \in Nodes}) |-> at[i-1]]

EntriesFrom(h, nx, en) == LET c == Chained(h, nx) IN [i \in 1..Len(c) |-> en[c[i]]]

\* The value of the first entry of k in the sequence l.
Value(l, k) ==
  IF \E i \in 1..Len(l) : l[i].key = k
  THEN l[CHOOSE i \in 1..Len(l) : l[i].key = k
                  /\ \A j \in 1..(i-1) : l[j].key # k].value
  ELSE Absent

-----------------------------------------------------------------------------
(* invoke: a request comes in, its answer goes out *)

FirstStep == [put |-> "put", get |-> "get", del |-> "get", size |-> "size",
              getkeys |-> "count", gettable |-> "count"]

Asks(t) == Ops \cap ((IF t \in Writers THEN {"put", "del"} ELSE {})
                    \cup (IF t \in Readers THEN {"get", "size", "getkeys", "gettable"} ELSE {}))

\* What the thread that holds the mutex will have done to key k.
Doing(k) ==
  {IF req[t].op = "put" THEN req[t].value ELSE Absent :
     t \in {u \in Threads : mutex = u /\ req[u].key = k}}

Request(t) ==
  /\ pc[t] = "idle"
  /\ \E op \in Asks(t), k \in Keys, v \in Values :
       /\ req' = [req EXCEPT ![t] =
            [op |-> op, key |-> IF op \in {"put", "get", "del"} THEN k ELSE Null,
             value |-> IF op = "put" THEN v ELSE Absent]]
       /\ pc' = [pc EXCEPT ![t] = FirstStep[op]]
       /\ seen' = [seen EXCEPT ![t] =
            IF op = "get" THEN {Value(list, k)} \cup Doing(k) ELSE {}]
       /\ calm' = [calm EXCEPT ![t] = mutex = Null]
  /\ UNCHANGED <<heap, mutex, local, list, reply>>

Answer(t) ==
  /\ Goto(t, "answer", "idle")
  /\ req' = [req EXCEPT ![t] = Nobody]
  /\ cur' = [cur EXCEPT ![t] = Null]
  /\ new' = [new EXCEPT ![t] = Null]
  /\ cap' = [cap EXCEPT ![t] = <<0, 0>>]
  /\ keys' = [keys EXCEPT ![t] = <<>>]
  /\ res' = [res EXCEPT ![t] = <<>>]
  /\ seen' = [seen EXCEPT ![t] = {}]
  /\ UNCHANGED <<heap, mutex, list, calm, reply>>

Answers(t, r) ==
  /\ pc' = [pc EXCEPT ![t] = "answer"]
  /\ res' = [res EXCEPT ![t] = r]

\* Mutant: table_mutex is not taken.
LockNothing(t) ==
  /\ mutex' = t
  /\ UNCHANGED <<seen, calm>>
  /\ cur' = [cur EXCEPT ![t] = head]

Lock(t) ==
  /\ mutex = Null
  /\ mutex' = t
  /\ seen' = [u \in Threads |->
       IF req[u].op = "get" /\ req[u].key = req[t].key
       THEN seen[u] \cup {req[t].value} ELSE seen[u]]
  /\ calm' = [u \in Threads |-> calm[u] /\ u = t]
  /\ cur' = [cur EXCEPT ![t] = head]

\* The call returns r, and what it left is the new content of the table.
Unlock(t, call, r) ==
  /\ mutex' = Null
  /\ Answers(t, IF r = 0 THEN <<>> ELSE <<Absent>>)
  /\ reply' = Append(call, r)
  /\ list' = EntriesFrom(head', next', entry')

-----------------------------------------------------------------------------
(* list_add, under table_mutex *)

LockAdd(t) ==
  /\ Goto(t, "put", IF size = 0 THEN "first" ELSE "add")
  /\ Lock(t)
  /\ Nodes # live
  /\ LET n == Malloc IN
       /\ live' = live \cup {n}
       /\ entry' = [entry EXCEPT ![n] = [key |-> req[t].key, value |-> req[t].value]]
       /\ next' = [next EXCEPT ![n] = Null]
       /\ prev' = [prev EXCEPT ![n] = Null]
       /\ new' = [new EXCEPT ![t] = n]
  /\ UNCHANGED <<head, size, req, cap, keys, res, list, reply>>

AddCompare(t) ==
  /\ pc[t] = "add"
  /\ IF ~HasEntry(cur[t]) THEN Undefined(t)
     ELSE LET order == Strcmp(entry[cur[t]].key, req[t].key)
              last == next[cur[t]] = Null
          IN /\ pc' = [pc EXCEPT ![t] =
                  IF order = 0 THEN "replace"
                  ELSE IF order = 1 THEN IF cur[t] = head THEN "push" ELSE "insert"
                  ELSE IF last THEN "append" ELSE "add"]
             /\ cur' = IF order \notin {0, 1} /\ ~last
                       THEN [cur EXCEPT ![t] = next[@]] ELSE cur
             /\ UNCHANGED <<heap, mutex, req, new, cap, keys, res, past, reply>>

\* A list of size 0 gets its first node.
AddFirst(t) ==
  /\ Goto(t, "first", "grow")
  /\ head' = new[t]
  /\ UNCHANGED <<size, next, prev, entry, live, mutex, req, local, past, reply>>

\* The new head is there before it has a next.
Push(t) ==
  /\ Goto(t, "push", "pushed")
  /\ head' = new[t]
  /\ UNCHANGED <<size, next, prev, entry, live, mutex, req, local, past, reply>>

PushLink(t) ==
  /\ Goto(t, "pushed", "grow")
  /\ next' = [next EXCEPT ![new[t]] = cur[t]]
  /\ prev' = [prev EXCEPT ![cur[t]] = new[t]]
  /\ UNCHANGED <<head, size, entry, live, mutex, req, local, past, reply>>

\* So is a node that goes in between.
Insert(t) ==
  /\ pc[t] = "insert"
  /\ IF prev[cur[t]] \notin live THEN Undefined(t)
     ELSE /\ Goto(t, "insert", "inserted")
          /\ next' = [next EXCEPT ![prev[cur[t]]] = new[t]]
          /\ UNCHANGED <<head, size, prev, entry, live, mutex, req, local, past, reply>>

InsertLink(t) ==
  /\ Goto(t, "inserted", "grow")
  /\ prev' = [prev EXCEPT ![new[t]] = prev[cur[t]], ![cur[t]] = new[t]]
  /\ next' = [next EXCEPT ![new[t]] = cur[t]]
  /\ UNCHANGED <<head, size, entry, live, mutex, req, local, past, reply>>

AddLast(t) ==
  /\ Goto(t, "append", "grow")
  /\ prev' = [prev EXCEPT ![new[t]] = cur[t]]
  /\ next' = [next EXCEPT ![cur[t]] = new[t]]
  /\ UNCHANGED <<head, size, entry, live, mutex, req, local, past, reply>>

PutReturns(t) == Unlock(t, <<"put", req[t].key, req[t].value>>, 0)

\* Mutant: an insertion does not count.
AddUncounted(t) ==
  /\ pc[t] = "grow"
  /\ UNCHANGED heap
  /\ PutReturns(t)
  /\ UNCHANGED <<req, cur, new, cap, keys, seen, calm>>

AddGrow(t) ==
  /\ pc[t] = "grow"
  /\ size' = size + 1
  /\ UNCHANGED <<head, next, prev, entry, live>>
  /\ PutReturns(t)
  /\ UNCHANGED <<req, cur, new, cap, keys, seen, calm>>

\* entry_destroy of the entry at n: who has found it holds freed memory.
EntryDestroy(t, n) ==
  /\ entry' = [entry EXCEPT ![n] = Freed]
  /\ cur' = [u \in Threads |->
               IF u # t /\ pc[u] = "copy" /\ cur[u] = n THEN Freed ELSE cur[u]]

Replace(t) ==
  /\ Goto(t, "replace", "reuse")
  /\ EntryDestroy(t, cur[t])
  /\ UNCHANGED <<head, size, next, prev, live, mutex, req, new, cap, keys, res,
                 past, reply>>

ReplaceReuse(t) ==
  /\ pc[t] = "reuse"
  /\ entry' = [entry EXCEPT ![cur[t]] = entry[new[t]], ![new[t]] = Freed]
  /\ live' = live \ {new[t]}
  /\ UNCHANGED <<head, size, next, prev>>
  /\ PutReturns(t)
  /\ UNCHANGED <<req, cur, new, cap, keys, seen, calm>>

-----------------------------------------------------------------------------
(* list_remove, under table_mutex *)

LockRemove(t) ==
  /\ Goto(t, "del", "rm")
  /\ Lock(t)
  /\ UNCHANGED <<heap, req, new, cap, keys, res, list, reply>>

RemoveReturns(t, r) == Unlock(t, <<"remove", req[t].key>>, r)

RemoveCompare(t) ==
  /\ pc[t] = "rm"
  /\ IF cur[t] # Null /\ ~HasEntry(cur[t]) THEN Undefined(t)
     ELSE \/ /\ cur[t] = Null
             /\ UNCHANGED heap
             /\ RemoveReturns(t, 1)
             /\ UNCHANGED <<req, cur, new, cap, keys, seen, calm>>
          \/ /\ cur[t] # Null
             /\ entry[cur[t]].key = req[t].key
             /\ Goto(t, "rm", "unlink")
             /\ UNCHANGED <<heap, mutex, req, local, past, reply>>
          \/ /\ cur[t] # Null
             /\ entry[cur[t]].key # req[t].key
             /\ cur' = [cur EXCEPT ![t] = next[@]]
             /\ UNCHANGED <<heap, mutex, pc, req, new, cap, keys, res, past, reply>>

\* Mutant: the node behind keeps its prev.
UnlinkForwardOnly(t) == LET n == cur[t] IN
  /\ Goto(t, "unlink", "destroy")
  /\ IF n = head
     THEN head' = next[n] /\ UNCHANGED next
     ELSE next' = [next EXCEPT ![prev[n]] = next[n]] /\ UNCHANGED head
  /\ UNCHANGED <<size, prev, entry, live, mutex, req, local, past, reply>>

\* The new head keeps its prev, which is freed next.
Unlink(t) == LET n == cur[t] IN
  /\ pc[t] = "unlink"
  /\ IF n # head /\ prev[n] \notin live THEN Undefined(t)
     ELSE /\ Goto(t, "unlink", "destroy")
          /\ IF n = head
             THEN head' = next[n] /\ UNCHANGED <<next, prev>>
             ELSE /\ next' = [next EXCEPT ![prev[n]] = next[n]]
                  /\ prev' = IF next[n] = Null THEN prev
                             ELSE [prev EXCEPT ![next[n]] = prev[n]]
                  /\ UNCHANGED head
          /\ UNCHANGED <<size, entry, live, mutex, req, local, past, reply>>

RemoveDestroy(t) ==
  /\ Goto(t, "destroy", "free")
  /\ EntryDestroy(t, cur[t])
  /\ UNCHANGED <<head, size, next, prev, live, mutex, req, new, cap, keys, res,
                 past, reply>>

RemoveFree(t) == LET n == cur[t] IN
  /\ pc[t] = "free"
  /\ live' = live \ {n}
  /\ next' = [Forget(next, n) EXCEPT ![n] = Null]
  /\ prev' = [Forget(prev, n) EXCEPT ![n] = Null]
  /\ cur' = Forget(cur, n)
  /\ size' = size - 1
  /\ UNCHANGED <<head, entry>>
  /\ RemoveReturns(t, 0)
  /\ UNCHANGED <<req, new, cap, keys, seen, calm>>

-----------------------------------------------------------------------------
(* table_get, without table_mutex: for GET, the check of DEL, and GETTABLE *)

\* GETTABLE has the answer in the making in res.
Wanted(t) == IF req[t].op = "gettable" THEN keys[t][Len(res[t]) + 1] ELSE req[t].key

\* An array of keys ends with NULL.
GetBegin(t) ==
  /\ pc[t] = "get"
  /\ IF req[t].op = "gettable" /\ Len(res[t]) = Len(keys[t]) THEN Undefined(t)
     ELSE /\ Goto(t, "get", "walk")
          /\ cur' = [cur EXCEPT ![t] = head]
          /\ UNCHANGED <<heap, mutex, req, new, cap, keys, res, past, reply>>

\* What a read returns to invoke; the history has it if nobody wrote meanwhile.
Returned(t, call) == reply' = IF calm[t] THEN call ELSE reply

\* A GETTABLE that fails here sends entries that it has not written.
GetReturns(t, v) ==
  /\ Returned(t, <<"get", Wanted(t), v>>)
  /\ CASE req[t].op = "get" -> Answers(t, <<v>>)
       [] req[t].op = "del" ->
            IF v = Absent THEN Answers(t, <<Absent>>)
            ELSE pc' = [pc EXCEPT ![t] = "del"] /\ UNCHANGED res
       [] req[t].op = "gettable" ->
            IF v = Absent THEN pc' = [pc EXCEPT ![t] = "undefined"] /\ UNCHANGED res
            ELSE /\ res' = [res EXCEPT ![t] = Append(@, v)]
                 /\ pc' = [pc EXCEPT ![t] =
                      IF Len(res[t]) + 1 = cap[t][1] THEN "answer" ELSE "get"]
  /\ UNCHANGED <<heap, mutex, req, cur, new, cap, keys, past>>

\* Mutant: the walk stops at the first key that is not smaller.
GetNotSmaller(t) ==
  /\ pc[t] = "walk"
  /\ \/ cur[t] = Null /\ GetReturns(t, Absent)
     \/ cur[t] # Null /\ ~HasEntry(cur[t]) /\ Undefined(t)
     \/ /\ HasEntry(cur[t])
        /\ Goto(t, "walk", IF Strcmp(entry[cur[t]].key, Wanted(t)) >= 0 THEN "copy" ELSE "next")
        /\ UNCHANGED <<heap, mutex, req, local, past, reply>>

GetCompare(t) ==
  /\ pc[t] = "walk"
  /\ \/ cur[t] = Null /\ GetReturns(t, Absent)
     \/ cur[t] # Null /\ ~HasEntry(cur[t]) /\ Undefined(t)
     \/ /\ HasEntry(cur[t])
        /\ Goto(t, "walk", IF entry[cur[t]].key = Wanted(t) THEN "copy" ELSE "next")
        /\ UNCHANGED <<heap, mutex, req, local, past, reply>>

\* Mutant: a walk does not go on to a next that is NULL.
AdvanceToNode(t, from, to) ==
  /\ pc[t] = from
  /\ IF cur[t] \notin live THEN Undefined(t)
     ELSE /\ Goto(t, from, to)
          /\ cur' = [cur EXCEPT ![t] = IF next[@] = Null THEN @ ELSE next[@]]
          /\ UNCHANGED <<heap, mutex, req, new, cap, keys, res, past, reply>>

\* current = current->next, of list_get and of list_get_keys.
Advance(t, from, to) ==
  /\ pc[t] = from
  /\ IF cur[t] \notin live THEN Undefined(t)
     ELSE /\ Goto(t, from, to)
          /\ cur' = [cur EXCEPT ![t] = next[@]]
          /\ UNCHANGED <<heap, mutex, req, new, cap, keys, res, past, reply>>

GetNext(t) == Advance(t, "next", "walk")

\* block_duplicate of the value.
GetCopy(t) ==
  /\ pc[t] = "copy"
  /\ IF HasEntry(cur[t]) THEN GetReturns(t, entry[cur[t]].value) ELSE Undefined(t)

-----------------------------------------------------------------------------
(* table_size and table_get_keys, without table_mutex *)

Size(t) ==
  /\ pc[t] = "size"
  /\ Returned(t, <<"size", size>>)
  /\ Answers(t, <<>>)
  /\ UNCHANGED <<heap, mutex, req, cur, new, cap, keys, past>>

KeysCount(t) ==
  /\ pc[t] = "count"
  /\ IF size <= 0
     THEN Answers(t, <<Absent>>) /\ Returned(t, <<"keys", Absent>>) /\ UNCHANGED cap
     ELSE /\ Goto(t, "count", "lempty")
          /\ cap' = [cap EXCEPT ![t] = <<size, 0>>]
          /\ UNCHANGED <<res, reply>>
  /\ UNCHANGED <<heap, mutex, req, cur, new, keys, past>>

\* list_get_keys gives NULL for a list without entries; it tests size and head,
\* and then reads each of them again.
KeysTest(t, p, q, none) ==
  /\ Goto(t, p, IF none THEN "copykeys" ELSE q)
  /\ keys' = [keys EXCEPT ![t] = IF none THEN Null ELSE @]
  /\ UNCHANGED <<heap, mutex, req, cur, new, cap, res, past, reply>>

KeysTestSize(t) == KeysTest(t, "lempty", "lhead", size <= 0)
KeysTestHead(t) == KeysTest(t, "lhead", "lsize", head = Null)

KeysAlloc(t) ==
  /\ Goto(t, "lsize", "khead")
  /\ cap' = [cap EXCEPT ![t][2] = size]
  /\ UNCHANGED <<heap, mutex, req, cur, new, keys, res, past, reply>>

KeysHead(t) ==
  /\ Goto(t, "khead", "kwalk")
  /\ cur' = [cur EXCEPT ![t] = head]
  /\ UNCHANGED <<heap, mutex, req, new, keys, cap, res, past, reply>>

\* The array has room for the size that was read, and the NULL behind.
KeysCompare(t) ==
  /\ pc[t] = "kwalk"
  /\ \/ /\ Len(keys[t]) > cap[t][2] \/ (cur[t] # Null /\ ~HasEntry(cur[t]))
        /\ Undefined(t)
     \/ /\ Len(keys[t]) <= cap[t][2] /\ (cur[t] = Null \/ HasEntry(cur[t]))
        /\ IF cur[t] = Null
           THEN Goto(t, "kwalk", "copykeys") /\ UNCHANGED keys
           ELSE /\ Goto(t, "kwalk", "knext")
                /\ keys' = [keys EXCEPT ![t] = Append(@, entry[cur[t]].key)]
        /\ UNCHANGED <<heap, mutex, req, cur, new, cap, res, past, reply>>

KeysNext(t) == Advance(t, "knext", "kwalk")

\* table_get_keys copies the keys of the list into its own array.
KeysCopy(t) ==
  /\ pc[t] = "copykeys"
  /\ IF size > 0 /\ (keys[t] = Null \/ Len(keys[t]) > cap[t][1]) THEN Undefined(t)
     ELSE /\ Goto(t, "copykeys", "nkeys")
          /\ keys' = [keys EXCEPT ![t] = IF size > 0 THEN @ ELSE <<>>]
          /\ Returned(t, <<"keys", keys'[t]>>)
          /\ UNCHANGED <<heap, mutex, req, cur, new, cap, res, past>>

\* A second table_size says how many keys there are: cap[t][1], of keys[t].
KeysAgain(t) ==
  /\ pc[t] = "nkeys"
  /\ Returned(t, <<"size", size>>)
  /\ IF req[t].op = "getkeys"
     THEN IF size > Len(keys[t])
          THEN pc' = [pc EXCEPT ![t] = "undefined"] /\ UNCHANGED res
          ELSE Answers(t, <<>>)
     ELSE IF size = 0 THEN Answers(t, <<>>)
          ELSE pc' = [pc EXCEPT ![t] = "get"] /\ UNCHANGED res
  /\ cap' = [cap EXCEPT ![t] = <<size, 0>>]
  /\ UNCHANGED <<heap, mutex, req, cur, new, keys, past>>

-----------------------------------------------------------------------------
Write(t) ==
  \/ LockAdd(t) \/ AddCompare(t) \/ AddFirst(t) \/ Push(t) \/ PushLink(t)
  \/ Insert(t) \/ InsertLink(t) \/ AddLast(t) \/ AddGrow(t)
  \/ Replace(t) \/ ReplaceReuse(t)
  \/ LockRemove(t) \/ RemoveCompare(t) \/ Unlink(t) \/ RemoveDestroy(t) \/ RemoveFree(t)

Read(t) ==
  \/ GetBegin(t) \/ GetCompare(t) \/ GetNext(t) \/ GetCopy(t)
  \/ Size(t) \/ KeysCount(t) \/ KeysTestSize(t) \/ KeysTestHead(t) \/ KeysAlloc(t)
  \/ KeysHead(t) \/ KeysCompare(t) \/ KeysNext(t) \/ KeysCopy(t) \/ KeysAgain(t)

Next == \E t \in Threads : Request(t) \/ Answer(t) \/ Write(t) \/ Read(t)

Spec == Init /\ [][Next]_vars

\* A thread that reads needs no lock; a mutex promises no turn to who waits.
ReadersRun == Spec /\ \A t \in Threads : WF_vars(Read(t))

-----------------------------------------------------------------------------
(* What table_mutex keeps, whatever readers do *)

TypeOK ==
  /\ head \in Nodes \cup {Null} /\ size \in Nat
  /\ next \in [Nodes -> Pointers] /\ prev \in [Nodes -> Pointers]
  /\ entry \in [Nodes -> Entries \cup {Freed}]
  /\ live \subseteq Nodes
  /\ mutex \in Threads \cup {Null}
  /\ pc \in [Threads -> Reading \cup Writing \cup {"idle", "put", "del", "answer", "undefined"}]
  /\ cur \in [Threads -> Pointers] /\ new \in [Threads -> Nodes \cup {Null}]
  /\ list \in Seq(Entries)

\* Who holds table_mutex only ever reads and writes nodes of the list: it
\* follows no prev that is NULL or was freed (list_add, list_remove).
WriterDefined == \A t \in Threads : mutex = t => pc[t] \in Writing

\* A writer leaves nodes in a chain without a cycle, each with its entry and,
\* but the head, with the prev that a later insertion or removal follows; none
\* is lost, and size counts them.
WellLinked == mutex = Null =>
  LET c == Chained(head, next) IN
  /\ IsInjective(c)
  /\ Range(c) = live
  /\ \A n \in live : entry[n] \in Entries
  /\ \A i \in 2..Len(c) : prev[c[i]] = c[i-1]
  /\ size = Len(c)
  /\ list = EntriesFrom(head, next, entry)

\* What GET answers, though it takes no mutex, is a value that the table had
\* when it asked or that a put of that time wrote: a reader that gets away with
\* it sees no value of long ago, and none of another key.
GetReturnsWritten == \A t \in Threads :
  pc[t] = "answer" /\ req[t].op = "get" => Range(res[t]) \subseteq seen[t] \cup {Absent}

\* What the table as it is makes the answer to the request of t.
Exact(t) == LET k == req[t].key IN
  CASE req[t].op = "put" -> Value(list, k) = req[t].value
    [] req[t].op = "del" -> Value(list, k) = Absent
    [] req[t].op = "get" -> res[t] = <<Value(list, k)>>
    [] req[t].op = "size" -> size = Len(list)
    [] req[t].op \in {"getkeys", "gettable"} /\ list = <<>> -> res[t] = <<Absent>>
    [] req[t].op = "getkeys" /\ list # <<>> ->
         keys[t] = [i \in 1..cap[t][1] |-> list[i].key] /\ cap[t][1] = Len(list)
    [] req[t].op = "gettable" /\ list # <<>> -> res[t] = [i \in 1..Len(list) |-> list[i].value]

\* An operation that no put or del of another thread overlapped stays in its own
\* memory and answers exactly what the table has, although GETKEYS and GETTABLE
\* read size three times and GETTABLE looks up again the keys it has copied.
CalmAnswersExact == \A t \in Threads : calm[t] =>
  pc[t] # "undefined" /\ (pc[t] = "answer" => Exact(t))

\* A reader gets to the end of the list or to freed memory, however many entries
\* writers put in front of it meanwhile: it never goes round in a chain.
ReadersReturn == \A t \in Threads : pc[t] \in Reading ~> pc[t] \notin Reading

\* Nodes, pointers and steps are the lists and the calls of HashTable: all those
\* of writers, and those of readers that no writer overlapped.
H == INSTANCE HashTable WITH
  lists <- [i \in 0..(NLists - 1) |-> IF i = 0 THEN list ELSE <<>>]

NodesImplementTable == H!Spec

-----------------------------------------------------------------------------
(* What the comments of the sources say *)

\* table_get gives a copy of the data of the key, NULL if there is none: a key
\* that stays in the table throughout the call is found.
PresentKeyFound == \A t \in Threads :
  pc[t] = "answer" /\ req[t].op = "get" /\ res[t] = <<Absent>> => Absent \in seen[t]

\* table_get gives a copy: nobody frees it under the caller, or before.
CopyIsDefined == \A t \in Threads : req[t].op = "get" => pc[t] # "undefined"

\* invoke counts how many keys it got (server_skeleton.c:152).
KeysCounted == \A t \in Threads :
  req[t].op \in {"getkeys", "gettable"} /\ pc[t] \in {"answer", "get"} /\ res[t] # <<Absent>>
    => cap[t][1] = Len(keys[t])

\* list-private.h: prev is NULL in the head.
HeadHasNoPrev == mutex = Null /\ head # Null => prev[head] = Null
=============================================================================
