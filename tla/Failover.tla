------------------------------ MODULE Failover ------------------------------
(***************************************************************************)
(* The chain while servers die and join: one client updates, the servers   *)
(* forward, ZooKeeper's watchers move the links, and a joining server      *)
(* copies its predecessor's table (set_table).  Chain has what happens on  *)
(* one socket, Membership how the links and the copy's source are chosen;  *)
(* here a request arrives whole, a watcher reads the children at once, and *)
(* no call to ZooKeeper fails.                                             *)
(***************************************************************************)
EXTENDS Integers, Sequences, FiniteSetsExt

CONSTANTS N,       \* servers are numbered in the order of their znodes
          Start,   \* the servers 1..Start are there from the start
          Crashes, \* servers that may die
          NKeys,   \* keys are numbered in the order of their names
          MaxId    \* bound: the client sends that many updates

\* The client and server 1 stay; their failure is Chain's and ClientView's.
ASSUME FailoverAssumption ==
  /\ N \in Nat /\ NKeys \in Nat /\ MaxId \in Nat
  /\ Start \in 1..N
  /\ Crashes \subseteq 2..N

Servers == 1..N
Keys    == 1..NKeys
Client  == 0

VARIABLES
  proc,    \* proc[s]: what main is at, "down" or "undefined"
  source,  \* source[s]: prev_server of set_table
  znodes,  \* servers that have a znode
  watch,   \* watch[s]: my_watcher_fn has an event
  link,    \* link[s]: sucessor_server, 0 for NULL
  table,   \* table[s][k]: the update that put what k has, 0 if k is absent
  sent,    \* sent[f][s]: requests from f that s has not received
  answers, \* answers[f][s]: how many answers of s wait for f
  thread,  \* thread[f][s]: the client_handler of s for the connection of f
  client,  \* "idle" or "waits"
  lastId,  \* of the client's updates
  got,     \* got[s]: the entries that s was sent by rtable_get_table, as a table
  had,     \* history: had[s]: the puts that s has ever had in its table
  clean,   \* history: clean[s]: linked before it copied, from a clean server, and
           \* counted right
  inner    \* history: a server died that was not the last

vars == <<proc, source, znodes, watch, link, table, sent, answers, thread, client,
          lastId, got, had, clean, inner>>

Updates == [op : {"put", "del"}, key : Keys, id : 1..MaxId]
Senders == Servers \cup {Client}
Idle    == [pc |-> "idle"]

\* Mutant: requests are served while the table is copied.
ServesEarly(s) == proc[s] \in {"gettable", "size", "up"}

Serves(s) == proc[s] = "up"
Alive(s)  == proc[s] \in {"set_table", "gettable", "size", "up"}
Empty     == [k \in Keys |-> 0]

Init ==
  /\ proc = [s \in Servers |-> IF s <= Start THEN "up" ELSE "absent"]
  /\ source = [s \in Servers |-> 0]
  /\ znodes = 1..Start
  /\ watch = [s \in Servers |-> FALSE]
  /\ link = [s \in Servers |-> IF s < Start THEN s + 1 ELSE 0]
  /\ table = [s \in Servers |-> Empty]
  /\ sent = [f \in Senders |-> [s \in Servers |-> <<>>]]
  /\ answers = [f \in Senders |-> [s \in Servers |-> 0]]
  /\ thread = [f \in Senders |-> [s \in Servers |-> Idle]]
  /\ client = "idle"
  /\ lastId = 0
  /\ got = [s \in Servers |-> Empty]
  /\ had = [s \in Servers |-> {}]
  /\ clean = [s \in Servers |-> s <= Start]
  /\ inner = FALSE

-----------------------------------------------------------------------------
(* An update *)

Send ==
  /\ client = "idle" /\ lastId < MaxId
  /\ \E op \in {"put", "del"}, k \in Keys :
       sent' = [sent EXCEPT ![Client][1] =
                  Append(@, [op |-> op, key |-> k, id |-> lastId + 1])]
  /\ client' = "waits"
  /\ lastId' = lastId + 1
  /\ UNCHANGED <<proc, source, znodes, watch, link, table, answers, thread, got, had, clean, inner>>

Put(s, k, id) ==
  /\ table' = [table EXCEPT ![s][k] = id]
  /\ had' = [had EXCEPT ![s] = @ \cup {id}]

Del(s, k) == table' = [table EXCEPT ![s][k] = 0] /\ UNCHANGED had

\* invoke; a del of an absent key is an error and goes no further.
Execute(f, s) == LET u == Head(sent[f][s]) IN
  /\ Serves(s) /\ thread[f][s] = Idle /\ sent[f][s] # <<>>
  /\ sent' = [sent EXCEPT ![f][s] = Tail(@)]
  /\ IF u.op = "put" THEN Put(s, u.key, u.id) ELSE Del(s, u.key)
  /\ thread' = [thread EXCEPT ![f][s] =
       IF u.op = "put" \/ table[s][u.key] # 0
       THEN [pc |-> "forward", upd |-> u] ELSE [pc |-> "answer"]]
  /\ UNCHANGED <<proc, source, znodes, watch, link, answers, client, lastId, got, clean, inner>>

Goto(f, s, t) == thread' = [thread EXCEPT ![f][s] = t]

\* Mutants: dels are not forwarded; nor is anything to a server that is joining.
ForwardPuts(f, s) == LET l == link[s] IN
  /\ Serves(s) /\ thread[f][s].pc = "forward"
  /\ IF l # 0 /\ Alive(l) /\ thread[f][s].upd.op = "put"
     THEN /\ sent' = [sent EXCEPT ![s][l] = Append(@, thread[f][s].upd)]
          /\ Goto(f, s, [pc |-> "waits", on |-> l])
     ELSE Goto(f, s, [pc |-> "answer"]) /\ UNCHANGED sent
  /\ UNCHANGED <<proc, source, znodes, watch, link, table, answers, client, lastId, got, had, clean, inner>>

ForwardToServing(f, s) == LET l == link[s] IN
  /\ Serves(s) /\ thread[f][s].pc = "forward"
  /\ IF l # 0 /\ Serves(l)
     THEN /\ sent' = [sent EXCEPT ![s][l] = Append(@, thread[f][s].upd)]
          /\ Goto(f, s, [pc |-> "waits", on |-> l])
     ELSE Goto(f, s, [pc |-> "answer"]) /\ UNCHANGED sent
  /\ UNCHANGED <<proc, source, znodes, watch, link, table, answers, client, lastId, got, had, clean, inner>>

\* A write to a server that has died may succeed, and the read then fail, or
\* it fails and write_all never returns.
Forward(f, s) == LET l == link[s] IN
  /\ Serves(s) /\ thread[f][s].pc = "forward"
  /\ \/ l = 0 /\ Goto(f, s, [pc |-> "answer"]) /\ UNCHANGED sent
     \/ /\ l # 0 /\ Alive(l)
        /\ sent' = [sent EXCEPT ![s][l] = Append(@, thread[f][s].upd)]
        /\ Goto(f, s, [pc |-> "waits", on |-> l])
     \/ /\ l # 0 /\ ~Alive(l)
        /\ \/ Goto(f, s, [pc |-> "answer"])
           \/ Goto(f, s, [pc |-> "stuck"])
        /\ UNCHANGED sent
  /\ UNCHANGED <<proc, source, znodes, watch, link, table, answers, client, lastId, got, had, clean, inner>>

\* The result of rtable_put or rtable_del is ignored.
Forwarded(f, s) ==
  /\ Serves(s) /\ thread[f][s].pc = "waits"
  /\ LET l == thread[f][s].on IN
       \/ /\ answers[s][l] > 0
          /\ answers' = [answers EXCEPT ![s][l] = @ - 1]
       \/ ~Alive(l) /\ answers[s][l] = 0 /\ UNCHANGED answers
  /\ Goto(f, s, [pc |-> "answer"])
  /\ UNCHANGED <<proc, source, znodes, watch, link, table, sent, client, lastId, got, had, clean, inner>>

Answer(f, s) ==
  /\ Serves(s) /\ thread[f][s].pc = "answer"
  /\ Goto(f, s, Idle)
  /\ IF f = Client THEN client' = "idle" /\ UNCHANGED answers
     ELSE answers' = [answers EXCEPT ![f][s] = IF Serves(f) THEN @ + 1 ELSE @] /\ UNCHANGED client
  /\ UNCHANGED <<proc, source, znodes, watch, link, table, sent, lastId, got, had, clean, inner>>

-----------------------------------------------------------------------------
(* A server dies; watchers *)

Notify == watch' = [s \in Servers |-> Alive(s)]

\* What it has sent stays in the sockets; its znode stays until the session ends.
Crash(s) ==
  /\ s \in Crashes /\ Alive(s)
  /\ proc' = [proc EXCEPT ![s] = "down"]
  /\ sent' = [f \in Senders |-> [sent[f] EXCEPT ![s] = <<>>]]
  /\ thread' = [f \in Senders |-> [thread[f] EXCEPT ![s] = Idle]]
  /\ inner' = (inner \/ \E o \in (s+1)..N : proc[o] # "absent")
  /\ UNCHANGED <<source, znodes, watch, link, table, answers, client, lastId, got, had, clean>>

Expire(s) ==
  /\ s \in znodes /\ proc[s] \in {"down", "undefined"}
  /\ znodes' = znodes \ {s}
  /\ UNCHANGED proc
  /\ Notify
  /\ UNCHANGED <<source, link, table, sent, answers, thread, client, lastId, got, had, clean, inner>>

Younger(s) == {z \in znodes : z > s}

\* Mutants: there always is a next; the last child is taken for the next.
RelinkPastEnd(s) ==
  /\ Alive(s) /\ watch[s]
  /\ watch' = [watch EXCEPT ![s] = FALSE]
  /\ link' = [link EXCEPT ![s] = s + 1]
  /\ UNCHANGED <<proc, source, znodes, table, sent, answers, thread, client, lastId, got, had, clean, inner>>

RelinkLast(s) ==
  /\ Alive(s) /\ watch[s]
  /\ watch' = [watch EXCEPT ![s] = FALSE]
  /\ link' = [link EXCEPT ![s] =
       IF Younger(s) = {} THEN 0
       ELSE IF Alive(Max(Younger(s))) THEN Max(Younger(s)) ELSE 0]
  /\ UNCHANGED <<proc, source, znodes, table, sent, answers, thread, client, lastId, got, had, clean, inner>>

\* my_watcher_fn: the next child becomes the successor, if it is it already or
\* can be reached.
Relink(s) ==
  /\ Alive(s) /\ watch[s]
  /\ watch' = [watch EXCEPT ![s] = FALSE]
  /\ link' = [link EXCEPT ![s] =
       IF Younger(s) = {} THEN 0
       ELSE LET n == Min(Younger(s)) IN IF link[s] = n \/ Alive(n) THEN n ELSE 0]
  /\ UNCHANGED <<proc, source, znodes, table, sent, answers, thread, client, lastId, got, had, clean, inner>>

-----------------------------------------------------------------------------
(* A server joins *)

\* It listens, has a znode and may be forwarded to, but serves nobody yet.
Join(s) ==
  /\ proc[s] = "absent" /\ \A o \in 1..(s-1) : proc[o] # "absent"
  /\ proc' = [proc EXCEPT ![s] = "set_table"]
  /\ znodes' = znodes \cup {s}
  /\ Notify
  /\ UNCHANGED <<source, link, table, sent, answers, thread, client, lastId, got, had, clean, inner>>

ChooseSource(s) == LET p == Max({z \in znodes : z < s}) IN
  /\ proc[s] = "set_table"
  /\ proc' = [proc EXCEPT ![s] = IF Alive(p) THEN "gettable" ELSE "down"]
  /\ source' = [source EXCEPT ![s] = p]
  /\ UNCHANGED <<znodes, watch, link, table, sent, answers, thread, client, lastId, got, had, clean, inner>>

\* A table without entries is sent as an error, which gives NULL.
Present(t) == {k \in Keys : t[k] # 0}

GetTable(s) == LET p == source[s] IN
  /\ proc[s] = "gettable" /\ Serves(p)
  /\ proc' = [proc EXCEPT ![s] = "size"]
  /\ got' = [got EXCEPT ![s] = table[p]]
  /\ clean' = [clean EXCEPT ![s] = clean[p] /\ link[p] = s]
  /\ UNCHANGED <<source, znodes, watch, link, table, sent, answers, thread, client, lastId, had, inner>>

\* The first n entries that s was sent, in the order of the list.
Copied(s, n) == [k \in Keys |->
  IF Cardinality({j \in Present(got[s]) : j <= k}) <= n THEN got[s][k] ELSE 0]

\* rtable_size says how many entries to put; there may be fewer.
Size(s) == LET n == Cardinality(Present(table[source[s]]))
               received == Cardinality(Present(got[s])) IN
  /\ proc[s] = "size" /\ Serves(source[s])
  /\ IF n > received
     THEN proc' = [proc EXCEPT ![s] = "undefined"] /\ UNCHANGED <<table, had, clean>>
     ELSE /\ proc' = [proc EXCEPT ![s] = "up"]
          /\ table' = [table EXCEPT ![s] = Copied(s, n)]
          /\ had' = [had EXCEPT ![s] = {Copied(s, n)[k] : k \in Keys} \ {0}]
          /\ clean' = [clean EXCEPT ![s] = @ /\ n = received]
  /\ UNCHANGED <<source, znodes, watch, link, sent, answers, thread, client, lastId, got, inner>>

\* When the predecessor dies first, rtable_size says -1, which i, a size_t,
\* does not reach before it reads behind the entries (or waits in write_all).
CopyFails(s) ==
  /\ proc[s] \in {"gettable", "size"} /\ ~Alive(source[s])
  /\ proc' = [proc EXCEPT ![s] = "undefined"]
  /\ UNCHANGED <<source, znodes, watch, link, table, sent, answers, thread, client,
                 lastId, got, had, clean, inner>>

-----------------------------------------------------------------------------
Next ==
  \/ Send
  \/ \E f \in Senders, s \in Servers :
       Execute(f, s) \/ Forward(f, s) \/ Forwarded(f, s) \/ Answer(f, s)
  \/ \E s \in Servers :
       Crash(s) \/ Expire(s) \/ Relink(s) \/ Join(s) \/ ChooseSource(s)
       \/ GetTable(s) \/ Size(s) \/ CopyFails(s)

Spec == Init /\ [][Next]_vars

-----------------------------------------------------------------------------
TypeOK ==
  /\ proc \in [Servers -> {"absent", "set_table", "gettable", "size", "up", "down", "undefined"}]
  /\ source \in [Servers -> 0..N] /\ link \in [Servers -> 0..N]
  /\ znodes \subseteq Servers
  /\ watch \in [Servers -> BOOLEAN] /\ clean \in [Servers -> BOOLEAN]
  /\ table \in [Servers -> [Keys -> 0..MaxId]]
  /\ sent \in [Senders -> [Servers -> Seq(Updates)]]
  /\ answers \in [Senders -> [Servers -> Nat]]
  /\ client \in {"idle", "waits"} /\ lastId \in 0..MaxId
  /\ had \in [Servers -> SUBSET (1..MaxId)]

\* Whoever dies or joins, a server never has a value that an older server that
\* still serves has never had: no link and no copy brings data round the chain.
UpstreamFirst == \A s, o \in Servers :
  o < s /\ Serves(o) => \A k \in Keys : table[s][k] \in had[o] \cup {0}

\* Nothing is on the way and every link is where ZooKeeper says.
AtRest ==
  /\ client = "idle"
  /\ \A s \in Servers :
       /\ ~watch[s] /\ proc[s] \notin {"set_table", "gettable", "size"}
       /\ s \in znodes => Serves(s)
       /\ Serves(s) => \A f \in Senders :
            sent[f][s] = <<>> /\ thread[f][s] = Idle

\* At rest the servers have the same table.
TablesAgree == AtRest =>
  \A s, o \in Servers : Serves(s) /\ Serves(o) => table[s] = table[o]

\* Unless a server in the middle died, those that were linked before they copied,
\* from one that was too, and counted right what they were sent, miss nothing:
\* neither what was updated during the copy, nor what was on its way to a last
\* server that died.
CleanJoinsAgree == AtRest /\ ~inner =>
  \A s, o \in Servers : Serves(s) /\ Serves(o) /\ clean[s] /\ clean[o] => table[s] = table[o]

Newer == \A s \in Servers, k \in Keys :
  table[s][k] # 0 /\ table'[s][k] # 0 => table'[s][k] >= table[s][k]

\* Nor is, on any server, the value of a key replaced by an older one: the copy of
\* a server that joins and the updates it is forwarded take effect in order.
NewerUnlessInnerDied == [][~inner => Newer]_vars

\* The client's updates take effect in its order on every server.
NeverOlder == [][Newer]_vars

\* A server that joins copies the whole table of another.
JoinsDefined == \A s \in Servers : proc[s] # "undefined"
=============================================================================
