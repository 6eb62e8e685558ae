----------------------------- MODULE Membership -----------------------------
(***************************************************************************)
(* How a server finds its place in the chain: the znodes under /chain, the *)
(* one-shot watches of ZooKeeper, and the two threads of server_network.c  *)
(* that read them: main (server_network_init, set_table) and the thread of *)
(* the ZooKeeper library that runs my_watcher_fn.  A server that restarts  *)
(* is another element of Servers.  Sessions end only with their process.   *)
(***************************************************************************)
EXTENDS Integers, FiniteSets

CONSTANTS Servers,    \* server processes, in the order nobody knows yet
          None,       \* NULL, or an empty path
          MaxCrashes  \* bound: processes that are killed

ASSUME MembershipAssumption ==
  /\ IsFiniteSet(Servers)
  /\ None \notin Servers
  /\ MaxCrashes \in Nat

VARIABLES
  children,         \* the servers whose znode is under /chain
  born,             \* born[s]: number in the name of the znode of s, 0 without one
  created,          \* znodes created so far, which numbers them
  watch,            \* watch[s]: TRUE while ZooKeeper holds a watch of s
  events,           \* events[s]: child events on their way to s
  main,             \* main[s]: where the main thread is
  snapshot,         \* snapshot[s]: the children main read last
  source,           \* source[s]: the server set_table copies from
  watcher,          \* watcher[s]: where the thread in my_watcher_fn is
  view,             \* view[s]: the children it read last
  server_pos, sucessor_server, sucessor_path,
  raced,            \* history: the chain grew or changed under set_server of s
  failed,           \* history: a call of s to ZooKeeper or to a server failed
  crashes           \* counts Crash

zkVars      == <<children, born, created>>
watcherVars == <<watcher, view, sucessor_path>>
mainVars    == <<snapshot, source>>
histories   == <<raced, failed>>
vars == <<zkVars, watcherVars, mainVars, watch, events, main, server_pos,
          sucessor_server, histories, crashes>>

Mains == {"off", "created", "read", "placed", "set", "join", "pick", "connect",
          "copy", "serving", "dead"}
Watchers == {"idle", "place", "choose", "get", "connect"}

TypeOK ==
  /\ children \subseteq Servers
  /\ born \in [Servers -> Nat]
  /\ created \in Nat
  /\ watch \in [Servers -> BOOLEAN]
  /\ events \in [Servers -> Nat]
  /\ main \in [Servers -> Mains]
  /\ snapshot \in [Servers -> SUBSET Servers]
  /\ source \in [Servers -> Servers \cup {None}]
  /\ watcher \in [Servers -> Watchers]
  /\ view \in [Servers -> SUBSET Servers]
  /\ server_pos \in [Servers -> Int]
  /\ sucessor_server \in [Servers -> Servers \cup {None}]
  /\ sucessor_path \in [Servers -> Servers \cup {None}]
  /\ raced \in [Servers -> BOOLEAN] /\ failed \in [Servers -> BOOLEAN]
  /\ crashes \in Nat

Init ==
  /\ children = {}
  /\ born = [s \in Servers |-> 0]
  /\ created = 0
  /\ watch = [s \in Servers |-> FALSE]
  /\ events = [s \in Servers |-> 0]
  /\ main = [s \in Servers |-> "off"]
  /\ snapshot = [s \in Servers |-> {}]
  /\ source = [s \in Servers |-> None]
  /\ watcher = [s \in Servers |-> "idle"]
  /\ view = [s \in Servers |-> {}]
  /\ server_pos = [s \in Servers |-> -1]
  /\ sucessor_server = [s \in Servers |-> None]
  /\ sucessor_path = [s \in Servers |-> None]
  /\ raced = [s \in Servers |-> FALSE] /\ failed = [s \in Servers |-> FALSE]
  /\ crashes = 0

\* A process listens from its start, server_network_init, to its end ...
Up(s) == main[s] \notin {"off", "dead"}

\* ... and rtable_connect to it succeeds in between, also before it accepts.
Connects(t) == Up(t)

\* Names sort as their numbers do: the index of s in the sorted children C.
Older(C, s) == {t \in C : born[t] < born[s]}
Place(C, s) == Cardinality(Older(C, s))

-----------------------------------------------------------------------------
(* ZooKeeper *)

\* A change of the children uses up the watches and sends an event for each.
ChildrenBecome(C) ==
  /\ children' = C
  /\ events' = [s \in Servers |-> events[s] + IF watch[s] /\ Up(s) THEN 1 ELSE 0]
  /\ watch' = [s \in Servers |-> FALSE]

\* zoo_wget_children leaves a watch; a second one of the same client is the same.
Arm(s) == watch' = [watch EXCEPT ![s] = TRUE]

\* The session of a process that ended runs out.
Expire(s) ==
  /\ main[s] = "dead" /\ s \in children
  /\ ChildrenBecome(children \ {s})
  /\ UNCHANGED <<born, created, watcherVars, mainVars, main,
                 server_pos, sucessor_server, crashes, histories>>

-----------------------------------------------------------------------------
(* The main thread *)

Step(s, from, to) == main[s] = from /\ main' = [main EXCEPT ![s] = to]

\* listen, then connect_to_zookeeper: the znode is created only if is_linked,
\* which runs in the other thread, has already set is_connected.
Connect(s) ==
  /\ Step(s, "off", "created")
  /\ \/ /\ created' = created + 1
        /\ born' = [born EXCEPT ![s] = created + 1]
        /\ ChildrenBecome(children \cup {s})
     \/ UNCHANGED <<zkVars, events, watch>>
  /\ UNCHANGED <<watcherVars, mainVars, server_pos, sucessor_server, crashes, histories>>

ReadChildren(s) ==
  /\ snapshot' = [snapshot EXCEPT ![s] = children]
  /\ Arm(s)
  /\ UNCHANGED <<zkVars, watcherVars, source, events, server_pos, sucessor_server, crashes>>

\* The position is left as it was if the znode of s is not among the children.
FindPosition(s, C) ==
  server_pos' = IF s \in C THEN [server_pos EXCEPT ![s] = Place(C, s)] ELSE server_pos

\* set_server, in three steps that my_watcher_fn may run between.
SetServerRead(s) ==
  /\ Step(s, "created", "read")
  /\ ReadChildren(s)
  /\ raced' = [raced EXCEPT ![s] = \E t \in children : born[t] > born[s]]
  /\ UNCHANGED failed

\* It returns without a watch and without a position, and main goes on.
SetServerFails(s) ==
  /\ Step(s, "created", "set")
  /\ failed' = [failed EXCEPT ![s] = TRUE]
  /\ UNCHANGED <<zkVars, watcherVars, mainVars, watch, events, server_pos,
                 sucessor_server, crashes, raced>>

SetServerPlace(s) ==
  /\ Step(s, "read", "placed")
  /\ FindPosition(s, snapshot[s])
  /\ snapshot' = [snapshot EXCEPT ![s] = {}]
  /\ UNCHANGED <<zkVars, watcherVars, source, watch,
                 events, sucessor_server, crashes, histories>>

SetServerClear(s) ==
  /\ Step(s, "placed", "set")
  /\ sucessor_server' = [sucessor_server EXCEPT ![s] = None]
  /\ UNCHANGED <<zkVars, watcherVars, mainVars, watch,
                 events, server_pos, crashes, histories>>

\* set_table has something to copy unless this is the head.
SetTable(s) ==
  /\ Step(s, "set", IF server_pos[s] > 0 THEN "join" ELSE "serving")
  /\ UNCHANGED <<zkVars, watcherVars, mainVars, watch, events,
                 server_pos, sucessor_server, crashes, histories>>

SetTableRead(s) == Step(s, "join", "pick") /\ ReadChildren(s) /\ UNCHANGED histories

\* children.data[server_pos - 1] of children that come in any order: any of them.
SetTablePick(s) ==
  /\ Step(s, "pick", "connect")
  /\ server_pos[s] \in 1..Cardinality(snapshot[s])
  /\ \E t \in snapshot[s] \cap children : source' = [source EXCEPT ![s] = t]
  /\ snapshot' = [snapshot EXCEPT ![s] = {}]
  /\ UNCHANGED <<zkVars, watcherVars, watch, events, server_pos,
                 sucessor_server, crashes, histories>>

SetTableConnect(s) ==
  /\ Step(s, "connect", "copy")
  /\ Connects(source[s])
  /\ UNCHANGED <<zkVars, watcherVars, mainVars, watch, events, server_pos,
                 sucessor_server, crashes, histories>>

\* The source answers from its main loop.
SetTableCopy(s) ==
  /\ Step(s, "copy", "serving")
  /\ main[source[s]] = "serving"
  /\ source' = [source EXCEPT ![s] = None]
  /\ UNCHANGED <<zkVars, watcherVars, snapshot, watch, events, server_pos,
                 sucessor_server, crashes, histories>>

\* The process ends, and its memory with it; its session goes on for a while.
End(s) ==
  /\ main' = [main EXCEPT ![s] = "dead"]
  /\ snapshot' = [snapshot EXCEPT ![s] = {}]
  /\ source' = [source EXCEPT ![s] = None]
  /\ watcher' = [watcher EXCEPT ![s] = "idle"]
  /\ view' = [view EXCEPT ![s] = {}]
  /\ watch' = [watch EXCEPT ![s] = FALSE]
  /\ events' = [events EXCEPT ![s] = 0]
  /\ server_pos' = [server_pos EXCEPT ![s] = -1]
  /\ sucessor_server' = [sucessor_server EXCEPT ![s] = None]
  /\ sucessor_path' = [sucessor_path EXCEPT ![s] = None]
  /\ raced' = [raced EXCEPT ![s] = FALSE] /\ failed' = [failed EXCEPT ![s] = FALSE]
  /\ UNCHANGED zkVars

\* A read of ZooKeeper or rtable_connect fails and main returns, the index is
\* outside the array, or the source ends and -1 entries are copied from no table.
SetTableFails(s) ==
  /\ \/ main[s] \in {"join", "pick", "connect"}
     \/ main[s] = "copy" /\ ~Up(source[s])
  /\ End(s)
  /\ UNCHANGED crashes

Crash(s) ==
  /\ Up(s) /\ crashes < MaxCrashes
  /\ End(s)
  /\ crashes' = crashes + 1

-----------------------------------------------------------------------------
(* my_watcher_fn *)

WatcherStep(s, from, to) ==
  /\ Up(s) /\ watcher[s] = from
  /\ watcher' = [watcher EXCEPT ![s] = to]

\* Mutants: a watch that did not fire is handled; the watch is not left again.
WatcherSpurious(s) ==
  /\ WatcherStep(s, "idle", IF children = {} THEN "idle" ELSE "place")
  /\ events' = [events EXCEPT ![s] = @ - 1]
  /\ view' = [view EXCEPT ![s] = children]
  /\ Arm(s)
  /\ raced' = [raced EXCEPT ![s] = @ \/ main[s] \in {"read", "placed"}]
  /\ UNCHANGED <<zkVars, sucessor_path, mainVars, main, server_pos, sucessor_server,
                 crashes, failed>>

WatcherReadOnce(s) ==
  /\ events[s] > 0
  /\ WatcherStep(s, "idle", IF children = {} THEN "idle" ELSE "place")
  /\ events' = [events EXCEPT ![s] = @ - 1]
  /\ view' = [view EXCEPT ![s] = children]
  /\ raced' = [raced EXCEPT ![s] = @ \/ main[s] \in {"read", "placed"}]
  /\ UNCHANGED <<zkVars, sucessor_path, mainVars, watch, main, server_pos,
                 sucessor_server, crashes, failed>>

WatcherRead(s) ==
  /\ events[s] > 0
  /\ WatcherStep(s, "idle", IF children = {} THEN "idle" ELSE "place")
  /\ events' = [events EXCEPT ![s] = @ - 1]
  /\ view' = [view EXCEPT ![s] = children]
  /\ Arm(s)
  /\ raced' = [raced EXCEPT ![s] = @ \/ main[s] \in {"read", "placed"}]
  /\ UNCHANGED <<zkVars, sucessor_path, mainVars, main, server_pos, sucessor_server,
                 crashes, failed>>

\* The event is gone and no watch is left; before it returns, it frees an array
\* that nobody filled, which may end the process.
WatcherReadFails(s) ==
  /\ Up(s) /\ watcher[s] = "idle" /\ events[s] > 0
  /\ \/ End(s)
     \/ /\ events' = [events EXCEPT ![s] = @ - 1]
        /\ failed' = [failed EXCEPT ![s] = TRUE]
        /\ UNCHANGED <<zkVars, watcherVars, mainVars, watch, main, server_pos,
                       sucessor_server, raced>>
  /\ UNCHANGED crashes

WatcherPlace(s) ==
  /\ WatcherStep(s, "place", "choose")
  /\ FindPosition(s, view[s])
  /\ UNCHANGED <<zkVars, view, sucessor_path, mainVars, watch, events,
                 main, sucessor_server, crashes, histories>>

\* Mutants: children.data[server_pos] is taken; the tail test is off by one.
ChooseSame(s) == \E t \in view[s] :
  /\ Place(view[s], t) = server_pos[s]
  /\ WatcherStep(s, "choose", "get")
  /\ sucessor_path' = [sucessor_path EXCEPT ![s] = t]
  /\ UNCHANGED sucessor_server

ChooseNoneEarly(s) ==
  /\ server_pos[s] + 2 >= Cardinality(view[s])
  /\ WatcherStep(s, "choose", "idle")
  /\ sucessor_server' = [sucessor_server EXCEPT ![s] = None]
  /\ UNCHANGED sucessor_path

\* The branch taken when there is a next server.  rtable_disconnect is called
\* only with an empty path, hence with NULL: old connections are never closed.
ChooseNext(s) == \E t \in view[s] :
  /\ Place(view[s], t) = server_pos[s] + 1
  /\ IF sucessor_server[s] = None \/ sucessor_path[s] # t
     THEN /\ WatcherStep(s, "choose", "get")
          /\ sucessor_path' = [sucessor_path EXCEPT ![s] = t]
     ELSE /\ WatcherStep(s, "choose", "idle")
          /\ UNCHANGED sucessor_path
  /\ UNCHANGED sucessor_server

\* The branch of the tail; the path is kept (the assignment after it does nothing).
ChooseNone(s) ==
  /\ server_pos[s] + 1 >= Cardinality(view[s])
  /\ WatcherStep(s, "choose", "idle")
  /\ sucessor_server' = [sucessor_server EXCEPT ![s] = None]
  /\ UNCHANGED sucessor_path

WatcherChoose(s) ==
  /\ ChooseNext(s) \/ ChooseNone(s)
  /\ view' = [view EXCEPT ![s] = {}]
  /\ UNCHANGED <<zkVars, mainVars, watch, events,
                 main, server_pos, crashes, histories>>

\* zoo_get of the new successor; if its znode is gone sucessor_server stays ...
WatcherGet(s) ==
  /\ WatcherStep(s, "get", IF sucessor_path[s] \in children THEN "connect" ELSE "idle")
  /\ UNCHANGED <<zkVars, view, sucessor_path, mainVars, watch, events, main,
                 server_pos, sucessor_server, crashes, histories>>

\* ... and so it does if zoo_get fails although the znode is there: the path then
\* names a successor that nobody has connected.
WatcherGetFails(s) ==
  /\ WatcherStep(s, "get", "idle")
  /\ sucessor_path[s] \in children
  /\ failed' = [failed EXCEPT ![s] = TRUE]
  /\ UNCHANGED <<zkVars, view, sucessor_path, mainVars, watch, events, main,
                 server_pos, sucessor_server, crashes, raced>>

\* connect_to_next_server; NULL if nobody listens any more ...
WatcherConnect(s) ==
  /\ WatcherStep(s, "connect", "idle")
  /\ sucessor_server' =
       [sucessor_server EXCEPT ![s] = IF Connects(sucessor_path[s]) THEN sucessor_path[s] ELSE None]
  /\ UNCHANGED <<zkVars, view, sucessor_path, mainVars, watch, events,
                 main, server_pos, crashes, histories>>

\* ... or if the connection fails for another reason.
WatcherConnectFails(s) ==
  /\ WatcherStep(s, "connect", "idle")
  /\ Connects(sucessor_path[s])
  /\ sucessor_server' = [sucessor_server EXCEPT ![s] = None]
  /\ failed' = [failed EXCEPT ![s] = TRUE]
  /\ UNCHANGED <<zkVars, view, sucessor_path, mainVars, watch, events,
                 main, server_pos, crashes, raced>>

-----------------------------------------------------------------------------
Main(s) ==
  \/ Connect(s)
  \/ SetServerRead(s) \/ SetServerFails(s) \/ SetServerPlace(s) \/ SetServerClear(s)
  \/ SetTable(s) \/ SetTableRead(s) \/ SetTablePick(s) \/ SetTableConnect(s)
  \/ SetTableCopy(s) \/ SetTableFails(s)

Watcher(s) ==
  \/ WatcherRead(s) \/ WatcherPlace(s) \/ WatcherChoose(s)
  \/ WatcherGet(s) \/ WatcherConnect(s)
  \/ WatcherReadFails(s) \/ WatcherGetFails(s) \/ WatcherConnectFails(s)

Next == \E s \in Servers : Main(s) \/ Watcher(s) \/ Crash(s) \/ Expire(s)

Spec == Init /\ [][Next]_vars

-----------------------------------------------------------------------------
(* Properties *)

\* A server forwards only to servers that joined after it, however stale the
\* children and the position that its two threads use: updates never run in a
\* circle, and no server waits for its own answer.
YoungerSuccessor == \A s \in Servers :
  Up(s) /\ born[s] > 0 /\ sucessor_server[s] # None
    => born[sucessor_server[s]] > born[s]

\* Servers that were alone at the end of the chain during their set_server, and
\* whose calls to ZooKeeper and to other servers failed only because the znode or
\* the process was gone.
Calm(s) == Up(s) /\ s \in children /\ ~raced[s] /\ ~failed[s]

\* The watcher leaves a successor, for another one or for none, only once the
\* znode of that successor is gone.
KeepsLiveSuccessor == [][\A s \in Servers :
  Calm(s)' /\ sucessor_server'[s] # sucessor_server[s] /\ sucessor_server[s] # None
    => sucessor_server[s] \notin children']_vars

\* No change of the children is waiting to be seen by anybody.
AtRest == \A s \in Servers :
  /\ main[s] \notin {"created", "read", "placed"}
  /\ main[s] = "dead" => s \notin children
  /\ Up(s) => events[s] = 0 /\ watcher[s] = "idle"

IsNext(s, t) ==
  /\ t \in children /\ born[t] > born[s]
  /\ \A u \in children : born[u] > born[s] => born[u] >= born[t]

\* When all the changes have been seen, the links of the calm servers follow
\* the order of the znodes, whatever order the changes came in and whoever had
\* gone when it was read or connected: no change is lost between two watches.
SettledLinked == AtRest => \A s \in Servers : Calm(s) =>
  IF sucessor_server[s] = None
  THEN \A t \in children : born[t] <= born[s]
  ELSE IsNext(s, sucessor_server[s])

\* my_watcher_fn: sucessor_server is NULL if there is no successor, at the tail
\* ("Se nao houver sussesor, for cauda").
NullMeansTail == AtRest /\ (\A s \in Servers : ~failed[s]) => \A s \in children :
  sucessor_server[s] = None => \A t \in children : born[t] <= born[s]

\* set_table: the table comes from the previous server ("servidor anterior").
CopiesFromPrevious == \A s \in Servers :
  main[s] = "copy" => born[source[s]] < born[s]
=============================================================================
