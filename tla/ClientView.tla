----------------------------- MODULE ClientView -----------------------------
(***************************************************************************)
(* Which servers the interactive client takes for the head and the tail of *)
(* the chain: link_to_head_and_tail in main, my_watcher_fn in the thread   *)
(* of ZooKeeper's library, and the commands that use head and tail.        *)
(***************************************************************************)
EXTENDS Integers, FiniteSetsExt, Sequences

CONSTANTS N,     \* bound: so many servers ever join; a younger one is greater
          Start  \* so many are there when the client starts

ASSUME ViewAssumption == N \in Nat /\ Start \in 0..N

None == 0  \* no path, and NULL

VARIABLES
  born,     \* how many servers have joined
  procs,    \* servers whose process lives
  kids,     \* servers with a znode under /chain
  armed,    \* the client has a watch
  events,   \* its events that my_watcher_fn has not taken
  main,     \* where main is
  watcher,  \* where my_watcher_fn is
  snap,     \* snap[t]: the children that thread t read
  path,     \* path[e]: head_path and tail_path
  conn,     \* conn[e]: head and tail, the number of a struct rtable_t
  to,       \* to[c]: the server of struct c
  freed,    \* structs that were freed
  using,    \* the struct that main's call works on
  clean     \* history: linking did not fail, no watcher ran meanwhile, and no call
            \* failed of which znode and process were there

vars == <<born, procs, kids, armed, events, main, watcher, snap, path, conn,
          to, freed, using, clean>>
zoo  == <<born, procs, kids>>
view == <<path, conn, to, freed>>

Ends    == {"head", "tail"}
Linking == {"paths", "head", "tail"}

\* Mutant: the children are sorted backwards.
EndBackwards(e, children) == IF e = "head" THEN Max(children) ELSE Min(children)

End(e, children) == IF e = "head" THEN Min(children) ELSE Max(children)

Init ==
  /\ born = Start
  /\ procs = 1..Start /\ kids = 1..Start
  /\ armed = FALSE /\ events = 0
  /\ main = "start" /\ watcher = "idle"
  /\ snap = [t \in {"main", "watcher"} |-> {}]
  /\ path = [e \in Ends |-> None]
  /\ conn = [e \in Ends |-> None]
  /\ to = <<>>
  /\ freed = {}
  /\ using = None
  /\ clean = TRUE

-----------------------------------------------------------------------------
(* Servers and ZooKeeper *)

KidsBecome(k) ==
  /\ kids' = k
  /\ armed' = FALSE
  /\ events' = events + (IF armed THEN 1 ELSE 0)

Join ==
  /\ born < N
  /\ born' = born + 1
  /\ procs' = procs \cup {born + 1}
  /\ KidsBecome(kids \cup {born + 1})
  /\ UNCHANGED <<main, watcher, snap, view, using, clean>>

Die(s) ==
  /\ s \in procs
  /\ procs' = procs \ {s}
  /\ UNCHANGED <<born, kids, armed, events, main, watcher, snap, view, using, clean>>

Expire(s) ==
  /\ s \in kids \ procs
  /\ KidsBecome(kids \ {s})
  /\ UNCHANGED <<born, procs, main, watcher, snap, view, using, clean>>

-----------------------------------------------------------------------------
(* Connections *)

\* zoo_get of the path of end e, then rtable_connect: to its server, or to NULL
\* if no process listens; false if the znode is gone.
HasZnode(e) == path[e] \in kids

\* Mutant: an end that was ever connected is not connected again.
ConnectOnce(e) ==
  IF path[e] \in procs /\ conn[e] = None
  THEN to' = Append(to, path[e]) /\ conn' = [conn EXCEPT ![e] = Len(to) + 1]
  ELSE UNCHANGED <<conn, to>>

Connect(e) ==
  IF path[e] \in procs
  THEN to' = Append(to, path[e]) /\ conn' = [conn EXCEPT ![e] = Len(to) + 1]
  ELSE conn' = [conn EXCEPT ![e] = None] /\ UNCHANGED to

\* zoo_get fails although the znode is there, and nothing is assigned; or
\* rtable_connect fails although the process is there.
ConnectFails(e) ==
  /\ HasZnode(e)
  /\ \/ UNCHANGED conn
     \/ path[e] \in procs /\ conn' = [conn EXCEPT ![e] = None]
  /\ clean' = FALSE
  /\ UNCHANGED to

\* The program reads or frees what it freed, or reads through NULL.
Undefined ==
  /\ main' = "undefined"
  /\ UNCHANGED <<zoo, armed, events, watcher, snap, view, using, clean>>

Runs == main \notin {"undefined", "closed"}

-----------------------------------------------------------------------------
(* link_to_head_and_tail *)

LinkRead ==
  /\ main = "start"
  /\ armed' = TRUE
  /\ snap' = [snap EXCEPT !["main"] = kids]
  /\ main' = IF kids = {} THEN "command" ELSE "paths"
  /\ UNCHANGED <<zoo, events, watcher, view, using, clean>>

\* Without the children main takes commands with no head, no tail and no watch.
LinkReadFails ==
  /\ main = "start"
  /\ main' = "command"
  /\ clean' = FALSE
  /\ UNCHANGED <<zoo, armed, events, watcher, snap, view, using>>

LinkPaths ==
  /\ main = "paths"
  /\ path' = [e \in Ends |-> End(e, snap["main"])]
  /\ main' = "head"
  /\ UNCHANGED <<zoo, armed, events, watcher, snap, conn, to, freed, using, clean>>

\* Without the head it does not try the tail.
Link(e, following) ==
  /\ main = e
  /\ IF HasZnode(e) THEN Connect(e) ELSE UNCHANGED <<conn, to>>
  /\ IF HasZnode(e) /\ path[e] \in procs
     THEN main' = following /\ UNCHANGED clean
     ELSE main' = "command" /\ clean' = FALSE
  /\ UNCHANGED <<zoo, armed, events, watcher, snap, path, freed, using>>

LinkFails(e) ==
  /\ main = e
  /\ ConnectFails(e)
  /\ main' = "command"
  /\ UNCHANGED <<zoo, armed, events, watcher, snap, path, freed, using>>

-----------------------------------------------------------------------------
(* my_watcher_fn *)

Overlaps == clean' = (clean /\ main \notin Linking)

\* Mutant: the children are read without a new watch.
WatcherReadOnce ==
  /\ Runs /\ watcher = "idle" /\ events > 0
  /\ events' = events - 1
  /\ snap' = [snap EXCEPT !["watcher"] = kids]
  /\ watcher' = IF kids = {} THEN "idle" ELSE "head"
  /\ Overlaps
  /\ UNCHANGED <<zoo, armed, main, view, using>>

WatcherRead ==
  /\ Runs /\ watcher = "idle" /\ events > 0
  /\ events' = events - 1
  /\ armed' = TRUE
  /\ snap' = [snap EXCEPT !["watcher"] = kids]
  /\ watcher' = IF kids = {} THEN "idle" ELSE "head"
  /\ Overlaps
  /\ UNCHANGED <<zoo, main, view, using>>

\* zoo_wget_children fails: the event is gone, and no watch is left.
WatcherReadFails ==
  /\ Runs /\ watcher = "idle" /\ events > 0
  /\ events' = events - 1
  /\ clean' = FALSE
  /\ UNCHANGED <<zoo, armed, main, watcher, snap, view, using>>

\* A new path, and the old connection is closed and freed.
WatcherMove(e, connecting, following) == LET new == End(e, snap["watcher"]) IN
  /\ Runs /\ watcher = e
  /\ IF path[e] = new
     THEN watcher' = following /\ UNCHANGED <<main, path, freed>>
     ELSE /\ path' = [path EXCEPT ![e] = new]
          /\ IF conn[e] \in freed
             THEN main' = "undefined" /\ UNCHANGED <<watcher, freed>>
             ELSE /\ watcher' = connecting
                  /\ freed' = freed \cup ({conn[e]} \ {None})
                  /\ UNCHANGED main
  /\ Overlaps
  /\ UNCHANGED <<zoo, armed, events, snap, conn, to, using>>

\* When the znode is gone the variable keeps what was freed.
WatcherConnect(e, connecting, following) ==
  /\ Runs /\ watcher = connecting
  /\ IF HasZnode(e) THEN Connect(e) ELSE UNCHANGED <<conn, to>>
  /\ watcher' = IF HasZnode(e) /\ path[e] \in procs THEN following ELSE "idle"
  /\ Overlaps
  /\ UNCHANGED <<zoo, armed, events, main, snap, path, freed, using>>

WatcherFails(e, connecting) ==
  /\ Runs /\ watcher = connecting
  /\ ConnectFails(e)
  /\ watcher' = "idle"
  /\ UNCHANGED <<zoo, armed, events, main, snap, path, freed, using>>

-----------------------------------------------------------------------------
(* Commands *)

\* Updates go to the head, the others to the tail.
Begin(e) ==
  /\ main = "command"
  /\ IF conn[e] = None \/ conn[e] \in freed THEN Undefined
     ELSE /\ main' = "call"
          /\ using' = conn[e]
          /\ UNCHANGED <<zoo, armed, events, watcher, snap, view, clean>>

\* Each write and read of network_send_receive takes the socket from the struct.
Call ==
  /\ main = "call"
  /\ IF using \in freed THEN Undefined
     ELSE /\ main' = "command"
          /\ using' = None
          /\ UNCHANGED <<zoo, armed, events, watcher, snap, view, clean>>

Disconnect(e, from, following) ==
  /\ main = from
  /\ IF conn[e] \in freed THEN Undefined
     ELSE /\ freed' = freed \cup ({conn[e]} \ {None})
          /\ main' = following
          /\ UNCHANGED <<zoo, armed, events, watcher, snap, path, conn, to, using, clean>>

Quit == Disconnect("head", "command", "quit") \/ Disconnect("tail", "quit", "closed")

-----------------------------------------------------------------------------
Main ==
  \/ LinkRead \/ LinkPaths \/ Link("head", "tail") \/ Link("tail", "command")
  \/ LinkReadFails \/ LinkFails("head") \/ LinkFails("tail")

Watcher ==
  \/ WatcherRead \/ WatcherReadFails
  \/ WatcherFails("head", "gethead") \/ WatcherFails("tail", "gettail")
  \/ WatcherMove("head", "gethead", "tail") \/ WatcherConnect("head", "gethead", "tail")
  \/ WatcherMove("tail", "gettail", "idle") \/ WatcherConnect("tail", "gettail", "idle")

Next ==
  \/ Join \/ \E s \in 1..N : Die(s) \/ Expire(s)
  \/ Main \/ Watcher
  \/ \E e \in Ends : Begin(e)
  \/ Call \/ Quit

Spec == Init /\ [][Next]_vars

\* main and the library's thread run, and ZooKeeper ends the sessions of the dead.
FairSpec == Spec /\ WF_vars(Main) /\ WF_vars(Watcher) /\ \A s \in 1..N : WF_vars(Expire(s))

-----------------------------------------------------------------------------
TypeOK ==
  /\ born \in 0..N /\ procs \subseteq 1..born /\ kids \subseteq 1..born
  /\ armed \in BOOLEAN /\ events \in 0..1
  /\ main \in Linking \cup {"start", "command", "call", "quit", "closed", "undefined"}
  /\ watcher \in {"idle", "head", "gethead", "tail", "gettail"}
  /\ snap \in [{"main", "watcher"} -> SUBSET (1..N)]
  /\ path \in [Ends -> 0..N] /\ to \in Seq(1..N)
  /\ conn \in [Ends -> 0..Len(to)] /\ freed \subseteq 1..Len(to)
  /\ using \in 0..Len(to) /\ clean \in BOOLEAN

Follows(e) == path[e] = End(e, kids) /\ conn[e] # None /\ to[conn[e]] = path[e]

\* When every change of /chain has been handled, a client whose linking no watcher
\* overtook and whose calls failed only for want of the znode or the process is
\* connected to the first and the last server, on structs that are not freed: no
\* event is missed, and no connection to a server that had gone is left behind.
SettledFollows ==
  clean /\ main \in {"command", "call"} /\ watcher = "idle" /\ events = 0
  /\ kids = procs /\ kids # {} => \A e \in Ends : Follows(e) /\ conn[e] \notin freed

\* Whatever joins and dies while the watcher works, no change is lost to a client
\* whose calls do not fail for another reason: again and again it is connected to
\* the first and the last child.
ViewFollows == []<>(clean /\ Runs => kids = {} \/ \A e \in Ends : Follows(e))

\* Once linked, the client never goes back to an older head: its puts never go
\* to a server that it had given up.
HeadForward ==
  [][main \notin {"start"} \cup Linking => path'["head"] >= path["head"]]_vars

-----------------------------------------------------------------------------
(* What the comments of the sources say *)

AtRest == main = "command" /\ watcher = "idle" /\ events = 0

\* link_to_head_and_tail updates head and tail from the children of /chain.
SettledView ==
  AtRest /\ kids # {} /\ kids = procs => \A e \in Ends : path[e] = End(e, kids)

\* A command first checks that the connection to the server succeeded.
CommandsChecked == main = "command" => \A e \in Ends : conn[e] # None

\* network_send_receive returns NULL when the communication fails.
CallsOnOpen == main = "call" => using \notin freed
=============================================================================
