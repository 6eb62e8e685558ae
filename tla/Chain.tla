------------------------------- MODULE Chain -------------------------------
(***************************************************************************)
(* The write and read paths of a formed chain of N servers: the commands   *)
(* of client_hashtable.c, the stub that sends them (client_stub.c,         *)
(* client_network.c), the per-connection threads of server_network.c       *)
(* (client_handler) and the table operations of server_skeleton.c          *)
(* (invoke).  Server s is the s-th child of /chain; 1 is the head, N the   *)
(* tail.  Membership is fixed here: a server dies only of what it is sent,  *)
(* and nobody links the others again (Membership, Failover).               *)
(*                                                                         *)
(* A table is the map from keys to values that table.c keeps; HashTable    *)
(* says for which keys that view of it is exact.                           *)
(***************************************************************************)
EXTENDS Integers, Sequences

CONSTANTS Writers,     \* client processes that issue put and del
          Readers,     \* client processes that issue get
          Keys, Values,
          Absent,      \* no entry for a key
          None,        \* no command, no answer, no request
          N,           \* length of the chain
          MaxUpdates,  \* bound: puts and dels each writer issues
          Once         \* bound: writers that issue only one

ASSUME ChainAssumption ==
  /\ N \in Nat \ {0}
  /\ MaxUpdates \in Nat
  /\ Writers \cap Int = {}
  /\ Absent \notin Values
  /\ None \notin Values \cup {Absent, "ok", "error"}

VARIABLES
  cmd,     \* cmd[c]: the command client c sent and waits for, or None
  ans,     \* ans[c]: the answer waiting in c's socket, or None
  issued,  \* issued[c]: updates c has sent so far (numbers them)
  table,   \* table[s]: the entries of server s
  applied, \* applied[s]: history, the updates s executed with success, in order
  pc,      \* pc[t]: where thread t of client_handler is
  req,     \* req[t]: the request t is serving, or None
  res,     \* res[t]: what invoke left in its opcode, "ok" or "error"
  down,    \* down[l]: bytes on the way from server l to l+1, by socket write
  up,      \* up[l]: bytes on the way back
  conn,    \* conn[l]: "open", "closed" by server l+1, or "lost": server l+1
           \* takes the middle of a message for its beginning
  mixed,   \* mixed[l]: TRUE once an answer on up[l] was read out of step
  acked    \* history: updates whose client was told they succeeded

clientVars == <<cmd, ans, issued, acked>>
linkVars   == <<down, up, conn, mixed>>
vars == <<cmd, ans, issued, table, applied, pc, req, res,
          down, up, conn, mixed, acked>>

Clients   == Writers \cup Readers
Servers   == 1..N
Links     == 1..(N-1)          \* l is the socket sucessor_server of server l
Followers == 2..N              \* the thread of server s that serves server s-1
Threads   == Writers \cup Followers
Home(t)   == IF t \in Writers THEN 1 ELSE t

\* An update as it travels.  by and nth only identify it: no message carries them.
Updates == [by : Writers, nth : 1..MaxUpdates, op : {"put"}, key : Keys, val : Values]
             \cup [by : Writers, nth : 1..MaxUpdates, op : {"del"}, key : Keys, val : {Absent}]
Gets == [op : {"get"}, key : Keys, val : {Absent}]

\* What a command asks for.
Command(m) == IF m = None THEN None ELSE [op |-> m.op, key |-> m.key, val |-> m.val]

ASSUME NoneAssumption == \A m \in Updates \cup Gets : None # m /\ None # Command(m)

\* A message is written as two items: its 2-byte length, then its packed body.
Size(u) == [part |-> "size", msg |-> u]
Body(u) == [part |-> "body", msg |-> u]
Frame(u) == <<Size(u), Body(u)>>
Items == [part : {"size", "body"}, msg : Updates]

Executed(s) == {applied[s][i] : i \in 1..Len(applied[s])}

PCs == {"recv", "put", "del", "rm", "wsize", "wbody", "rsize", "rbody",
        "reply", "spin", "gone", "crashed"}

TypeOK ==
  /\ cmd \in [Clients -> Updates \cup Gets \cup {None}]
  /\ ans \in [Clients -> {"ok", "error"} \cup Values \cup {Absent, None}]
  /\ issued \in [Clients -> 0..MaxUpdates]
  /\ table \in [Servers -> [Keys -> Values \cup {Absent}]]
  /\ applied \in [Servers -> Seq(Updates)]
  /\ pc \in [Threads -> PCs]
  /\ req \in [Threads -> Updates \cup {None}]
  /\ res \in [Threads -> {"ok", "error"}]
  /\ down \in [Links -> Seq(Items)]
  /\ up \in [Links -> Seq(Items)]
  /\ conn \in [Links -> {"open", "closed", "lost"}]
  /\ mixed \in [Links -> BOOLEAN]
  /\ acked \subseteq Updates

Init ==
  /\ cmd = [c \in Clients |-> None]
  /\ ans = [c \in Clients |-> None]
  /\ issued = [c \in Clients |-> 0]
  /\ table = [s \in Servers |-> [k \in Keys |-> Absent]]
  /\ applied = [s \in Servers |-> <<>>]
  /\ pc = [t \in Threads |-> "recv"]
  /\ req = [t \in Threads |-> None]
  /\ res = [t \in Threads |-> "ok"]
  /\ down = [l \in Links |-> <<>>]
  /\ up = [l \in Links |-> <<>>]
  /\ conn = [l \in Links |-> "open"]
  /\ mixed = [l \in Links |-> FALSE]
  /\ acked = {}

-----------------------------------------------------------------------------
(* The client: one command at a time, updates to the head, gets to the tail *)

\* put and del of the command loop, up to the read of the answer.
SendUpdate(c) ==
  /\ c \in Writers
  /\ cmd[c] = None
  /\ issued[c] < MaxUpdates
  /\ c \in Once => issued[c] = 0
  /\ \E u \in Updates :
       /\ u.by = c
       /\ u.nth = issued[c] + 1
       /\ cmd' = [cmd EXCEPT ![c] = u]
  /\ issued' = [issued EXCEPT ![c] = @ + 1]
  /\ UNCHANGED <<ans, acked, table, applied, pc, req, res, linkVars>>

SendGet(c) ==
  /\ c \in Readers
  /\ cmd[c] = None
  /\ \E m \in Gets : cmd' = [cmd EXCEPT ![c] = m]
  /\ UNCHANGED <<ans, issued, acked, table, applied, pc, req, res, linkVars>>

\* The stub reads the answer; rtable_put takes any answer for success.
ReadAnswer(c) ==
  /\ ans[c] # None
  /\ acked' = IF cmd[c].op = "put" \/ (cmd[c].op = "del" /\ ans[c] # "error")
              THEN acked \cup {cmd[c]} ELSE acked
  /\ cmd' = [cmd EXCEPT ![c] = None]
  /\ ans' = [ans EXCEPT ![c] = None]
  /\ UNCHANGED <<issued, table, applied, pc, req, res, linkVars>>

-----------------------------------------------------------------------------
(* The tail serves a get: table_get, without table_mutex *)

Alive(s) == s > 1 => pc[s] # "crashed"

\* Mutant: the client asks the head instead of the tail.
ServeGetAtHead(c) ==
  /\ cmd[c] # None /\ cmd[c].op = "get"
  /\ ans[c] = None
  /\ ans' = [ans EXCEPT ![c] = table[1][cmd[c].key]]
  /\ UNCHANGED <<cmd, issued, acked, table, applied, pc, req, res, linkVars>>

ServeGet(c) ==
  /\ cmd[c] # None /\ cmd[c].op = "get"
  /\ Alive(N)
  /\ ans[c] = None
  /\ ans' = [ans EXCEPT ![c] = table[N][cmd[c].key]]
  /\ UNCHANGED <<cmd, issued, acked, table, applied, pc, req, res, linkVars>>

-----------------------------------------------------------------------------
(* client_handler and invoke, thread by thread *)

Goto(t, from, to) == pc[t] = from /\ pc' = [pc EXCEPT ![t] = to]

\* Mutant: a server forwards before it executes.
ForwardFirst(t, u) ==
  /\ Goto(t, "recv", IF Home(t) < N THEN "wsize" ELSE u.op)
  /\ req' = [req EXCEPT ![t] = u]

Accept(t, u) ==
  /\ Goto(t, "recv", u.op)
  /\ req' = [req EXCEPT ![t] = u]

\* A head thread reads the request of its client.
ReceiveFromClient(c) ==
  /\ c \in Writers
  /\ cmd[c] \in Updates /\ ans[c] = None
  /\ Accept(c, cmd[c])
  /\ UNCHANGED <<clientVars, table, applied, res, linkVars>>

InStep(q) == Len(q) >= 2 /\ q[1].part = "size" /\ q[2] = Body(q[1].msg)

\* Mutant: the frame that was read stays in the socket.
ReceivePeeked(s) ==
  /\ s \in Followers
  /\ InStep(down[s-1])
  /\ Accept(s, down[s-1][1].msg)
  /\ UNCHANGED <<clientVars, table, applied, res, linkVars>>

\* The thread of server s reads a request that server s-1 forwarded.
ReceiveForwarded(s) ==
  /\ s \in Followers
  /\ InStep(down[s-1]) /\ conn[s-1] # "lost"
  /\ Accept(s, down[s-1][1].msg)
  /\ down' = [down EXCEPT ![s-1] = SubSeq(@, 3, Len(@))]
  /\ UNCHANGED <<clientVars, table, applied, res, up, conn, mixed>>

\* Two senders have interleaved their lengths and bodies, or the end of the last
\* read was not the end of a message: what follows is as many bytes of several
\* messages as one length says.
Misframed(s) ==
  /\ s \in Followers
  /\ \/ Len(down[s-1]) >= 3 /\ ~InStep(down[s-1])
     \/ conn[s-1] = "lost"

\* They do not unpack, errno is 0: the thread leaves its loop, closes the socket.
ReceiveScrambled(s) ==
  /\ Misframed(s)
  /\ Goto(s, "recv", "gone")
  /\ conn' = [conn EXCEPT ![s-1] = "closed"]
  /\ down' = [down EXCEPT ![s-1] = <<>>]
  /\ UNCHANGED <<clientVars, table, applied, req, res, up, mixed>>

\* With keys of certain lengths they do: as the one body i that ends among them,
\* or, if the opcode of the next one ends them, as a del without a key (an error).
ReceiveMixture(s) ==
  /\ Misframed(s)
  /\ \E i \in 1..Len(down[s-1]), m \in 1..Len(down[s-1]) + 1 :
       /\ i < m /\ down[s-1][i].part = "body"
       /\ \/ Accept(s, down[s-1][i].msg) /\ UNCHANGED res
          \/ /\ Goto(s, "recv", "reply")
             /\ req' = [req EXCEPT ![s] = down[s-1][i].msg]
             /\ res' = [res EXCEPT ![s] = "error"]
       /\ down' = [down EXCEPT ![s-1] = SubSeq(@, m, Len(@))]
  /\ conn' = [conn EXCEPT ![s-1] = "lost"]
  /\ UNCHANGED <<clientVars, table, applied, up, mixed>>

\* Or as a put without an entry, which invoke follows: the process dies.
ReceiveCrash(s) ==
  /\ Misframed(s)
  /\ Goto(s, "recv", "crashed")
  /\ conn' = [conn EXCEPT ![s-1] = "closed"]
  /\ down' = [down EXCEPT ![s-1] = <<>>]
  /\ UNCHANGED <<clientVars, table, applied, req, res, up, mixed>>

\* The server before died and nothing is left to read.
ReceiveEnd(s) ==
  /\ s \in Followers /\ s > 2
  /\ pc[s-1] = "crashed" /\ down[s-1] = <<>>
  /\ Goto(s, "recv", "gone")
  /\ conn' = [conn EXCEPT ![s-1] = "closed"]
  /\ UNCHANGED <<clientVars, table, applied, req, res, down, up, mixed>>

\* Mutants: only puts are forwarded; only the head forwards.
ForwardsPuts(t) == IF Home(t) < N /\ req[t].op = "put" THEN "wsize" ELSE "reply"
HeadForwards(t) == IF Home(t) = 1 THEN "wsize" ELSE "reply"

\* Where a thread goes once invoke succeeded: to the successor, if there is one.
AfterSuccess(t) == IF Home(t) < N THEN "wsize" ELSE "reply"

Execute(t, v) == LET s == Home(t) IN
  /\ table' = [table EXCEPT ![s] = [@ EXCEPT ![req[t].key] = v]]
  /\ applied' = [applied EXCEPT ![s] = Append(@, req[t])]
  /\ res' = [res EXCEPT ![t] = "ok"]

Refuse(t) ==
  /\ res' = [res EXCEPT ![t] = "error"]
  /\ UNCHANGED <<table, applied>>

InvokePut(t) ==
  /\ Goto(t, "put", AfterSuccess(t))
  /\ Execute(t, req[t].val)
  /\ UNCHANGED <<clientVars, req, linkVars>>

\* OP_DEL looks the key up outside table_mutex ...
InvokeDelCheck(t) ==
  /\ pc[t] = "del"
  /\ IF table[Home(t)][req[t].key] = Absent
     THEN Goto(t, "del", "reply") /\ Refuse(t)
     ELSE Goto(t, "del", "rm") /\ UNCHANGED <<table, applied, res>>
  /\ UNCHANGED <<clientVars, req, linkVars>>

\* ... and removes it inside; another thread may have been faster.
InvokeDelRemove(t) ==
  /\ pc[t] = "rm"
  /\ IF table[Home(t)][req[t].key] = Absent
     THEN Goto(t, "rm", "reply") /\ Refuse(t)
     ELSE Goto(t, "rm", AfterSuccess(t)) /\ Execute(t, Absent)
  /\ UNCHANGED <<clientVars, req, linkVars>>

-----------------------------------------------------------------------------
(* rtable_put / rtable_del on sucessor_server: two writes and two reads on  *)
(* a socket that all the threads of the server share, without a lock        *)

Write(t, from, to, item) == LET l == Home(t) IN
  /\ pc[t] = from
  /\ \/ /\ conn[l] # "closed"
        /\ down' = [down EXCEPT ![l] = Append(@, item)]
        /\ pc' = [pc EXCEPT ![t] = to]
     \/ /\ conn[l] = "closed"       \* not yet refused: the bytes are dropped
        /\ pc' = [pc EXCEPT ![t] = to]
        /\ UNCHANGED down
     \/ /\ conn[l] = "closed"       \* EPIPE: write_all tests a size_t for < 0
        /\ pc' = [pc EXCEPT ![t] = "spin"]
        /\ UNCHANGED down

WriteSize(t) ==
  /\ Write(t, "wsize", "wbody", Size(req[t]))
  /\ UNCHANGED <<clientVars, table, applied, req, res, up, conn, mixed>>

\* Mutant: the thread does not wait for the successor's answer.
WriteBodyAndReply(t) ==
  /\ Write(t, "wbody", "reply", Body(req[t]))
  /\ UNCHANGED <<clientVars, table, applied, req, res, up, conn, mixed>>

WriteBody(t) ==
  /\ Write(t, "wbody", "rsize", Body(req[t]))
  /\ UNCHANGED <<clientVars, table, applied, req, res, up, conn, mixed>>

ReadSize(t) == LET l == Home(t) IN
  /\ Goto(t, "rsize", "rbody")
  /\ up[l] # <<>> /\ Head(up[l]).part = "size"
  /\ up' = [up EXCEPT ![l] = Tail(@)]
  /\ UNCHANGED <<clientVars, table, applied, req, res, down, conn, mixed>>

\* Mutant: only the length of the answer is taken out of the socket.
ReadNoBody(t) ==
  /\ Goto(t, "rbody", "reply")
  /\ up[Home(t)] # <<>>
  /\ UNCHANGED <<clientVars, table, applied, req, res, linkVars>>

\* The result of the forwarding is dropped: the client gets what invoke left.
ReadBody(t) == LET l == Home(t) IN
  /\ Goto(t, "rbody", "reply")
  /\ up[l] # <<>>
  /\ up' = [up EXCEPT ![l] = Tail(@)]
  /\ UNCHANGED <<clientVars, table, applied, req, res, down, conn, mixed>>

\* Another thread has read the length: this one takes two bytes of the body for
\* one (over 2000), and from now on nobody reads this socket in step.
ReadBodyAsSize(t) == LET l == Home(t) IN
  /\ Goto(t, "rsize", "rbody")
  /\ up[l] # <<>> /\ Head(up[l]).part = "body"
  /\ up' = [up EXCEPT ![l] = <<>>]
  /\ mixed' = [mixed EXCEPT ![l] = TRUE]
  /\ UNCHANGED <<clientVars, table, applied, req, res, down, conn>>

\* Out of step, a read ends with whatever bytes other answers bring, or never.
ReadOutOfStep(t) ==
  /\ pc[t] \in {"rsize", "rbody"} /\ mixed[Home(t)]
  /\ pc' = [pc EXCEPT ![t] = "reply"]
  /\ UNCHANGED <<clientVars, table, applied, req, res, linkVars>>

\* The successor closed the socket and nothing is left to read: NULL.
ReadEnd(t) == LET l == Home(t) IN
  /\ pc[t] \in {"rsize", "rbody"} /\ conn[l] = "closed" /\ up[l] = <<>>
  /\ pc' = [pc EXCEPT ![t] = "reply"]
  /\ UNCHANGED <<clientVars, table, applied, req, res, linkVars>>

-----------------------------------------------------------------------------
(* network_send of the answer *)

ReplyToClient(c) ==
  /\ c \in Writers
  /\ Goto(c, "reply", "recv")
  /\ ans' = [ans EXCEPT ![c] = res[c]]
  /\ req' = [req EXCEPT ![c] = None]
  /\ UNCHANGED <<cmd, issued, acked, table, applied, res, linkVars>>

\* Mutants: a forwarded update is not answered; it is answered without a length.
ReplyToClientsOnly(s) ==
  /\ s \in Followers
  /\ Goto(s, "reply", "recv")
  /\ req' = [req EXCEPT ![s] = None]
  /\ UNCHANGED <<clientVars, table, applied, res, linkVars>>

ReplyUnframed(s) ==
  /\ s \in Followers
  /\ Goto(s, "reply", "recv")
  /\ up' = [up EXCEPT ![s-1] = Append(@, req[s])]
  /\ req' = [req EXCEPT ![s] = None]
  /\ UNCHANGED <<clientVars, table, applied, res, down, conn, mixed>>

ReplyUpstream(s) ==
  /\ s \in Followers
  /\ Goto(s, "reply", "recv")
  /\ up' = IF mixed[s-1] THEN up ELSE [up EXCEPT ![s-1] = @ \o Frame(req[s])]
  /\ req' = [req EXCEPT ![s] = None]
  /\ UNCHANGED <<clientVars, table, applied, res, down, conn, mixed>>

-----------------------------------------------------------------------------
Client(c) == SendUpdate(c) \/ SendGet(c) \/ ReadAnswer(c)

\* The steps of a thread that the scheduler and the sockets let it take.
Progress(t) ==
  \/ ReceiveFromClient(t) \/ ReceiveForwarded(t) \/ ReceiveEnd(t)
  \/ InvokePut(t) \/ InvokeDelCheck(t) \/ InvokeDelRemove(t)
  \/ WriteSize(t) \/ WriteBody(t)
  \/ ReadSize(t) \/ ReadBody(t) \/ ReadBodyAsSize(t) \/ ReadEnd(t)
  \/ ReplyToClient(t) \/ ReplyUpstream(t)

\* Out of step, a read may also wait for bytes that never come.
OutOfStep(t) ==
  ReceiveScrambled(t) \/ ReceiveMixture(t) \/ ReceiveCrash(t) \/ ReadOutOfStep(t)

Handler(t) == Progress(t) \/ OutOfStep(t)

Next ==
  \/ \E c \in Clients : Client(c) \/ ServeGet(c)
  \/ \E t \in Threads : Handler(t)

Spec == Init /\ [][Next]_vars

\* Threads are scheduled and sockets deliver; users may stop typing.
Fairness ==
  /\ \A c \in Clients : WF_vars(ReadAnswer(c)) /\ WF_vars(ServeGet(c))
  /\ \A t \in Threads : WF_vars(Progress(t))

FairSpec == Spec /\ Fairness

-----------------------------------------------------------------------------
(* Properties that hold however many clients write *)

\* A server only ever executes an update that its predecessor executed before
\* it (invoke comes before the forwarding in client_handler), so a read at the
\* tail never shows an update that some server of the chain has not executed.
UpstreamFirst == \A s \in Followers : Executed(s) \subseteq Executed(s-1)

\* Every server executes the updates of one client in the order that client
\* issued them, and none of them twice, although threads share the sockets to
\* the successors and answers may reach the wrong thread.
ClientOrder == \A s \in Servers : \A i, j \in 1..Len(applied[s]) :
  i < j /\ applied[s][i].by = applied[s][j].by
    => applied[s][i].nth < applied[s][j].nth

\* Nothing executed by server l is still on its way to server l+1.
Drained(l) ==
  /\ conn[l] = "open" /\ down[l] = <<>> /\ pc[l+1] = "recv"
  /\ \A t \in Threads : Home(t) = l => pc[t] \notin {"wsize", "wbody"}

\* Once a link has drained, its two ends hold the same entry for every key that
\* a single client ever updated, even if others wrote other keys at the same
\* time over the same sockets.
LoneWriterKeysConverge == \A l \in Links : Drained(l) =>
  \A k \in Keys :
    (\A u, v \in Executed(l) : u.key = k /\ v.key = k => u.by = v.by)
      => table[l+1][k] = table[l][k]

\* Only the socket of the head can fall out of step: every other server serves
\* one connection, its predecessor's, so one thread owns its socket downstream,
\* which is closed only when that server has died.
InnerLinksInStep == \A l \in Links : l > 1 =>
  /\ ~mixed[l]
  /\ conn[l] = "open" \/ (conn[l] = "closed" /\ pc[l] = "crashed")

\* The servers after the head never disagree with one another for longer than
\* the update that the second server is passing on, even when concurrent
\* clients have made the head differ from them, cut it off or killed the second.
FollowersAgree == \A s \in Followers :
  pc[2] \in {"recv", "gone", "crashed"} => table[s] = table[2]

\* A server after the head always comes back for the next request once it has
\* taken one out of its socket and survived that, also when the head's own
\* threads are stuck or have made the stream that it reads unreadable.
FollowersFinish == \A s \in Followers :
  pc[s] \notin {"recv", "gone", "crashed"} ~> pc[s] = "recv"

\* What client_network.c says of network_send_receive: communication errors are
\* handled and end in NULL, so a thread that met one goes on.
CommunicationErrorsReturn == \A t \in Threads : pc[t] = "spin" ~> pc[t] # "spin"

-----------------------------------------------------------------------------
(* Properties of a chain with one writing client *)

SingleWriter == \A c, d \in Writers : c = d

\* When a client is told that its update succeeded, every server has executed
\* it: client_handler answers only after the successor answered.
AckedEverywhere == \A s \in Servers : acked \subseteq Executed(s)

\* When the writer waits for nothing, all the tables are the same.
IdleReplicasAgree ==
  (\A c \in Writers : cmd[c] \notin Updates)
    => \A s \in Servers : table[s] = table[1]

\* Every command is answered.
CommandsAnswered == \A c \in Clients : cmd[c] # None ~> cmd[c] = None

\* The chain is one table: a get takes effect when the tail reads its table, an
\* update when the tail executes it, a del of a missing key when the head finds
\* no entry.
AnswerOf(c) ==
  IF cmd[c] \notin Updates THEN ans[c]
  ELSE IF cmd[c] \in Executed(N) THEN "ok"
  ELSE IF ans[c] = "error" \/ (pc[c] = "reply" /\ res[c] = "error")
  THEN "error" ELSE None

KV == INSTANCE KVStore WITH
  store <- table[N],
  pending <- [c \in Clients |-> Command(cmd[c])],
  response <- [c \in Clients |-> AnswerOf(c)]

OneTable == KV!KVSpec
=============================================================================
