----------------------------- MODULE Connections -----------------------------
(***************************************************************************)
(* One server: network_main_loop accepts connections, a thread of          *)
(* client_handler serves each, and all of them keep the statistics         *)
(* (stats.c) under stats_mutex.  invoke is one step here (TableNodes), and *)
(* so is the forwarding of an update to the successor: Chain has its steps  *)
(* and says what two threads make of the one socket to the successor.      *)
(***************************************************************************)
EXTENDS Integers, Sequences, FiniteSets

CONSTANTS Conns,       \* connections; client, socket and thread of each have its name
          None,        \* no thread, no request, no answer
          Sucessor,    \* "up", or "null" for the tail
          MaxRequests  \* bound: requests on all connections

ASSUME ConnectionsAssumption ==
  /\ IsFiniteSet(Conns) /\ None \notin Conns
  /\ Sucessor \in {"up", "null"}
  /\ MaxRequests \in Nat

VARIABLES
  proc,       \* of the server: "up", or "dead" by a NULL it followed
  mutex,      \* the thread that holds stats_mutex, or None
  n_ops, n_clients, time_spent, \* of struct statistics_t
  clock,      \* what clock() says: the work of all threads of the process
  sucessor,   \* sucessor_server: "null", "up", or "gone" with its process
  mixed,      \* two threads have been in its socket at once
  pc,         \* pc[h]: where client_handler is
  req,        \* req[h]: the request it serves, or None
  reg,        \* reg[h]: the counter it has read and is about to write, or 0
  time,       \* time[h]: inicio_tempo, then duracao, or 0
  errno,      \* errno[h]: TRUE if it is not 0; each thread has its own
  peer,       \* peer[c]: what the client's end of the socket is
  inbox,      \* inbox[c]: the request in the socket, or None
  ans,        \* ans[c]: the answer in the socket, or None
  nth,        \* requests sent so far (numbers them)
  counted,    \* history: table operations that n_ops has counted
  answered,   \* history: table operations whose client has been answered
  base,       \* base[c]: history: how many were answered when c sent its request
  moments     \* moments[c]: history: what the statistics have been since c's STATS

stats   == <<n_ops, n_clients, time_spent>>
sockets == <<peer, inbox, ans, nth, base>>
past    == <<counted, answered, moments>>
local   == <<req, reg, time, errno>>
link    == <<sucessor, mixed>>
vars    == <<proc, mutex, stats, clock, link, pc, local, sockets, past>>

\* "update" is a put or a del that succeeds and is forwarded, "other" any other
\* operation on the table.
Kinds    == {"update", "other", "stats"}
Requests == [nth : 1..MaxRequests, op : Kinds]
TableOps == {r \in Requests : r.op # "stats"}
\* The request becomes its answer; a STATS gets the statistics in it.
StatsAnswers == [ops : Nat, time : Nat, clients : Nat]
Messages == Requests \cup StatsAnswers

ASSUME NoneAssumption == None \notin Messages

Init ==
  /\ proc = "up" /\ mutex = None
  /\ n_ops = 0 /\ n_clients = 0 /\ time_spent = 0
  /\ clock = 0
  /\ sucessor = Sucessor /\ mixed = FALSE
  /\ pc = [h \in Conns |-> "none"]
  /\ req = [h \in Conns |-> None]
  /\ reg = [h \in Conns |-> 0]
  /\ time = [h \in Conns |-> 0]
  /\ errno = [h \in Conns |-> FALSE]
  /\ peer = [c \in Conns |-> "backlog"]
  /\ inbox = [c \in Conns |-> None]
  /\ ans = [c \in Conns |-> None]
  /\ nth = 0
  /\ counted = {} /\ answered = {}
  /\ base = [c \in Conns |-> 0]
  /\ moments = [c \in Conns |-> {}]

-----------------------------------------------------------------------------
(* The clients, as far as a server sees them *)

Connected(c) == peer[c] \in {"backlog", "open"}

\* Nothing of the last request is on its way: network_send_receive is over.
Quiet(c) == inbox[c] = None /\ req[c] = None /\ ans[c] = None

\* What the statistics are while nobody is changing more than one of them.
Content == [ops |-> n_ops, time |-> time_spent, clients |-> n_clients]
Steady  == \A h \in Conns : pc[h] # "counting"

\* The STATS of c is in the socket or served.
Asks(c) == \/ inbox[c] # None /\ inbox[c].op = "stats"
           \/ pc[c] \in {"stats", "copying"}

\* A change is complete.
Remember ==
  moments' = [c \in Conns |-> moments[c] \cup IF Asks(c) THEN {Content'} ELSE {}]

Send(c) ==
  /\ Connected(c) /\ Quiet(c)
  /\ nth < MaxRequests
  /\ nth' = nth + 1
  /\ \E op \in Kinds :
       /\ inbox' = [inbox EXCEPT ![c] = [nth |-> nth + 1, op |-> op]]
       /\ moments' = [moments EXCEPT ![c] = IF op = "stats" /\ Steady THEN {Content} ELSE {}]
  /\ base' = [base EXCEPT ![c] = Cardinality(answered)]
  /\ UNCHANGED <<proc, mutex, stats, clock, link, pc, local, peer, ans, counted, answered>>

ReadAnswer(c) ==
  /\ Connected(c) /\ ans[c] # None
  /\ ans' = [ans EXCEPT ![c] = None]
  /\ base' = [base EXCEPT ![c] = 0]
  /\ moments' = [moments EXCEPT ![c] = {}]
  /\ UNCHANGED <<proc, mutex, stats, clock, link, pc, local, peer, inbox, nth,
                 counted, answered>>

\* A client may end at any time; with an answer that it has not read, its
\* system may reset the connection.
Leave(c) ==
  /\ Connected(c)
  /\ \/ peer' = [peer EXCEPT ![c] = "closed"]
     \/ ans[c] # None /\ peer' = [peer EXCEPT ![c] = "reset"]
  /\ UNCHANGED <<proc, mutex, stats, clock, link, pc, local, inbox, ans, nth, base, past>>

SucessorDies ==
  /\ sucessor = "up"
  /\ sucessor' = "gone"
  /\ UNCHANGED <<proc, mutex, stats, clock, mixed, pc, local, sockets, past>>

-----------------------------------------------------------------------------
(* network_main_loop *)

Accept(c) ==
  /\ proc = "up" /\ pc[c] = "none" /\ peer[c] # "refused"
  /\ pc' = [pc EXCEPT ![c] = "enter"]
  /\ peer' = [peer EXCEPT ![c] = IF @ = "backlog" THEN "open" ELSE @]
  /\ UNCHANGED <<proc, mutex, stats, clock, link, local, inbox, ans, nth, base, past>>

\* accept, malloc or pthread_create fails: the connection is closed at most.
Refuse(c) ==
  /\ proc = "up" /\ pc[c] = "none" /\ peer[c] # "refused"
  /\ peer' = [peer EXCEPT ![c] = "refused"]
  /\ inbox' = [inbox EXCEPT ![c] = None]
  /\ UNCHANGED <<proc, mutex, stats, clock, link, pc, local, ans, nth, base, past>>

-----------------------------------------------------------------------------
(* client_handler *)

Goto(h, from, to) ==
  /\ proc = "up" /\ pc[h] = from
  /\ pc' = [pc EXCEPT ![h] = to]

\* Mutant: the mutex is not waited for.
LockNothing(h) == mutex' = h

Lock(h) == mutex = None /\ mutex' = h


Unlock(h) == mutex = h /\ mutex' = None

\* n_clients++ and n_clients--: a read and a write, with stats_mutex.
ReadClients(h, from, to) ==
  /\ Goto(h, from, to)
  /\ Lock(h)
  /\ reg' = [reg EXCEPT ![h] = n_clients]
  /\ UNCHANGED <<proc, stats, clock, link, req, time, errno, sockets, past>>

WriteClients(h, from, to, n) ==
  /\ Goto(h, from, to)
  /\ n_clients' = reg[h] + n
  /\ reg' = [reg EXCEPT ![h] = 0]
  /\ Unlock(h)
  /\ UNCHANGED <<proc, n_ops, time_spent, clock, link, req, time, errno, sockets,
                 counted, answered>>
  /\ Remember

\* Mutant: a connection is not counted when it begins.
EnteredUncounted(h) == WriteClients(h, "entering", "recv", 0)

Enter(h)    == ReadClients(h, "enter", "entering")
Entered(h)  == WriteClients(h, "entering", "recv", 1)
Exit(h)     == ReadClients(h, "close", "leaving")
Left(h)     == WriteClients(h, "leaving", "gone", -1)

Receive(h) ==
  /\ inbox[h] # None /\ peer[h] # "reset"
  /\ Goto(h, "recv", IF inbox[h].op = "stats" THEN "stats" ELSE "begin")
  /\ req' = [req EXCEPT ![h] = inbox[h]]
  /\ inbox' = [inbox EXCEPT ![h] = None]
  /\ UNCHANGED <<proc, mutex, stats, clock, link, reg, time, errno, peer, ans, nth, base, past>>

\* Mutant: a connection that ended is taken for an error.
EndIsError(h, failed) ==
  /\ proc = "up" /\ pc[h] = "recv"
  /\ proc' = "dead"
  /\ UNCHANGED <<mutex, stats, clock, link, pc, local, peer, inbox, ans, nth, base, past>>

\* No request: the loop ends if errno is 0, and else goes on with a NULL.
NoRequest(h, failed) ==
  /\ proc = "up" /\ pc[h] = "recv"
  /\ errno' = [errno EXCEPT ![h] = @ \/ failed]
  /\ IF errno[h] \/ failed
     THEN proc' = "dead" /\ UNCHANGED <<pc, peer>>
     ELSE /\ pc' = [pc EXCEPT ![h] = "close"]
          /\ peer' = [peer EXCEPT ![h] = "refused"]
          /\ UNCHANGED proc
  /\ UNCHANGED <<mutex, stats, clock, link, req, reg, time, inbox, ans, nth, base, past>>

ReceiveEnd(h)   == inbox[h] = None /\ peer[h] = "closed" /\ NoRequest(h, FALSE)
ReceiveReset(h) == peer[h] = "reset" /\ NoRequest(h, TRUE)

StatsBegin(h) ==
  /\ Goto(h, "stats", "copying")
  /\ Lock(h)
  /\ reg' = [reg EXCEPT ![h] = n_ops]
  /\ UNCHANGED <<proc, stats, clock, link, req, time, errno, sockets, past>>

\* Mutant: n_clients is read after the mutex has been given back.
ClientsLate(h) ==
  /\ \/ /\ Goto(h, "copying", "copying")
        /\ Unlock(h)
        /\ req' = [req EXCEPT ![h] = [ops |-> reg[h], time |-> time_spent, clients |-> 0]]
        /\ UNCHANGED reg
     \/ /\ mutex # h /\ UNCHANGED mutex
        /\ Goto(h, "copying", "reply")
        /\ req' = [req EXCEPT ![h].clients = n_clients]
        /\ reg' = [reg EXCEPT ![h] = 0]
  /\ UNCHANGED <<proc, stats, clock, link, time, errno, sockets, past>>

StatsEnd(h) ==
  /\ Goto(h, "copying", "reply")
  /\ Unlock(h)
  /\ req' = [req EXCEPT ![h] = [ops |-> reg[h], time |-> time_spent, clients |-> n_clients]]
  /\ reg' = [reg EXCEPT ![h] = 0]
  /\ UNCHANGED <<proc, stats, clock, link, time, errno, sockets, past>>

Begin(h) ==
  /\ Goto(h, "begin", "invoke")
  /\ time' = [time EXCEPT ![h] = clock]
  /\ UNCHANGED <<proc, mutex, stats, clock, link, req, reg, errno, sockets, past>>

Forwards(h) == req[h].op = "update" /\ sucessor # "null"

\* An operation is one unit of work; the clock is the whole process's.  Nothing
\* keeps a second thread out of the socket while one forwards its update.
Invoke(h) ==
  /\ Goto(h, "invoke", IF Forwards(h) THEN "forward" ELSE "end")
  /\ clock' = clock + 1
  /\ mixed' = (mixed \/ (Forwards(h) /\ \E g \in Conns \ {h} : pc[g] = "forward"))
  /\ UNCHANGED <<proc, mutex, stats, sucessor, local, sockets, past>>

\* The successor has died, or it may have read a mixture of two requests: then
\* it closes the socket, or the answers in it belong to other threads.
Troubled == sucessor = "gone" \/ mixed

\* In a socket with such trouble a read ends, fails or waits for ever, and a
\* write may never return.
Forward(h) ==
  /\ \/ /\ Goto(h, "forward", "end")
        /\ \/ UNCHANGED errno
           \/ Troubled /\ errno' = [errno EXCEPT ![h] = TRUE]
     \/ Troubled /\ Goto(h, "forward", "stuck") /\ UNCHANGED errno
  /\ UNCHANGED <<proc, mutex, stats, clock, link, req, reg, time, sockets, past>>

\* Mutant: the operation's time is its end.
EndForgetsBegin(h) ==
  /\ Goto(h, "end", "count")
  /\ time' = [time EXCEPT ![h] = 0]
  /\ UNCHANGED <<proc, mutex, stats, clock, link, req, reg, errno, sockets, past>>

End(h) ==
  /\ Goto(h, "end", "count")
  /\ time' = [time EXCEPT ![h] = clock - @]
  /\ UNCHANGED <<proc, mutex, stats, clock, link, req, reg, errno, sockets, past>>

\* time_spent += duracao and the read of n_ops++ ...
CountBegin(h) ==
  /\ Goto(h, "count", "counting")
  /\ Lock(h)
  /\ time_spent' = time_spent + time[h]
  /\ time' = [time EXCEPT ![h] = 0]
  /\ reg' = [reg EXCEPT ![h] = n_ops]
  /\ UNCHANGED <<proc, n_ops, n_clients, clock, link, req, errno, sockets, past>>

\* ... and its write.
CountEnd(h) ==
  /\ Goto(h, "counting", "reply")
  /\ n_ops' = reg[h] + 1
  /\ Unlock(h)
  /\ counted' = counted \cup {req[h]}
  /\ reg' = [reg EXCEPT ![h] = 0]
  /\ UNCHANGED <<proc, n_clients, time_spent, clock, link, req, time, errno, sockets,
                 answered>>
  /\ Remember

\* network_send to a client that waits.
Reply(h) ==
  /\ Goto(h, "reply", "recv")
  /\ peer[h] = "open"
  /\ ans' = [ans EXCEPT ![h] = req[h]]
  /\ answered' = answered \cup ({req[h]} \cap TableOps)
  /\ req' = [req EXCEPT ![h] = None]
  /\ UNCHANGED <<proc, mutex, stats, clock, link, reg, time, errno,
                 peer, inbox, nth, base, counted, moments>>

\* To one that has left: its system may reset the connection, and if it does
\* before the second write, that one never returns.
ReplyToNobody(h) ==
  /\ peer[h] # "open"
  /\ \/ Goto(h, "reply", "recv") /\ \E p \in {peer[h], "reset"} : peer' = [peer EXCEPT ![h] = p]
     \/ Goto(h, "reply", "stuck") /\ UNCHANGED peer
  /\ req' = [req EXCEPT ![h] = None]
  /\ UNCHANGED <<proc, mutex, stats, clock, link, reg, time, errno,
                 inbox, ans, nth, base, past>>

-----------------------------------------------------------------------------
Client(c) == Send(c) \/ ReadAnswer(c) \/ Leave(c)

Handler(h) ==
  \/ Enter(h) \/ Entered(h) \/ Receive(h) \/ ReceiveEnd(h) \/ ReceiveReset(h)
  \/ StatsBegin(h) \/ StatsEnd(h)
  \/ Begin(h) \/ Invoke(h) \/ Forward(h) \/ End(h) \/ CountBegin(h) \/ CountEnd(h)
  \/ Reply(h) \/ ReplyToNobody(h) \/ Exit(h) \/ Left(h)

Next ==
  \/ SucessorDies
  \/ \E c \in Conns : Client(c) \/ Accept(c) \/ Refuse(c) \/ Handler(c)

Spec == Init /\ [][Next]_vars

\* main and the threads are scheduled; nobody waits for stats_mutex for ever,
\* because there are only so many requests.
FairSpec == Spec /\ \A c \in Conns : WF_vars(Accept(c) \/ Refuse(c)) /\ WF_vars(Handler(c))

-----------------------------------------------------------------------------
\* The threads that n_clients is to count.
Inside == {h \in Conns : pc[h] \notin {"none", "enter", "gone"}}

PCs == {"none", "enter", "entering", "recv", "stats", "copying", "begin", "invoke", "forward",
        "end", "count", "counting", "reply", "stuck", "close", "leaving", "gone"}

TypeOK ==
  /\ proc \in {"up", "dead"}
  /\ mutex \in Conns \cup {None}
  /\ n_ops \in Nat /\ n_clients \in Nat /\ time_spent \in Nat /\ clock \in Nat
  /\ sucessor \in {"null", "up", "gone"} /\ mixed \in BOOLEAN
  /\ pc \in [Conns -> PCs]
  /\ req \in [Conns -> Messages \cup {None}]
  /\ reg \in [Conns -> Nat] /\ time \in [Conns -> Nat]
  /\ errno \in [Conns -> BOOLEAN]
  /\ peer \in [Conns -> {"backlog", "open", "closed", "reset", "refused"}]
  /\ inbox \in [Conns -> Requests \cup {None}]
  /\ ans \in [Conns -> Messages \cup {None}]
  /\ nth \in 0..MaxRequests
  /\ counted \subseteq TableOps /\ answered \subseteq TableOps
  /\ base \in [Conns -> Nat]
  /\ moments \in [Conns -> SUBSET StatsAnswers]

\* No thread loses what another has counted: whenever stats_mutex is free, n_ops
\* is the number of operations counted and n_clients that of the connections
\* being served; and an operation is counted before its client has the answer.
CountsExact ==
  /\ mutex = None => n_ops = Cardinality(counted) /\ n_clients = Cardinality(Inside)
  /\ answered \subseteq counted

\* The three numbers that STATS answers were in struct statistics_t together, at
\* one moment not before the request; and every operation that any client had
\* been answered when this one was sent is among those counted.
StatsExact == \A c \in Conns : ans[c] \in StatsAnswers =>
  /\ ans[c].ops >= base[c]
  /\ ans[c] \in moments[c]

\* Each operation adds at least its own work to time_spent, whichever others
\* work at the same time on the clock of the process.
OwnWorkCounted == mutex = None => time_spent >= n_ops

\* Clients that read their answers before they leave cannot bring the server
\* down while its successor lives and no two of its threads forward at once:
\* errno is then 0 whenever a connection ends.
DiesOnlyOfFailures ==
  proc = "dead" => sucessor = "gone" \/ mixed \/ \E c \in Conns : peer[c] = "reset"

\* Who stays gets an answer, though other clients come and go, have requests of
\* their own and share stats_mutex: unless connection or server fail, or the
\* thread is lost in the socket to a successor that died or that other threads
\* have used at the same time.
Waits(c) == inbox[c] # None \/ req[c] # None

-----------------------------------------------------------------------------
(* What the comments of the sources say *)

\* server_network.c:427: network_main_loop returns only if there is an error.
KeepsServing == proc = "up"

\* stats.h:8: time_spent is the time spent on the operations.
TimeWithinClock == time_spent <= clock
=============================================================================
