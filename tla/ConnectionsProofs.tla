-------------------------- MODULE ConnectionsProofs --------------------------
(***************************************************************************)
(* Theorems about Connections, for any number of clients and requests.     *)
(***************************************************************************)
EXTENDS Connections, FiniteSetTheorems, TLAPS

\* Where a thread has a request of its client, and where an operation on the
\* table that n_ops has not counted.
Serving == {"stats", "copying", "begin", "invoke", "forward", "end", "count", "counting"}
Working == Serving \ {"stats", "copying"}

\* The types that actions need of each other, but for those of what is counted.
Types ==
  /\ proc \in {"up", "dead"}
  /\ mutex \in Conns \cup {None}
  /\ sucessor \in {"null", "up", "gone"} /\ mixed \in BOOLEAN
  /\ pc \in [Conns -> PCs]
  /\ errno \in [Conns -> BOOLEAN]
  /\ peer \in [Conns -> {"backlog", "open", "closed", "reset", "refused"}]
  /\ nth \in 0..MaxRequests

LEMMA TypesAlways == Spec => []Types
<1> USE DEF Types, vars, stats, link, sockets, past, local
<1>1. Init => Types
  <2> SUFFICES ASSUME Init PROVE Types
    OBVIOUS
  <2>1. mixed = FALSE
    BY DEF Init
  <2>2. mixed \in BOOLEAN
    BY ONLY <2>1
  <2>3. QED
    BY <2>2, ConnectionsAssumption DEF Init, PCs
<1>2. Types /\ [Next]_vars => Types'
  <2> SUFFICES ASSUME Types, [Next]_vars PROVE Types'
    OBVIOUS
  <2> USE ConnectionsAssumption DEF Goto, PCs
  <2>1. CASE SucessorDies
    BY <2>1 DEF SucessorDies
  <2>2. ASSUME NEW c \in Conns, Client(c) PROVE Types'
    BY <2>2 DEF Client, Send, ReadAnswer, Leave
  <2>3. ASSUME NEW c \in Conns, Accept(c) \/ Refuse(c) PROVE Types'
    BY <2>3 DEF Accept, Refuse
  <2>4. ASSUME NEW c \in Conns, Handler(c) PROVE Types'
    <3>1. CASE Enter(c) \/ Entered(c) \/ Exit(c) \/ Left(c)
      BY <3>1 DEF Enter, Entered, Exit, Left, ReadClients, WriteClients, Lock, Unlock
    <3>2. CASE Receive(c) \/ ReceiveEnd(c) \/ ReceiveReset(c)
      BY <3>2 DEF Receive, ReceiveEnd, ReceiveReset, NoRequest
    <3>3. CASE StatsBegin(c) \/ StatsEnd(c)
      BY <3>3 DEF StatsBegin, StatsEnd, Lock, Unlock
    <3>4. CASE Begin(c) \/ Invoke(c) \/ Forward(c) \/ End(c)
      BY <3>4 DEF Begin, Invoke, Forward, End
    <3>5. CASE CountBegin(c) \/ CountEnd(c)
      BY <3>5 DEF CountBegin, CountEnd, Lock, Unlock
    <3>6. CASE Reply(c) \/ ReplyToNobody(c)
      BY <3>6 DEF Reply, ReplyToNobody
    <3>7. QED
      BY <2>4, <3>1, <3>2, <3>3, <3>4, <3>5, <3>6 DEF Handler
  <2>5. CASE UNCHANGED vars
    BY <2>5
  <2>6. QED
    BY <2>1, <2>2, <2>3, <2>4, <2>5 DEF Next
<1>3. QED
  BY <1>1, <1>2, PTL DEF Spec
-----------------------------------------------------------------------------
(* Who may be the cause of the end of the server *)

\* A thread that goes on with an errno that is not 0 has forwarded in a socket
\* whose other end died, or that several threads have used at once.
Causes ==
  /\ \A h \in Conns : errno[h] => Troubled \/ proc = "dead"
  /\ DiesOnlyOfFailures

\* Clients that read their answers before they leave, however many they are, do
\* not bring the server down while its successor lives and no two threads forward
\* at once.
THEOREM DiesOnlyOfFailuresAlways == Spec => []DiesOnlyOfFailures
<1> USE DEF Causes, DiesOnlyOfFailures, Troubled
<1>1. Init => Causes
  BY DEF Init
<1>2. Types /\ Causes /\ [Next]_vars => Causes'
  <2> SUFFICES ASSUME Types, Causes, [Next]_vars PROVE Causes'
    OBVIOUS
  <2> USE DEF Types, vars, stats, link, sockets, past, local, Goto
  <2>1. CASE SucessorDies
    BY <2>1 DEF SucessorDies
  <2>2. ASSUME NEW c \in Conns, Client(c) PROVE Causes'
    BY <2>2 DEF Client, Send, ReadAnswer, Leave, Connected
  <2>3. ASSUME NEW c \in Conns, Accept(c) \/ Refuse(c) PROVE Causes'
    BY <2>3 DEF Accept, Refuse
  <2>4. ASSUME NEW c \in Conns, Handler(c) PROVE Causes'
    <3>1. CASE Enter(c) \/ Entered(c) \/ Exit(c) \/ Left(c)
      BY <3>1 DEF Enter, Entered, Exit, Left, ReadClients, WriteClients, Lock, Unlock
    <3>2. CASE Receive(c)
      BY <3>2 DEF Receive
    <3>3. CASE ReceiveEnd(c) \/ ReceiveReset(c)
      BY <3>3 DEF ReceiveEnd, ReceiveReset, NoRequest
    <3>4. CASE StatsBegin(c) \/ StatsEnd(c) \/ CountBegin(c) \/ CountEnd(c)
      BY <3>4 DEF StatsBegin, StatsEnd, CountBegin, CountEnd, Lock, Unlock
    <3>5. CASE Begin(c) \/ Invoke(c) \/ Forward(c) \/ End(c)
      BY <3>5 DEF Begin, Invoke, Forward, End
    <3>6. CASE Reply(c) \/ ReplyToNobody(c)
      BY <3>6 DEF Reply, ReplyToNobody
    <3>7. QED
      BY <2>4, <3>1, <3>2, <3>3, <3>4, <3>5, <3>6 DEF Handler
  <2>5. CASE UNCHANGED vars
    BY <2>5
  <2>6. QED
    BY <2>1, <2>2, <2>3, <2>4, <2>5 DEF Next
<1>3. QED
  BY <1>1, <1>2, TypesAlways, PTL DEF Spec

-----------------------------------------------------------------------------
(* stats_mutex, and the time of the operations *)

Critical == {"entering", "copying", "counting", "leaving"}

\* Who is between a read and a write of the statistics holds stats_mutex, and
\* what it has read is still there.
Exclusive ==
  /\ \A h \in Conns : pc[h] \in Critical <=> mutex = h
  /\ \A h \in Conns : pc[h] \in {"copying", "counting"} => reg[h] = n_ops
  /\ \A h \in Conns : pc[h] \in {"entering", "leaving"} => reg[h] = n_clients

\* An operation that has begun has the clock of then, and once invoke has
\* returned that was before now.
Timed ==
  /\ clock \in Nat /\ n_ops \in Nat /\ time_spent \in Nat /\ n_clients \in Int
  /\ time \in [Conns -> Nat] /\ reg \in [Conns -> Int]
  /\ \A h \in Conns : pc[h] \notin Critical => reg[h] = 0
  /\ \A h \in Conns : pc[h] = "invoke" => time[h] <= clock
  /\ \A h \in Conns : pc[h] \in {"forward", "end"} => time[h] < clock
  /\ \A h \in Conns : pc[h] = "count" => 1 <= time[h]
  /\ time_spent >= n_ops
  /\ \A h \in Conns : pc[h] = "counting" => time_spent >= n_ops + 1

Measured == Exclusive /\ Timed

LEMMA MeasuredAlways == Spec => []Measured
<1> USE DEF Measured, Exclusive, Timed, Critical
<1>1. Init => Measured
  BY ConnectionsAssumption DEF Init
<1>2. Types /\ Measured /\ [Next]_vars => Measured'
  <2> SUFFICES ASSUME Types, Measured, [Next]_vars PROVE Measured'
    OBVIOUS
  <2> USE ConnectionsAssumption DEF Types, vars, stats, link, sockets, past, local, Goto
  <2>1. CASE SucessorDies
    BY <2>1 DEF SucessorDies
  <2>2. ASSUME NEW c \in Conns, Client(c) PROVE Measured'
    BY <2>2 DEF Client, Send, ReadAnswer, Leave
  <2>3. ASSUME NEW c \in Conns, Accept(c) \/ Refuse(c) PROVE Measured'
    BY <2>3 DEF Accept, Refuse
  <2>4. ASSUME NEW c \in Conns, Handler(c) PROVE Measured'
    <3>1. CASE Enter(c) \/ Exit(c)
      BY <3>1 DEF Enter, Exit, ReadClients, Lock
    <3>2. CASE Entered(c) \/ Left(c)
      BY <3>2 DEF Entered, Left, WriteClients, Unlock
    <3>3. CASE Receive(c) \/ ReceiveEnd(c) \/ ReceiveReset(c)
      BY <3>3 DEF Receive, ReceiveEnd, ReceiveReset, NoRequest
    <3>4. CASE StatsBegin(c) \/ StatsEnd(c)
      BY <3>4 DEF StatsBegin, StatsEnd, Lock, Unlock
    <3>5. CASE Begin(c) \/ Invoke(c)
      BY <3>5 DEF Begin, Invoke
    <3>6. CASE Forward(c) \/ End(c)
      BY <3>6 DEF Forward, End
    <3>7. CASE CountBegin(c)
      BY <3>7 DEF CountBegin, Lock
    <3>8. CASE CountEnd(c)
      BY <3>8 DEF CountEnd, Unlock
    <3>9. CASE Reply(c) \/ ReplyToNobody(c)
      BY <3>9 DEF Reply, ReplyToNobody
    <3>10. QED
      BY <2>4, <3>1, <3>2, <3>3, <3>4, <3>5, <3>6, <3>7, <3>8, <3>9 DEF Handler
  <2>5. CASE UNCHANGED vars
    BY <2>5
  <2>6. QED
    BY <2>1, <2>2, <2>3, <2>4, <2>5 DEF Next
<1>3. QED
  BY <1>1, <1>2, TypesAlways, PTL DEF Spec

\* However many operations run at once, none is missing from time_spent.
THEOREM OwnWorkCountedAlways == Spec => []OwnWorkCounted
<1>1. Measured => OwnWorkCounted
  BY DEF Measured, Timed, OwnWorkCounted
<1>2. QED
  BY <1>1, MeasuredAlways, PTL

-----------------------------------------------------------------------------
(* n_clients *)

\* The threads that n_clients has counted.
Served == {h \in Conns : pc[h] \notin {"none", "enter", "entering", "gone"}}

Census == n_clients = Cardinality(Served)

LEMMA ServedFinite == IsFiniteSet(Served) /\ IsFiniteSet(Served')
  BY ConnectionsAssumption, FS_Subset DEF Served

LEMMA CensusAlways == Spec => []Census
<1>1. Init => Census
  <2> SUFFICES ASSUME Init PROVE Census
    OBVIOUS
  <2>1. Served = {}
    BY DEF Init, Served
  <2>2. QED
    BY <2>1, FS_EmptySet DEF Init, Census
<1>2. Types /\ Measured /\ Census /\ [Next]_vars => Census'
  <2> SUFFICES ASSUME Types, Measured, Census, [Next]_vars PROVE Census'
    OBVIOUS
  <2> USE DEF Types, vars, stats, link, sockets, past, local, Goto
  <2>1. ASSUME Served' = Served, n_clients' = n_clients PROVE Census'
    BY <2>1 DEF Census
  <2>2. CASE SucessorDies
    BY <2>1, <2>2 DEF SucessorDies, Served
  <2>3. ASSUME NEW c \in Conns, Client(c) PROVE Census'
    BY <2>1, <2>3 DEF Client, Send, ReadAnswer, Leave, Served
  <2>4. ASSUME NEW c \in Conns, Accept(c) \/ Refuse(c) PROVE Census'
    BY <2>1, <2>4 DEF Accept, Refuse, Served
  <2>5. ASSUME NEW c \in Conns, Handler(c) PROVE Census'
    <3>1. CASE Enter(c) \/ Exit(c)
      BY <2>1, <3>1 DEF Enter, Exit, ReadClients, Served
    <3>2. CASE Entered(c)
      <4>1. c \notin Served /\ Served' = Served \cup {c}
        BY <3>2 DEF Entered, WriteClients, Served
      <4>2. n_clients' = n_clients + 1
        BY <3>2 DEF Entered, WriteClients, Measured, Exclusive
      <4>3. QED
        BY <4>1, <4>2, ServedFinite, FS_AddElement DEF Census
    <3>3. CASE Left(c)
      <4>1. c \in Served /\ Served' = Served \ {c}
        BY <3>3 DEF Left, WriteClients, Served
      <4>2. n_clients' = n_clients - 1
        BY <3>3 DEF Left, WriteClients, Measured, Exclusive, Timed
      <4>3. QED
        BY <4>1, <4>2, ServedFinite, FS_RemoveElement DEF Census
    <3>4. CASE Receive(c) \/ ReceiveEnd(c) \/ ReceiveReset(c)
      BY <2>1, <3>4 DEF Receive, ReceiveEnd, ReceiveReset, NoRequest, Served
    <3>5. CASE StatsBegin(c) \/ StatsEnd(c) \/ CountBegin(c) \/ CountEnd(c)
      BY <2>1, <3>5 DEF StatsBegin, StatsEnd, CountBegin, CountEnd, Served
    <3>6. CASE Begin(c) \/ Invoke(c) \/ Forward(c) \/ End(c)
      BY <2>1, <3>6 DEF Begin, Invoke, Forward, End, Served
    <3>7. CASE Reply(c) \/ ReplyToNobody(c)
      BY <2>1, <3>7 DEF Reply, ReplyToNobody, Served
    <3>8. QED
      BY <2>5, <3>1, <3>2, <3>3, <3>4, <3>5, <3>6, <3>7 DEF Handler
  <2>6. CASE UNCHANGED vars
    BY <2>1, <2>6 DEF Served
  <2>7. QED
    BY <2>2, <2>3, <2>4, <2>5, <2>6 DEF Next
<1>3. QED
  BY <1>1, <1>2, TypesAlways, MeasuredAlways, PTL DEF Spec

-----------------------------------------------------------------------------
(* Requests and answers *)

Sockets ==
  /\ req \in [Conns -> Messages \cup {None}]
  /\ inbox \in [Conns -> Requests \cup {None}]
  /\ ans \in [Conns -> Messages \cup {None}]
  /\ \A h \in Conns : pc[h] \in Serving => req[h] \in Requests /\ inbox[h] = None
  /\ \A h \in Conns : pc[h] \in Working => req[h].op # "stats"
  /\ \A c \in Conns : req[c] # None => inbox[c] = None
  /\ \A c \in Conns : ans[c] # None => inbox[c] = None /\ req[c] = None

LEMMA SocketsAlways == Spec => []Sockets
<1> USE DEF Sockets, Serving, Working, Messages
<1>1. Init => Sockets
  BY DEF Init
<1>2. Types /\ Measured /\ Sockets /\ Census /\ [Next]_vars => Sockets'
  <2> SUFFICES ASSUME Types, Measured, Census, Sockets, [Next]_vars PROVE Sockets'
    OBVIOUS
  <2> USE ConnectionsAssumption, NoneAssumption
      DEF Types, vars, stats, link, sockets, past, local, Goto
  <2>1. CASE SucessorDies
    BY <2>1 DEF SucessorDies
  <2>2. ASSUME NEW c \in Conns, Send(c) PROVE Sockets'
    BY <2>2 DEF Send, Quiet, Requests, Kinds
  <2>3. ASSUME NEW c \in Conns, ReadAnswer(c) \/ Leave(c) \/ Accept(c) \/ Refuse(c)
        PROVE Sockets'
    BY <2>3 DEF ReadAnswer, Leave, Accept, Refuse
  <2>4. ASSUME NEW c \in Conns, Handler(c) PROVE Sockets'
    <3>1. CASE Enter(c) \/ Exit(c) \/ Entered(c) \/ Left(c)
      BY <3>1 DEF Enter, Exit, Entered, Left, ReadClients, WriteClients
    <3>2. CASE Receive(c)
      BY <3>2 DEF Receive
    <3>3. CASE ReceiveEnd(c) \/ ReceiveReset(c)
      BY <3>3 DEF ReceiveEnd, ReceiveReset, NoRequest
    <3>4. CASE StatsBegin(c)
      BY <3>4 DEF StatsBegin
    <3>5. CASE StatsEnd(c)
      <4>1. n_clients \in Nat
        BY ServedFinite, FS_CardinalityType DEF Census
      <4>2. reg[c] \in Nat /\ time_spent \in Nat
        BY <3>5 DEF StatsEnd, Measured, Exclusive, Timed
      <4>3. [ops |-> reg[c], time |-> time_spent, clients |-> n_clients] \in Messages
        BY <4>1, <4>2 DEF StatsAnswers
      <4>4. QED
        BY <3>5, <4>3 DEF StatsEnd
    <3>6. CASE Begin(c) \/ Invoke(c) \/ Forward(c) \/ End(c)
      BY <3>6 DEF Begin, Invoke, Forward, End
    <3>7. CASE CountBegin(c) \/ CountEnd(c)
      BY <3>7 DEF CountBegin, CountEnd
    <3>8. CASE Reply(c) \/ ReplyToNobody(c)
      BY <3>8 DEF Reply, ReplyToNobody
    <3>9. QED
      BY <2>4, <3>1, <3>2, <3>3, <3>4, <3>5, <3>6, <3>7, <3>8 DEF Handler
  <2>5. CASE UNCHANGED vars
    BY <2>5
  <2>6. QED
    BY <2>1, <2>2, <2>3, <2>4, <2>5 DEF Next, Client
<1>3. QED
  BY <1>1, <1>2, TypesAlways, MeasuredAlways, CensusAlways, PTL DEF Spec

-----------------------------------------------------------------------------
(* n_ops *)

\* Request r of client c is on its way or being served.
Pending(c, r) == r = inbox[c] \/ (pc[c] \in Serving /\ r = req[c])

\* A pending request is not counted yet, and pending once: numbers are not used again.
Fresh ==
  /\ \A r \in counted : r \in TableOps /\ r.nth <= nth
  /\ \A c \in Conns, r \in Requests :
       Pending(c, r) => r.nth <= nth /\ r \notin counted /\ \A d \in Conns \ {c} : ~Pending(d, r)

\* What has been counted and what has been answered.
Ledger ==
  /\ Fresh
  /\ IsFiniteSet(counted) /\ n_ops = Cardinality(counted)
  /\ answered \subseteq counted
  /\ \A h \in Conns : pc[h] = "reply" /\ req[h] \in TableOps => req[h] \in counted

\* What STATS answers is no request.
LEMMA StatsAreNoRequests == ASSUME NEW m \in StatsAnswers PROVE m \notin Requests
  BY DEF StatsAnswers, Requests

LEMMA LedgerAlways == Spec => []Ledger
<1>1. Init => Ledger
  <2> SUFFICES ASSUME Init PROVE Ledger
    OBVIOUS
  <2>1. Fresh
    BY NoneAssumption DEF Init, Fresh, Pending, Serving, Messages
  <2>2. QED
    BY <2>1, FS_EmptySet DEF Init, Ledger
<1>2. Types /\ Measured /\ Sockets /\ Census /\ Ledger /\ [Next]_vars => Ledger'
  <2> SUFFICES ASSUME Types, Measured, Sockets, Census, Ledger, [Next]_vars PROVE Ledger'
    OBVIOUS
  <2> USE NoneAssumption DEF Types, Sockets, vars, stats, link, sockets, past, local, Goto,
                             Serving, Working, Messages
  <2>1. ASSUME counted' = counted, n_ops' = n_ops, answered' = answered, nth' = nth,
               \A d \in Conns, r \in Requests : Pending(d, r)' => Pending(d, r),
               \A d \in Conns : pc'[d] = "reply" => (pc[d] = "reply" /\ req'[d] = req[d])
                                                 \/ req'[d] \notin TableOps
        PROVE Ledger'
    BY <2>1 DEF Ledger, Fresh
  <2>2. CASE SucessorDies
    BY <2>1, <2>2 DEF SucessorDies, Pending
  <2>3. ASSUME NEW c \in Conns, Send(c) PROVE Ledger'
    <3>1. PICK op \in Kinds : inbox' = [inbox EXCEPT ![c] = [nth |-> nth + 1, op |-> op]]
      BY <2>3 DEF Send
    <3>2. DEFINE new == [nth |-> nth + 1, op |-> op]
    <3>3. new.nth = nth + 1 /\ nth' = nth + 1 /\ nth \in Nat /\ counted' = counted
      BY <2>3, ConnectionsAssumption DEF Send
    <3>4. \A d \in Conns, r \in Requests : Pending(d, r)' <=> (d = c /\ r = new) \/ (d # c /\ Pending(d, r))
      BY <2>3, <3>1 DEF Send, Quiet, Pending
    <3>5. new \notin counted /\ \A d \in Conns : ~Pending(d, new) \/ new \notin Requests
      BY <3>3 DEF Ledger, Fresh
    <3>6. \A r \in Requests : r.nth \in Nat
      BY ConnectionsAssumption DEF Requests
    <3>7. Fresh'
      BY <3>3, <3>4, <3>5, <3>6 DEF Ledger, Fresh, TableOps
    <3>8. QED
      BY <2>3, <3>7 DEF Send, Ledger
  <2>4. ASSUME NEW c \in Conns, ReadAnswer(c) \/ Leave(c) \/ Accept(c) \/ Refuse(c)
        PROVE Ledger'
    BY <2>1, <2>4 DEF ReadAnswer, Leave, Accept, Refuse, Pending
  <2>5. ASSUME NEW c \in Conns, Handler(c) PROVE Ledger'
    <3>1. CASE Enter(c) \/ Exit(c) \/ Entered(c) \/ Left(c)
      BY <2>1, <3>1 DEF Enter, Exit, Entered, Left, ReadClients, WriteClients, Pending
    <3>2. CASE Receive(c)
      BY <2>1, <3>2 DEF Receive, Pending
    <3>3. CASE ReceiveEnd(c) \/ ReceiveReset(c)
      BY <2>1, <3>3 DEF ReceiveEnd, ReceiveReset, NoRequest, Pending
    <3>4. CASE StatsBegin(c)
      BY <2>1, <3>4 DEF StatsBegin, Pending
    <3>5. CASE StatsEnd(c)
      <4>1. req'[c] \in StatsAnswers
        <5>1. n_clients \in Nat
          BY ServedFinite, FS_CardinalityType DEF Census
        <5>2. reg[c] \in Nat /\ time_spent \in Nat
          BY <3>5 DEF StatsEnd, Measured, Exclusive, Timed
        <5>3. QED
          BY <3>5, <5>1, <5>2 DEF StatsEnd, StatsAnswers
      <4>2. QED
        BY <2>1, <3>5, <4>1, StatsAreNoRequests DEF StatsEnd, Pending, TableOps
    <3>6. CASE Begin(c) \/ Invoke(c) \/ Forward(c) \/ End(c) \/ CountBegin(c)
      BY <2>1, <3>6 DEF Begin, Invoke, Forward, End, CountBegin, Pending
    <3>7. CASE CountEnd(c)
      <4>1. req[c] \in TableOps /\ req[c] \in Requests /\ Pending(c, req[c])
        BY <3>7 DEF CountEnd, TableOps, Pending
      <4>2. req[c] \notin counted /\ req[c].nth <= nth
        BY <4>1 DEF Ledger, Fresh
      <4>3. counted' = counted \cup {req[c]} /\ n_ops' = n_ops + 1
        BY <3>7 DEF CountEnd, Measured, Exclusive
      <4>4. IsFiniteSet(counted') /\ n_ops' = Cardinality(counted')
        BY <4>2, <4>3, FS_AddElement DEF Ledger
      <4>5. \A d \in Conns, r \in Requests : Pending(d, r)' => d # c /\ Pending(d, r)
        BY <3>7 DEF CountEnd, Pending
      <4>6. Fresh'
        BY <3>7, <4>1, <4>2, <4>3, <4>5 DEF Ledger, Fresh, CountEnd
      <4>7. QED
        BY <3>7, <4>3, <4>4, <4>6 DEF Ledger, CountEnd
    <3>8. CASE Reply(c)
      <4>1. Fresh'
        BY <3>8 DEF Reply, Ledger, Fresh, Pending
      <4>2. QED
        BY <3>8, <4>1 DEF Reply, Ledger
    <3>9. CASE ReplyToNobody(c)
      BY <2>1, <3>9 DEF ReplyToNobody, Pending
    <3>10. QED
      BY <2>5, <3>1, <3>2, <3>3, <3>4, <3>5, <3>6, <3>7, <3>8, <3>9 DEF Handler
  <2>6. CASE UNCHANGED vars
    BY <2>1, <2>6 DEF Pending
  <2>7. QED
    BY <2>2, <2>3, <2>4, <2>5, <2>6 DEF Next, Client
<1>3. QED
  BY <1>1, <1>2, TypesAlways, MeasuredAlways, SocketsAlways, CensusAlways, PTL DEF Spec

\* For any number of clients that come, ask and go, client_handler's threads lose
\* none of the counts that they share.
THEOREM CountsExactAlways == Spec => []CountsExact
<1>1. Types /\ Measured /\ Census /\ Ledger => CountsExact
  <2> SUFFICES ASSUME Types, Measured, Census, Ledger PROVE CountsExact
    OBVIOUS
  <2>1. ASSUME mutex = None PROVE Served = Inside
    BY <2>1, ConnectionsAssumption DEF Measured, Exclusive, Critical, Served, Inside
  <2>2. QED
    BY <2>1 DEF CountsExact, Census, Ledger
<1>2. QED
  BY <1>1, TypesAlways, MeasuredAlways, CensusAlways, LedgerAlways, PTL

-----------------------------------------------------------------------------
(* STATS *)

\* The answer a of a STATS that client c is sent.
Good(c, a) == base[c] <= a.ops /\ a \in moments[c]

Moments ==
  /\ moments \in [Conns -> SUBSET StatsAnswers]
  /\ base \in [Conns -> Nat]
  /\ \A c \in Conns : base[c] <= n_ops
  /\ \A c \in Conns : Asks(c) /\ Steady => Content \in moments[c]
  /\ \A c \in Conns : pc[c] = "reply" /\ req[c] \in StatsAnswers => Good(c, req[c])
  /\ \A c \in Conns : ans[c] \in StatsAnswers => Good(c, ans[c])

LEMMA ContentType ==
  /\ Measured /\ Census => Content \in StatsAnswers
  /\ Measured' /\ Census' => Content' \in StatsAnswers
<1>1. Cardinality(Served) \in Nat /\ Cardinality(Served') \in Nat
  BY ServedFinite, FS_CardinalityType
<1>2. QED
  BY <1>1 DEF Content, StatsAnswers, Measured, Timed, Census

LEMMA MomentsAlways == Spec => []Moments
<1>1. Init => Moments
  BY NoneAssumption DEF Init, Moments, Messages, Asks
<1>2. Types /\ Measured /\ Sockets /\ Census /\ Measured' /\ Census' /\ Ledger /\ Moments
      /\ [Next]_vars => Moments'
  <2> SUFFICES ASSUME Types, Measured, Sockets, Census, Measured', Census', Ledger, Moments,
                      [Next]_vars
               PROVE Moments'
    OBVIOUS
  <2> n_ops \in Nat /\ Content \in StatsAnswers /\ Content' \in StatsAnswers
    BY ContentType DEF Measured, Timed
  <2> USE NoneAssumption DEF Types, Sockets, vars, stats, link, sockets, past, local, Goto,
                             Serving, Working, Messages
  <2>1. ASSUME UNCHANGED <<moments, base, ans, stats>>,
               \A d \in Conns : pc'[d] = "counting" <=> pc[d] = "counting",
               \A d \in Conns : Asks(d)' => Asks(d),
               \A d \in Conns : pc'[d] = "reply" /\ req'[d] \in StatsAnswers =>
                 pc[d] = "reply" /\ req'[d] = req[d]
        PROVE Moments'
    <3>1. Content' = Content /\ (Steady' => Steady)
      BY <2>1 DEF Content, Steady
    <3>2. QED
      BY <2>1, <3>1 DEF Moments, Good
  <2>2. CASE SucessorDies
    BY <2>1, <2>2 DEF SucessorDies, Asks
  <2>3. ASSUME NEW c \in Conns, Send(c) PROVE Moments'
    <3>1. Cardinality(answered) \in Nat /\ Cardinality(answered) <= n_ops
      BY FS_Subset, FS_CardinalityType DEF Ledger
    <3>2. PICK op \in Kinds :
            /\ inbox' = [inbox EXCEPT ![c] = [nth |-> nth + 1, op |-> op]]
            /\ moments' = [moments EXCEPT ![c] = IF op = "stats" /\ Steady THEN {Content} ELSE {}]
      BY <2>3 DEF Send
    <3>3. UNCHANGED <<stats, pc, req, ans>> /\ Content' = Content /\ Steady' = Steady
      BY <2>3 DEF Send, Content, Steady
    <3>4. base' = [base EXCEPT ![c] = Cardinality(answered)] /\ req[c] = None /\ ans[c] = None
      BY <2>3 DEF Send, Quiet
    <3>5. pc[c] \notin Serving
      BY <3>4
    <3>6. moments' \in [Conns -> SUBSET StatsAnswers]
      BY <3>2 DEF Moments
    <3>7. ASSUME NEW d \in Conns, Asks(d)', Steady' PROVE Content' \in moments'[d]
      <4>1. CASE d = c
        BY <3>2, <3>3, <3>5, <3>7, <4>1 DEF Asks, Moments
      <4>2. CASE d # c
        BY <3>2, <3>3, <3>7, <4>2 DEF Asks, Moments
      <4>3. QED
        BY <4>1, <4>2
    <3>8. base' \in [Conns -> Nat] /\ \A d \in Conns : base'[d] <= n_ops'
      BY <3>1, <3>3, <3>4 DEF Moments
    <3>9. \A d \in Conns : ans'[d] \in StatsAnswers => Good(d, ans[d])'
      BY <3>2, <3>3, <3>4 DEF Moments, Good
    <3>10. \A d \in Conns : pc'[d] = "reply" /\ req'[d] \in StatsAnswers => Good(d, req[d])'
      BY <3>2, <3>3, <3>4 DEF Moments, Good
    <3>11. QED
      BY <3>6, <3>7, <3>8, <3>9, <3>10 DEF Moments
  <2>4. ASSUME NEW c \in Conns, ReadAnswer(c) PROVE Moments'
    <3>1. UNCHANGED <<stats, pc, req, inbox>> /\ base' = [base EXCEPT ![c] = 0]
          /\ ans' = [ans EXCEPT ![c] = None] /\ moments' = [moments EXCEPT ![c] = {}]
      BY <2>4 DEF ReadAnswer
    <3>2. ~Asks(c) /\ (pc[c] = "reply" => req[c] \notin StatsAnswers)
      BY <2>4 DEF ReadAnswer, Asks
    <3>3. Content' = Content /\ Steady' = Steady /\ \A d \in Conns : Asks(d)' = Asks(d)
      BY <3>1 DEF Content, Steady, Asks
    <3>4. QED
      BY <3>1, <3>2, <3>3 DEF Moments, Good
  <2>5. ASSUME NEW c \in Conns, Leave(c) \/ Accept(c) \/ Refuse(c) PROVE Moments'
    BY <2>1, <2>5 DEF Leave, Accept, Refuse, Asks
  <2>6. ASSUME NEW c \in Conns, Handler(c) PROVE Moments'
    <3>1. CASE Enter(c) \/ Exit(c)
      BY <2>1, <3>1 DEF Enter, Exit, ReadClients, Asks
    <3>2. CASE Entered(c) \/ Left(c) \/ CountEnd(c)
      <4>1. UNCHANGED <<base, ans, req, inbox>> /\ Remember
        BY <3>2 DEF Entered, Left, WriteClients, CountEnd
      <4>2. \A d \in Conns : d # c => pc'[d] = pc[d]
        BY <3>2 DEF Entered, Left, WriteClients, CountEnd
      <4>3. pc'[c] \notin {"stats", "copying"} /\ (pc'[c] = "reply" => req[c] \notin StatsAnswers)
        BY <3>2, StatsAreNoRequests DEF Entered, Left, WriteClients, CountEnd
      <4>4. n_ops <= n_ops' /\ n_ops' \in Nat
        BY <3>2 DEF Entered, Left, WriteClients, CountEnd, Measured, Exclusive, Timed
      <4>5. \A d \in Conns : Asks(d)' => Asks(d)
        BY <4>1, <4>2, <4>3 DEF Asks
      <4>6. \A d \in Conns : moments'[d] = moments[d] \cup (IF Asks(d) THEN {Content'} ELSE {})
        BY <4>1 DEF Remember
      <4>7. moments' \in [Conns -> SUBSET StatsAnswers]
        BY <4>1 DEF Remember, Moments
      <4>8. \A d \in Conns : Asks(d)' /\ Steady' => Content' \in moments'[d]
        BY <4>5, <4>6
      <4>9. \A d \in Conns : base'[d] <= n_ops'
        BY <4>1, <4>4 DEF Moments
      <4>10. \A d \in Conns : ans'[d] \in StatsAnswers => Good(d, ans[d])'
        BY <4>1, <4>6 DEF Moments, Good
      <4>11. \A d \in Conns : pc'[d] = "reply" /\ req'[d] \in StatsAnswers => Good(d, req[d])'
        BY <4>1, <4>2, <4>3, <4>6 DEF Moments, Good
      <4>12. QED
        BY <4>1, <4>7, <4>8, <4>9, <4>10, <4>11 DEF Moments
    <3>3. CASE Receive(c)
      BY <2>1, <3>3 DEF Receive, Asks
    <3>4. CASE ReceiveEnd(c) \/ ReceiveReset(c)
      BY <2>1, <3>4 DEF ReceiveEnd, ReceiveReset, NoRequest, Asks
    <3>5. CASE StatsBegin(c)
      BY <2>1, <3>5 DEF StatsBegin, Asks
    <3>6. CASE StatsEnd(c)
      <4>1. Steady /\ Asks(c) /\ reg[c] = n_ops
        BY <3>6 DEF StatsEnd, Unlock, Measured, Exclusive, Critical, Steady, Asks
      <4>2. req' = [req EXCEPT ![c] = Content]
        BY <3>6, <4>1 DEF StatsEnd, Content
      <4>3. UNCHANGED <<moments, base, ans, stats, inbox>> /\ pc' = [pc EXCEPT ![c] = "reply"]
            /\ pc[c] = "copying"
        BY <3>6 DEF StatsEnd
      <4>4. Content' = Content /\ (Steady' => Steady) /\ \A d \in Conns : Asks(d)' => Asks(d)
        BY <4>3 DEF Content, Steady, Asks
      <4>5. base[c] <= Content.ops /\ Content \in moments[c]
        BY <4>1 DEF Moments, Content
      <4>6. \A d \in Conns : pc'[d] = "reply" /\ req'[d] \in StatsAnswers => Good(d, req[d])'
        BY <4>2, <4>3, <4>5 DEF Moments, Good
      <4>7. QED
        BY <4>3, <4>4, <4>6 DEF Moments, Good
    <3>7. CASE Begin(c) \/ Invoke(c) \/ Forward(c) \/ End(c)
      BY <2>1, <3>7 DEF Begin, Invoke, Forward, End, Asks
    <3>8. CASE CountBegin(c)
      <4>1. UNCHANGED <<moments, base, ans, req, inbox, n_ops>> /\ ~Steady'
        BY <3>8 DEF CountBegin, Steady
      <4>2. \A d \in Conns : pc'[d] = "reply" => pc[d] = "reply"
        BY <3>8 DEF CountBegin
      <4>3. QED
        BY <4>1, <4>2 DEF Moments, Good
    <3>9. CASE Reply(c)
      <4>1. UNCHANGED <<moments, base, stats, inbox>> /\ pc' = [pc EXCEPT ![c] = "recv"]
            /\ pc[c] = "reply"
        BY <3>9 DEF Reply
      <4>2. ans' = [ans EXCEPT ![c] = req[c]] /\ req' = [req EXCEPT ![c] = None]
        BY <3>9 DEF Reply
      <4>3. Content' = Content /\ (Steady' => Steady) /\ \A d \in Conns : Asks(d)' => Asks(d)
        BY <4>1 DEF Content, Steady, Asks
      <4>4. \A d \in Conns : ans'[d] \in StatsAnswers => Good(d, ans[d])'
        BY <4>1, <4>2 DEF Moments, Good
      <4>5. QED
        BY <4>1, <4>2, <4>3, <4>4 DEF Moments, Good
    <3>10. CASE ReplyToNobody(c)
      BY <2>1, <3>10 DEF ReplyToNobody, Asks
    <3>11. QED
      BY <2>6, <3>1, <3>2, <3>3, <3>4, <3>5, <3>6, <3>7, <3>8, <3>9, <3>10 DEF Handler
  <2>7. CASE UNCHANGED vars
    BY <2>1, <2>7 DEF Asks
  <2>8. QED
    BY <2>2, <2>3, <2>4, <2>5, <2>6, <2>7 DEF Next, Client
<1>3. QED
  BY <1>1, <1>2, TypesAlways, MeasuredAlways, SocketsAlways, CensusAlways, LedgerAlways,
     PTL DEF Spec

\* Whatever the other threads count meanwhile, the three numbers that a STATS
\* answers were in struct statistics_t together at a moment after the request.
THEOREM StatsExactAlways == Spec => []StatsExact
<1>1. Moments => StatsExact
  BY DEF Moments, StatsExact, Good
<1>2. QED
  BY <1>1, MomentsAlways, PTL

\* Every variable keeps its type: no counter of stats.c becomes negative.
THEOREM TypeCorrect == Spec => []TypeOK
<1>1. Types /\ Measured /\ Sockets /\ Census /\ Ledger /\ Moments => TypeOK
  <2> SUFFICES ASSUME Types, Measured, Sockets, Census, Ledger, Moments PROVE TypeOK
    OBVIOUS
  <2>1. n_clients \in Nat
    BY ServedFinite, FS_CardinalityType DEF Census
  <2>2. reg \in [Conns -> Nat]
    BY <2>1 DEF Measured, Exclusive, Timed, Critical
  <2>3. counted \subseteq TableOps /\ answered \subseteq TableOps
    BY DEF Ledger, Fresh
  <2>4. QED
    BY <2>1, <2>2, <2>3 DEF TypeOK, Types, Measured, Timed, Sockets, Moments
<1>2. QED
  BY <1>1, TypesAlways, MeasuredAlways, SocketsAlways, CensusAlways, LedgerAlways,
     MomentsAlways, PTL
=============================================================================
