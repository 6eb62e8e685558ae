---------------------------- MODULE ChainProofs ----------------------------
(***************************************************************************)
(* Proofs about Chain for every number of clients, keys, values, servers   *)
(* and updates.                                                            *)
(***************************************************************************)
EXTENDS Chain, SequenceTheorems, WellFoundedInduction, TLAPS

Idle == {"recv", "gone", "crashed"}
Forwarding == {"wsize", "wbody", "rsize", "rbody", "spin"}

\* What ties a thread to its request, its socket and its client.
Bound ==
  /\ \A t \in Threads : pc[t] \notin Idle => req[t] \in Updates
  /\ \A t \in Threads : pc[t] \in Forwarding => Home(t) \in Links
  /\ \A c \in Writers : pc[c] # "recv" =>
       pc[c] \notin {"gone", "crashed"} /\ cmd[c] = req[c] /\ ans[c] = None
  /\ \A c \in Clients : ans[c] # None => cmd[c] \in Updates \cup Gets

TInv == TypeOK /\ Bound

-----------------------------------------------------------------------------
(* The shape of commands and threads *)

LEMMA UpdateShape ==
  ASSUME NEW u \in Updates
  PROVE  /\ u.by \in Writers /\ u.nth \in 1..MaxUpdates
         /\ u.op \in {"put", "del"}
         /\ u.key \in Keys /\ u.val \in Values \cup {Absent}
  BY DEF Updates

LEMMA GetShape ==
  ASSUME NEW m \in Gets
  PROVE  m.op = "get" /\ m.key \in Keys
  BY DEF Gets

LEMMA ItemShape ==
  ASSUME NEW u \in Updates
  PROVE  /\ Size(u) \in Items /\ Size(u).msg = u /\ Size(u).part = "size"
         /\ Body(u) \in Items /\ Body(u).msg = u /\ Body(u).part = "body"
         /\ Frame(u) \in Seq(Items)
  BY DEF Size, Body, Items, Frame

\* The message of a queued item, wherever it stands in the queue.
LEMMA QueuedShape ==
  ASSUME NEW q \in Seq(Items), NEW i \in 1..Len(q)
  PROVE  q[i].msg \in Updates
<1>1. q[i] \in Items
  OBVIOUS
<1>2. QED
  BY <1>1 DEF Items

LEMMA HomeType ==
  ASSUME NEW t \in Threads
  PROVE  /\ Home(t) \in Servers
         /\ t \in Writers => Home(t) = 1
         /\ t \in Followers => Home(t) = t /\ t - 1 \in Links /\ t - 1 \in Servers
                               /\ t \notin Writers
  BY ChainAssumption DEF Home, Threads, Followers, Servers, Links

-----------------------------------------------------------------------------
(* Every state is well typed *)

LEMMA TypeInit == Init => TInv
<1> SUFFICES ASSUME Init PROVE TInv
  OBVIOUS
<1> USE ChainAssumption
<1>1. TypeOK
  BY DEF Init, TypeOK, PCs
<1>2. Bound
  BY DEF Init, Bound, Idle, Forwarding, Threads, Clients
<1>3. QED
  BY <1>1, <1>2 DEF TInv

\* The steps of a client.
LEMMA TypeClient ==
  ASSUME TInv, NEW c \in Clients, Client(c) \/ ServeGet(c)
  PROVE  TInv'
<1> USE DEF TInv
<1>1. CASE SendUpdate(c)
  <2>1. PICK u \in Updates : /\ u.by = c /\ u.nth = issued[c] + 1
                             /\ cmd' = [cmd EXCEPT ![c] = u]
    BY <1>1 DEF SendUpdate
  <2>2. TypeOK'
    BY <1>1, <2>1, UpdateShape, ChainAssumption DEF SendUpdate, TypeOK, linkVars
  <2>3. Bound'
    <3>1. pc[c] = "recv"
      BY <1>1, NoneAssumption DEF SendUpdate, Bound, Idle, Threads
    <3>2. QED
      BY <1>1, <2>1, <3>1 DEF SendUpdate, Bound, TypeOK, linkVars
  <2>4. QED
    BY <2>2, <2>3
<1>2. CASE SendGet(c)
  <2>1. PICK m \in Gets : cmd' = [cmd EXCEPT ![c] = m]
    BY <1>2 DEF SendGet
  <2>2. TypeOK'
    BY <1>2, <2>1 DEF SendGet, TypeOK, linkVars
  <2>3. Bound'
    <3>1. c \in Writers => pc[c] = "recv"
      BY <1>2, NoneAssumption DEF SendGet, Bound, Idle, Threads
    <3>2. QED
      BY <1>2, <2>1, <3>1 DEF SendGet, Bound, TypeOK, linkVars
  <2>4. QED
    BY <2>2, <2>3
<1>3. CASE ReadAnswer(c)
  <2>1. cmd[c] \in Updates \cup Gets
    BY <1>3 DEF ReadAnswer, Bound
  <2>2. acked' \subseteq Updates
    BY <1>3, <2>1, GetShape DEF ReadAnswer, TypeOK
  <2>3. TypeOK'
    BY <1>3, <2>2 DEF ReadAnswer, TypeOK, linkVars
  <2>4. Bound'
    BY <1>3 DEF ReadAnswer, Bound, TypeOK, linkVars
  <2>5. QED
    BY <2>3, <2>4
<1>4. CASE ServeGet(c)
  <2>1. cmd[c] \in Gets
    BY <1>4, UpdateShape DEF ServeGet, TypeOK
  <2>2. table[N][cmd[c].key] \in Values \cup {Absent}
    BY <2>1, GetShape, ChainAssumption DEF TypeOK, Servers
  <2>3. TypeOK'
    BY <1>4, <2>2 DEF ServeGet, TypeOK, linkVars
  <2>4. Bound'
    <3>1. cmd[c] \notin Updates
      BY <2>1, UpdateShape, GetShape
    <3>2. c \in Writers => pc[c] = "recv"
      BY <3>1 DEF Bound, Idle, Threads
    <3>3. QED
      BY <1>4, <2>1, <3>2 DEF ServeGet, Bound, TypeOK, linkVars
  <2>5. QED
    BY <2>3, <2>4
<1>5. QED
  BY <1>1, <1>2, <1>3, <1>4 DEF Client

\* A thread that serves a request moves on within it.
LEMMA BoundKept ==
  ASSUME TInv, NEW t \in Threads, pc[t] \notin Idle,
         NEW p \in PCs \ {"recv", "gone", "crashed"}, pc' = [pc EXCEPT ![t] = p],
         p \in Forwarding => Home(t) \in Links,
         UNCHANGED <<req, cmd, ans>>
  PROVE  Bound' /\ pc' \in [Threads -> PCs]
  BY DEF TInv, TypeOK, Bound, Idle, Forwarding

LEMMA AfterSuccessType ==
  ASSUME NEW t \in Threads
  PROVE  /\ AfterSuccess(t) \in {"wsize", "reply"}
         /\ AfterSuccess(t) = "wsize" => Home(t) \in Links
  BY HomeType, ChainAssumption DEF AfterSuccess, Servers, Links

LEMMA ExecuteType ==
  ASSUME TInv, NEW t \in Threads, pc[t] \notin Idle,
         NEW v \in Values \cup {Absent}, Execute(t, v)
  PROVE  /\ table' \in [Servers -> [Keys -> Values \cup {Absent}]]
         /\ applied' \in [Servers -> Seq(Updates)]
         /\ res' \in [Threads -> {"ok", "error"}]
<1>1. req[t] \in Updates
  BY DEF TInv, Bound
<1>2. Home(t) \in Servers
  BY HomeType
<1>3. Append(applied[Home(t)], req[t]) \in Seq(Updates)
  BY <1>1, <1>2 DEF TInv, TypeOK
<1>4. [table[Home(t)] EXCEPT ![req[t].key] = v] \in [Keys -> Values \cup {Absent}]
  BY <1>2 DEF TInv, TypeOK
<1>5. QED
  BY <1>2, <1>3, <1>4 DEF Execute, TInv, TypeOK

\* Server s takes body i out of its socket, with everything before item m.
TakesAt(s, i, m) == LET q == down[s-1] IN
  /\ i < m /\ q[i].part = "body" /\ pc[s] = "recv"
  /\ \E p \in {q[i].msg.op, "reply"} : pc' = [pc EXCEPT ![s] = p]
  /\ req' = [req EXCEPT ![s] = q[i].msg]
  /\ down' = [down EXCEPT ![s-1] = SubSeq(q, m, Len(q))]
  /\ UNCHANGED <<cmd, ans, issued, acked, table, applied, up, mixed>>

Takes(s) == \E i \in 1..Len(down[s-1]), m \in 2..Len(down[s-1]) + 1 : TakesAt(s, i, m)

\* In step it is the second item, which the first one announces.
LEMMA TakesShape ==
  ASSUME TInv, NEW s \in Followers, ReceiveForwarded(s) \/ ReceiveMixture(s)
  PROVE  Takes(s)
<1> DEFINE q == down[s-1]
<1>1. s - 1 \in Links /\ q \in Seq(Items) /\ Len(q) \in Nat
  <2>1. s - 1 \in Links
    BY HomeType DEF Threads
  <2>2. QED
    BY <2>1 DEF TInv, TypeOK
<1>2. CASE ReceiveForwarded(s)
  <2>1. /\ Len(q) >= 2 /\ q[2] = Body(q[1].msg) /\ pc[s] = "recv"
        /\ pc' = [pc EXCEPT ![s] = q[1].msg.op] /\ req' = [req EXCEPT ![s] = q[1].msg]
        /\ down' = [down EXCEPT ![s-1] = SubSeq(q, 3, Len(q))]
        /\ UNCHANGED <<cmd, ans, issued, acked, table, applied, up, mixed>>
    BY <1>2 DEF ReceiveForwarded, InStep, Accept, Goto, clientVars
  <2>2. q[2].part = "body" /\ q[2].msg = q[1].msg
    BY <2>1 DEF Body
  <2>3. 2 \in 1..Len(q) /\ 3 \in 2..Len(q) + 1
    <3> HIDE DEF q
    <3>1. QED
      BY <1>1, <2>1
  <2>4. TakesAt(s, 2, 3)
    BY <2>1, <2>2 DEF TakesAt
  <2>5. QED
    BY <2>3, <2>4 DEF Takes
<1>3. CASE ReceiveMixture(s)
  <2>1. PICK i \in 1..Len(q), m \in 1..Len(q) + 1 :
          /\ i < m /\ q[i].part = "body"
          /\ \/ Accept(s, q[i].msg)
             \/ Goto(s, "recv", "reply") /\ req' = [req EXCEPT ![s] = q[i].msg]
          /\ down' = [down EXCEPT ![s-1] = SubSeq(q, m, Len(q))]
    BY <1>3 DEF ReceiveMixture
  <2>2. m \in 2..Len(q) + 1
    <3> HIDE DEF q
    <3>1. QED
      BY <1>1, <2>1
  <2>3. UNCHANGED <<cmd, ans, issued, acked, table, applied, up, mixed>>
    BY <1>3 DEF ReceiveMixture, clientVars
  <2>4. TakesAt(s, i, m)
    BY <2>1, <2>3 DEF TakesAt, Accept, Goto
  <2>5. QED
    BY <2>2, <2>4 DEF Takes
<1>4. QED
  BY <1>2, <1>3

\* The steps of a thread.
LEMMA TypeThread ==
  ASSUME TInv, NEW t \in Threads, Handler(t)
  PROVE  TInv'
<1> USE DEF TInv, TypeOK
<1> DEFINE l == Home(t)
<1>h. l \in Servers
  BY HomeType
<1>1. CASE ReceiveFromClient(t)
  <2>1. cmd[t].op \in {"put", "del"}
    BY <1>1, UpdateShape DEF ReceiveFromClient
  <2>2. TypeOK'
    BY <1>1, <2>1 DEF ReceiveFromClient, Accept, Goto, TypeOK, PCs, clientVars, linkVars
  <2>3. Bound'
    BY <1>1, <2>1 DEF ReceiveFromClient, Accept, Goto, TypeOK, Bound, Forwarding,
                      clientVars, linkVars, Threads
  <2>4. QED
    BY <2>2, <2>3
<1>2. CASE ReceiveForwarded(t) \/ ReceiveMixture(t)
  <2>1. t \in Followers /\ t - 1 \in Links /\ t \notin Writers
    BY <1>2, HomeType DEF ReceiveForwarded, ReceiveMixture, Misframed
  <2>2. PICK i \in 1..Len(down[t-1]), m \in 2..Len(down[t-1]) + 1 : TakesAt(t, i, m)
    BY <1>2, <2>1, TakesShape DEF Takes
  <2>3. down[t-1][i].msg \in Updates
    BY <2>1, QueuedShape
  <2>4. PICK u \in Updates, p \in {"put", "del", "reply"} :
          /\ pc[t] = "recv" /\ pc' = [pc EXCEPT ![t] = p] /\ req' = [req EXCEPT ![t] = u]
          /\ UNCHANGED <<cmd, ans, issued, acked, table, applied, up, mixed>>
    BY <2>2, <2>3, UpdateShape DEF TakesAt
  <2>5. down' \in [Links -> Seq(Items)]
    <3>1. PICK q : q = down[t-1]
      OBVIOUS
    <3>2. q \in Seq(Items) /\ SubSeq(q, m, Len(q)) \in Seq(Items)
      BY <2>1, <3>1
    <3>3. QED
      BY <2>1, <2>2, <3>1, <3>2 DEF TakesAt
  <2>6. res' \in [Threads -> {"ok", "error"}] /\ conn' \in [Links -> {"open", "closed", "lost"}]
    BY <1>2 DEF ReceiveForwarded, ReceiveMixture
  <2>7. TypeOK'
    BY <2>4, <2>5, <2>6 DEF PCs
  <2>8. Bound'
    BY <2>1, <2>4 DEF Bound, Forwarding
  <2>9. QED
    BY <2>7, <2>8
<1>3. CASE ReceiveScrambled(t) \/ ReceiveCrash(t) \/ ReceiveEnd(t)
  <2>1. t \notin Writers
    BY <1>3, HomeType DEF ReceiveScrambled, ReceiveCrash, ReceiveEnd, Misframed
  <2>2. /\ pc' = [pc EXCEPT ![t] = "gone"] \/ pc' = [pc EXCEPT ![t] = "crashed"]
        /\ conn' = [conn EXCEPT ![t-1] = "closed"]
        /\ down' = [down EXCEPT ![t-1] = <<>>] \/ down' = down
        /\ UNCHANGED <<cmd, ans, issued, acked, table, applied, req, res, up, mixed>>
    BY <1>3 DEF ReceiveScrambled, ReceiveCrash, ReceiveEnd, Goto, clientVars
  <2>3. TypeOK'
    <3>1. <<>> \in Seq(Items)
      OBVIOUS
    <3>2. QED
      BY <2>2, <3>1 DEF PCs
  <2>4. Bound'
    <3>1. PICK p \in {"gone", "crashed"} : pc' = [pc EXCEPT ![t] = p]
      BY <2>2
    <3>2. UNCHANGED <<cmd, ans, req>>
      BY <2>2
    <3>3. QED
      BY <2>1, <3>1, <3>2 DEF Bound, Idle, Forwarding
  <2>5. QED
    BY <2>3, <2>4
<1>4. CASE InvokePut(t)
  <2>1. pc[t] \notin Idle /\ pc' = [pc EXCEPT ![t] = AfterSuccess(t)]
    BY <1>4 DEF InvokePut, Goto, Idle
  <2>2. req[t].val \in Values \cup {Absent}
    BY <2>1, UpdateShape DEF Bound
  <2>3. UNCHANGED <<cmd, ans, issued, acked, req, linkVars>> /\ Execute(t, req[t].val)
    BY <1>4 DEF InvokePut, clientVars
  <2>4. Bound' /\ pc' \in [Threads -> PCs]
    BY <2>1, <2>3, BoundKept, AfterSuccessType DEF PCs, Forwarding
  <2>5. QED
    BY <2>1, <2>2, <2>3, <2>4, ExecuteType DEF TypeOK, linkVars
<1>5. CASE InvokeDelCheck(t)
  <2>1. pc[t] \notin Idle
    BY <1>5 DEF InvokeDelCheck, Idle
  <2>2. PICK p \in {"reply", "rm"} : pc' = [pc EXCEPT ![t] = p]
    BY <1>5 DEF InvokeDelCheck, Goto
  <2>3. UNCHANGED <<cmd, ans, issued, acked, req, table, applied, linkVars>>
    BY <1>5 DEF InvokeDelCheck, Refuse, clientVars
  <2>4. Bound' /\ pc' \in [Threads -> PCs]
    BY <2>1, <2>2, <2>3, BoundKept DEF PCs, Forwarding
  <2>5. res' \in [Threads -> {"ok", "error"}]
    BY <1>5 DEF InvokeDelCheck, Refuse, TypeOK
  <2>6. QED
    BY <2>3, <2>4, <2>5 DEF TypeOK, linkVars
<1>6. CASE InvokeDelRemove(t)
  <2>1. pc[t] \notin Idle
    BY <1>6 DEF InvokeDelRemove, Idle
  <2>2. UNCHANGED <<cmd, ans, issued, acked, req, linkVars>>
    BY <1>6 DEF InvokeDelRemove, clientVars
  <2>3. CASE Goto(t, "rm", "reply") /\ Refuse(t)
    <3>1. Bound' /\ pc' \in [Threads -> PCs]
      BY <2>1, <2>2, <2>3, BoundKept DEF Goto, PCs, Forwarding
    <3>2. QED
      BY <2>2, <2>3, <3>1 DEF Refuse, TypeOK, linkVars
  <2>4. CASE Goto(t, "rm", AfterSuccess(t)) /\ Execute(t, Absent)
    <3>1. Bound' /\ pc' \in [Threads -> PCs]
      BY <2>1, <2>2, <2>4, BoundKept, AfterSuccessType DEF Goto, PCs, Forwarding
    <3>2. QED
      BY <2>1, <2>2, <2>4, <3>1, ExecuteType DEF TypeOK, linkVars
  <2>5. QED
    BY <1>6, <2>3, <2>4 DEF InvokeDelRemove
<1>7. CASE WriteSize(t) \/ WriteBody(t)
  <2>1. pc[t] \notin Idle /\ l \in Links /\ req[t] \in Updates
    BY <1>7 DEF WriteSize, WriteBody, Write, Bound, Idle, Forwarding
  <2>2. PICK p \in {"wbody", "rsize", "spin"} : pc' = [pc EXCEPT ![t] = p]
    BY <1>7 DEF WriteSize, WriteBody, Write
  <2>3. UNCHANGED <<cmd, ans, issued, acked, table, applied, req, res, up, conn, mixed>>
    BY <1>7 DEF WriteSize, WriteBody, clientVars
  <2>4. PICK i \in Items : down' = [down EXCEPT ![l] = Append(down[l], i)] \/ down' = down
    BY <1>7, <2>1, ItemShape DEF WriteSize, WriteBody, Write
  <2>5. Bound' /\ pc' \in [Threads -> PCs]
    BY <2>1, <2>2, <2>3, BoundKept DEF PCs
  <2>6. down' \in [Links -> Seq(Items)]
    <3>1. Append(down[l], i) \in Seq(Items)
      BY <2>1 DEF TypeOK
    <3>2. QED
      BY <2>4, <3>1 DEF TypeOK
  <2>7. QED
    BY <2>3, <2>5, <2>6 DEF TypeOK
<1>8. CASE ReadSize(t) \/ ReadBody(t) \/ ReadBodyAsSize(t) \/ ReadEnd(t) \/ ReadOutOfStep(t)
  <2>1. pc[t] \in {"rsize", "rbody"}
    BY <1>8 DEF ReadSize, ReadBody, ReadBodyAsSize, ReadEnd, ReadOutOfStep, Goto
  <2>2. l \in Links
    BY <2>1 DEF Bound, Forwarding
  <2>3. PICK p \in {"rbody", "reply"} : pc' = [pc EXCEPT ![t] = p]
    BY <1>8 DEF ReadSize, ReadBody, ReadBodyAsSize, ReadEnd, ReadOutOfStep, Goto
  <2>4. UNCHANGED <<cmd, ans, issued, acked, table, applied, req, res, down, conn>>
    BY <1>8 DEF ReadSize, ReadBody, ReadBodyAsSize, ReadEnd, ReadOutOfStep,
                clientVars, linkVars
  <2>5. Bound' /\ pc' \in [Threads -> PCs]
    BY <2>1, <2>2, <2>3, <2>4, BoundKept DEF PCs, Idle
  <2>6. \/ up' = up
        \/ up[l] # <<>> /\ up' = [up EXCEPT ![l] = Tail(up[l])]
        \/ up' = [up EXCEPT ![l] = <<>>]
    BY <1>8 DEF ReadSize, ReadBody, ReadBodyAsSize, ReadEnd, ReadOutOfStep, linkVars
  <2>7. up' \in [Links -> Seq(Items)]
    <3>1. up[l] \in Seq(Items)
      BY <2>2 DEF TypeOK
    <3>2. PICK q \in Seq(Items) : up' = [up EXCEPT ![l] = q] \/ up' = up
      <4>1. up[l] # <<>> => Tail(up[l]) \in Seq(Items)
        BY <3>1
      <4>2. <<>> \in Seq(Items)
        OBVIOUS
      <4>3. QED
        BY <2>6, <4>1, <4>2
    <3>3. QED
      BY <3>2 DEF TypeOK
  <2>8. mixed' \in [Links -> BOOLEAN]
    BY <1>8 DEF ReadSize, ReadBody, ReadBodyAsSize, ReadEnd, ReadOutOfStep, linkVars, TypeOK
  <2>9. QED
    BY <2>4, <2>5, <2>7, <2>8 DEF TypeOK
<1>9. CASE ReplyToClient(t)
  <2>1. t \in Writers /\ pc[t] = "reply" /\ t \in Clients
    BY <1>9 DEF ReplyToClient, Goto, Clients
  <2>2. cmd[t] \in Updates
    BY <2>1 DEF Bound, Idle
  <2>3. TypeOK'
    BY <1>9, <2>1 DEF ReplyToClient, Goto, TypeOK, PCs, linkVars
  <2>4. Bound'
    BY <1>9, <2>1, <2>2 DEF ReplyToClient, Goto, TypeOK, Bound, Idle, Forwarding, linkVars
  <2>5. QED
    BY <2>3, <2>4
<1>10. CASE ReplyUpstream(t)
  <2>1. t - 1 \in Links /\ t \notin Writers /\ pc[t] = "reply"
    BY <1>10, HomeType DEF ReplyUpstream, Goto
  <2>2. Frame(req[t]) \in Seq(Items)
    BY <2>1, ItemShape DEF Bound, Idle
  <2>3. up' \in [Links -> Seq(Items)]
    BY <1>10, <2>1, <2>2 DEF ReplyUpstream, TypeOK
  <2>4. TypeOK'
    BY <1>10, <2>3 DEF ReplyUpstream, Goto, TypeOK, PCs, clientVars
  <2>5. Bound'
    BY <1>10, <2>1 DEF ReplyUpstream, Goto, TypeOK, Bound, Idle, Forwarding, clientVars
  <2>6. QED
    BY <2>4, <2>5
<1>11. QED
  BY <1>1, <1>2, <1>3, <1>4, <1>5, <1>6, <1>7, <1>8, <1>9, <1>10 DEF Handler, Progress, OutOfStep

LEMMA TypeStep == TInv /\ [Next]_vars => TInv'
<1> SUFFICES ASSUME TInv, [Next]_vars PROVE TInv'
  OBVIOUS
<1>1. CASE Next
  BY <1>1, TypeClient, TypeThread DEF Next
<1>2. CASE UNCHANGED vars
  BY <1>2 DEF vars, TInv, TypeOK, Bound
<1>3. QED
  BY <1>1, <1>2

LEMMA TInvAlways == Spec => []TInv
  BY TypeInit, TypeStep, PTL DEF Spec

\* Every variable keeps its type, whatever the threads of a server do to each
\* other.
THEOREM TypeCorrect == Spec => []TypeOK
<1>1. TInv => TypeOK
  BY DEF TInv
<1>2. QED
  BY <1>1, TInvAlways, PTL

-----------------------------------------------------------------------------
(* What a server has executed, its predecessor has *)

\* Everything on its way to server l+1, or being handled there, or about to be
\* sent there, has been executed by server l.
Upstream ==
  /\ UpstreamFirst
  /\ \A l \in Links : \A i \in 1..Len(down[l]) : down[l][i].msg \in Executed(l)
  /\ \A s \in Followers : pc[s] \notin Idle => req[s] \in Executed(s-1)
  /\ \A t \in Threads : pc[t] \in {"wsize", "wbody"} => req[t] \in Executed(Home(t))

LEMMA ExecutedSame ==
  ASSUME applied' = applied, NEW s
  PROVE  Executed(s)' = Executed(s)
  BY DEF Executed

LEMMA ExecutedGrows ==
  ASSUME TInv, NEW t \in Threads, pc[t] \notin Idle, NEW v, Execute(t, v), NEW s \in Servers
  PROVE  Executed(s)' = IF s = Home(t) THEN Executed(s) \cup {req[t]} ELSE Executed(s)
<1>1. req[t] \in Updates /\ applied[s] \in Seq(Updates)
  BY DEF TInv, TypeOK, Bound
<1>2. CASE s = Home(t)
  <2>1. applied'[s] = Append(applied[s], req[t])
    BY <1>2 DEF Execute, TInv, TypeOK
  <2>2. /\ Len(applied'[s]) = Len(applied[s]) + 1
        /\ \A i \in 1..Len(applied[s]) : applied'[s][i] = applied[s][i]
        /\ applied'[s][Len(applied[s]) + 1] = req[t]
    BY <1>1, <2>1
  <2>3. Len(applied[s]) \in Nat
    BY <1>1
  <2>4. DEFINE n == Len(applied[s])
  <2>5. n \in Nat /\ 1..(n + 1) = 1..n \cup {n + 1}
    BY <2>3
  <2>6. Executed(s)' = {applied'[s][i] : i \in 1..n} \cup {applied'[s][n + 1]}
    BY <2>2, <2>5 DEF Executed
  <2>7. {applied'[s][i] : i \in 1..n} = Executed(s)
    BY <2>2 DEF Executed
  <2>8. QED
    BY ONLY <1>2, <2>2, <2>6, <2>7
<1>3. CASE s # Home(t)
  BY <1>3 DEF Execute, Executed
<1>4. QED
  BY <1>2, <1>3

LEMMA UpstreamInit == Init => Upstream
<1> SUFFICES ASSUME Init PROVE Upstream
  OBVIOUS
<1>1. \A s \in Servers : Executed(s) = {}
  BY DEF Init, Executed
<1>2. UpstreamFirst
  BY <1>1, ChainAssumption DEF UpstreamFirst, Followers, Servers
<1>3. QED
  BY <1>2 DEF Init, Upstream, Threads, Idle

\* A step that executes nothing, sends nothing and receives nothing.
LEMMA UpstreamKept ==
  ASSUME TInv, Upstream, UNCHANGED <<applied, down>>,
         \A t \in Threads : (pc'[t] \notin Idle => pc[t] \notin Idle /\ req'[t] = req[t])
         /\ (pc'[t] \in {"wsize", "wbody"} => pc[t] \in {"wsize", "wbody"})
  PROVE  Upstream'
<1>1. \A s : Executed(s)' = Executed(s)
  BY ExecutedSame
<1>2. UpstreamFirst'
  BY <1>1 DEF Upstream, UpstreamFirst
<1>3. \A l \in Links : \A i \in 1..Len(down'[l]) : down'[l][i].msg \in Executed(l)'
  BY <1>1 DEF Upstream
<1>4. \A s \in Followers : pc'[s] \notin Idle => req'[s] \in Executed(s-1)'
  BY <1>1 DEF Upstream, Threads
<1>5. \A t \in Threads : pc'[t] \in {"wsize", "wbody"} => req'[t] \in Executed(Home(t))'
  BY <1>1 DEF Upstream, Idle
<1>6. QED
  BY <1>2, <1>3, <1>4, <1>5 DEF Upstream

\* A thread executes its request: it goes to the successor or to the answer.
LEMMA UpstreamExecute ==
  ASSUME TInv, Upstream, NEW t \in Threads, pc[t] \notin Idle, NEW v, Execute(t, v),
         pc' = [pc EXCEPT ![t] = AfterSuccess(t)], UNCHANGED <<req, down>>
  PROVE  Upstream'
<1>1. \A s \in Servers :
        Executed(s)' = IF s = Home(t) THEN Executed(s) \cup {req[t]} ELSE Executed(s)
  BY ExecutedGrows
<1>2. \A s \in Followers : s \in Servers /\ s - 1 \in Servers
  BY ChainAssumption DEF Followers, Servers
<1>3. UpstreamFirst'
  <2> SUFFICES ASSUME NEW s \in Followers PROVE Executed(s)' \subseteq Executed(s-1)'
    BY DEF UpstreamFirst
  <2>1. Executed(s) \subseteq Executed(s-1) /\ Executed(s-1) \subseteq Executed(s-1)'
    BY <1>1, <1>2 DEF Upstream, UpstreamFirst
  <2>2. CASE s = Home(t)
    <3>1. t = s
      BY <2>2, HomeType DEF Home, Threads, Followers
    <3>2. req[t] \in Executed(s-1)
      BY <3>1 DEF Upstream
    <3>3. QED
      BY <1>1, <1>2, <2>1, <2>2, <3>2
  <2>3. CASE s # Home(t)
    BY <1>1, <1>2, <2>1, <2>3
  <2>4. QED
    BY <2>2, <2>3
<1>4. \A l \in Links : \A i \in 1..Len(down'[l]) : down'[l][i].msg \in Executed(l)'
  BY <1>1, ChainAssumption DEF Upstream, Links, Servers
<1>5. \A s \in Followers : pc'[s] \notin Idle => req'[s] \in Executed(s-1)'
  BY <1>1, <1>2 DEF Upstream, Threads, TInv, TypeOK
<1>6. \A r \in Threads : pc'[r] \in {"wsize", "wbody"} => req'[r] \in Executed(Home(r))'
  BY <1>1, HomeType DEF Upstream, TInv, TypeOK
<1>7. QED
  BY <1>3, <1>4, <1>5, <1>6 DEF Upstream

\* What is left of a queue when everything before item m is taken.
LEMMA QueueTail ==
  ASSUME NEW q \in Seq(Items), NEW m \in 2..Len(q) + 1
  PROVE  LET r == SubSeq(q, m, Len(q)) IN
         /\ Len(r) = Len(q) + 1 - m
         /\ \A i \in 1..Len(r) : i + m - 1 \in 1..Len(q) /\ r[i] = q[i + m - 1]
<1> DEFINE r == SubSeq(q, m, Len(q))
<1>1. Len(q) \in Nat /\ m \in Nat /\ m >= 2 /\ m <= Len(q) + 1
  OBVIOUS
<1>2. Len(r) = Len(q) + 1 - m
  <2>1. m = Len(q) + 1 \/ m <= Len(q)
    <3>1. \A n, k \in Nat : k <= n + 1 => k = n + 1 \/ k <= n
      OBVIOUS
    <3>2. QED
      BY <1>1, <3>1, Zenon
  <2>2. CASE m = Len(q) + 1
    BY <1>1, <2>2, SubSeqEmpty
  <2>3. CASE m <= Len(q)
    BY <1>1, <2>3
  <2>4. QED
    BY <2>1, <2>2, <2>3, Zenon
<1>3. \A i \in 1..Len(r) : r[i] = q[i + m - 1]
  BY <1>1
<1>4. \A i \in 1..Len(r) : i + m - 1 \in 1..Len(q)
  <2> HIDE DEF r
  <2>1. QED
    BY <1>1, <1>2
<1>5. QED
  BY <1>2, <1>3, <1>4

LEMMA QueueAppend ==
  ASSUME NEW q \in Seq(Items), NEW e \in Items
  PROVE  LET r == Append(q, e) IN
         /\ Len(r) = Len(q) + 1 /\ r[Len(q) + 1] = e
         /\ \A i \in 1..Len(q) : r[i] = q[i]
  OBVIOUS

LEMMA UpstreamWrite ==
  ASSUME TInv, Upstream, NEW t \in Threads, WriteSize(t) \/ WriteBody(t)
  PROVE  Upstream'
<1> DEFINE l == Home(t)
<1>1. /\ pc[t] \in {"wsize", "wbody"} /\ l \in Links /\ req[t] \in Updates
      /\ req[t] \in Executed(l)
  BY DEF WriteSize, WriteBody, Write, TInv, Bound, Upstream, Idle, Forwarding
<1>2. UNCHANGED <<applied, req>>
  BY DEF WriteSize, WriteBody
<1>3. PICK p \in {"wbody", "rsize", "spin"} : pc' = [pc EXCEPT ![t] = p]
  BY DEF WriteSize, WriteBody, Write
<1>4. PICK e \in {Size(req[t]), Body(req[t])} :
        down' = [down EXCEPT ![l] = Append(down[l], e)] \/ down' = down
  BY DEF WriteSize, WriteBody, Write
<1>5. e \in Items /\ e.msg = req[t]
  BY <1>1, ItemShape DEF Size, Body
<1>6. \A s : Executed(s)' = Executed(s)
  BY <1>2, ExecutedSame
<1>7. UpstreamFirst'
  BY <1>6 DEF Upstream, UpstreamFirst
<1>8. \A k \in Links : \A i \in 1..Len(down'[k]) : down'[k][i].msg \in Executed(k)'
  <2> SUFFICES ASSUME NEW k \in Links, NEW i \in 1..Len(down'[k])
               PROVE  down'[k][i].msg \in Executed(k)
    BY <1>6
  <2>1. CASE k = l /\ down' # down
    <3>1. down[k] \in Seq(Items) /\ down'[k] = Append(down[k], e)
      BY <1>1, <1>4, <2>1 DEF TInv, TypeOK
    <3>2. CASE i = Len(down[k]) + 1
      BY <1>1, <1>5, <2>1, <3>1, <3>2, QueueAppend
    <3>3. CASE i # Len(down[k]) + 1
      <4>1. i \in 1..Len(down[k]) /\ down'[k][i] = down[k][i]
        BY <1>5, <3>1, <3>3, QueueAppend
      <4>2. QED
        BY <4>1 DEF Upstream
    <3>4. QED
      BY <3>2, <3>3
  <2>2. CASE ~(k = l /\ down' # down)
    <3>1. down'[k] = down[k]
      BY <1>4, <2>2 DEF TInv, TypeOK
    <3>2. QED
      BY <3>1 DEF Upstream
  <2>3. QED
    BY <2>1, <2>2
<1>9. \A s \in Followers : pc'[s] \notin Idle => req'[s] \in Executed(s-1)'
  BY <1>1, <1>2, <1>3, <1>6 DEF Upstream, Idle, Threads, TInv, TypeOK
<1>10. \A r \in Threads : pc'[r] \in {"wsize", "wbody"} => req'[r] \in Executed(Home(r))'
  BY <1>1, <1>2, <1>3, <1>6 DEF Upstream, TInv, TypeOK
<1>11. QED
  BY <1>7, <1>8, <1>9, <1>10 DEF Upstream

LEMMA UpstreamReceive ==
  ASSUME TInv, Upstream, NEW s \in Followers, Takes(s)
  PROVE  Upstream'
<1> DEFINE l == s - 1
<1>1. l \in Links /\ s \in Threads
  BY HomeType DEF Threads
<1>2. PICK q : q = down[l] /\ q \in Seq(Items)
  BY <1>1 DEF TInv, TypeOK
<1>3. PICK i \in 1..Len(q), m \in 2..Len(q) + 1 : TakesAt(s, i, m)
  BY <1>2 DEF Takes
<1>4. q[i].msg \in Executed(l) /\ q[i].msg.op \in {"put", "del"}
  BY <1>1, <1>2, QueuedShape, UpdateShape DEF Upstream
<1>5. PICK p \in {"put", "del", "reply"}, u \in Executed(l) :
        pc' = [pc EXCEPT ![s] = p] /\ req' = [req EXCEPT ![s] = u]
  <2>1. PICK p \in {q[i].msg.op, "reply"} : pc' = [pc EXCEPT ![s] = p]
    BY <1>2, <1>3 DEF TakesAt
  <2>2. req' = [req EXCEPT ![s] = q[i].msg]
    BY <1>2, <1>3 DEF TakesAt
  <2>3. QED
    BY <1>4, <2>1, <2>2
<1>6. down' = [down EXCEPT ![l] = SubSeq(q, m, Len(q))] /\ applied' = applied
  BY <1>2, <1>3 DEF TakesAt
<1>7. \A r : Executed(r)' = Executed(r)
  BY <1>6, ExecutedSame
<1>8. UpstreamFirst'
  BY <1>7 DEF Upstream, UpstreamFirst
<1>9. \A k \in Links : \A j \in 1..Len(down'[k]) : down'[k][j].msg \in Executed(k)'
  <2> SUFFICES ASSUME NEW k \in Links, NEW j \in 1..Len(down'[k])
               PROVE  down'[k][j].msg \in Executed(k)
    BY <1>7
  <2>1. CASE k = l
    <3>1. down'[k] = SubSeq(q, m, Len(q))
      BY <1>1, <1>6, <2>1 DEF TInv, TypeOK
    <3>2. j + m - 1 \in 1..Len(q) /\ down'[k][j] = q[j + m - 1]
      BY <1>2, <3>1, QueueTail
    <3>3. QED
      BY <1>2, <2>1, <3>2 DEF Upstream
  <2>2. CASE k # l
    BY <1>6, <2>2 DEF Upstream, TInv, TypeOK
  <2>3. QED
    BY <2>1, <2>2
<1>10. \A r \in Followers : pc'[r] \notin Idle => req'[r] \in Executed(r-1)'
  BY <1>1, <1>5, <1>7 DEF Upstream, Threads, TInv, TypeOK
<1>11. \A r \in Threads : pc'[r] \in {"wsize", "wbody"} => req'[r] \in Executed(Home(r))'
  BY <1>1, <1>5, <1>7 DEF Upstream, TInv, TypeOK
<1>12. QED
  BY <1>8, <1>9, <1>10, <1>11 DEF Upstream

\* The thread of a server ends, with its server or without it.
Leaves(s) ==
  /\ pc[s] = "recv" /\ \E p \in {"gone", "crashed"} : pc' = [pc EXCEPT ![s] = p]
  /\ down' = [down EXCEPT ![s-1] = <<>>]
  /\ conn' = [conn EXCEPT ![s-1] = "closed"]
  /\ UNCHANGED <<cmd, ans, issued, acked, table, applied, req, res, up, mixed>>

LEMMA LeavesShape ==
  ASSUME TInv, NEW s \in Threads,
         ReceiveScrambled(s) \/ ReceiveCrash(s) \/ ReceiveEnd(s)
  PROVE  Leaves(s) /\ s \in Followers
<1>1. s \in Followers /\ pc[s] = "recv"
  BY DEF ReceiveScrambled, ReceiveCrash, ReceiveEnd, Misframed, Goto
<1>2. CASE ReceiveScrambled(s) \/ ReceiveCrash(s)
  BY <1>1, <1>2 DEF ReceiveScrambled, ReceiveCrash, Goto, Leaves, clientVars
<1>3. CASE ReceiveEnd(s)
  <2>1. s - 1 \in Links
    BY <1>1, HomeType
  <2>2. down[s-1] = <<>> /\ down' = down /\ down \in [Links -> Seq(Items)]
    BY <1>3 DEF ReceiveEnd, TInv, TypeOK
  <2>3. down' = [down EXCEPT ![s-1] = <<>>]
    BY <2>1, <2>2
  <2>4. QED
    BY <1>1, <1>3, <2>3 DEF ReceiveEnd, Goto, Leaves, clientVars
<1>4. QED
  BY <1>1, <1>2, <1>3

LEMMA UpstreamLeaves ==
  ASSUME TInv, Upstream, NEW s \in Followers, Leaves(s)
  PROVE  Upstream'
<1>1. s - 1 \in Links /\ s \in Threads
  BY HomeType DEF Threads
<1>2. PICK p \in {"gone", "crashed"} : pc' = [pc EXCEPT ![s] = p]
  BY DEF Leaves
<1>3. down' = [down EXCEPT ![s-1] = <<>>] /\ UNCHANGED <<applied, req>>
  BY DEF Leaves
<1>4. \A r : Executed(r)' = Executed(r)
  BY <1>3, ExecutedSame
<1>5. UpstreamFirst'
  BY <1>4 DEF Upstream, UpstreamFirst
<1>6. \A k \in Links : \A i \in 1..Len(down'[k]) : down'[k][i].msg \in Executed(k)'
  BY <1>1, <1>3, <1>4 DEF Upstream, TInv, TypeOK
<1>7. \A r \in Followers : pc'[r] \notin Idle => req'[r] \in Executed(r-1)'
  BY <1>2, <1>3, <1>4 DEF Upstream, Threads, Idle, TInv, TypeOK
<1>8. \A r \in Threads : pc'[r] \in {"wsize", "wbody"} => req'[r] \in Executed(Home(r))'
  BY <1>2, <1>3, <1>4 DEF Upstream, TInv, TypeOK
<1>9. QED
  BY <1>5, <1>6, <1>7, <1>8 DEF Upstream

LEMMA UpstreamThread ==
  ASSUME TInv, Upstream, NEW t \in Threads, Handler(t)
  PROVE  Upstream'
<1>1. CASE ReceiveFromClient(t)
  <2>1. t \in Writers /\ t \notin Followers /\ cmd[t].op \in {"put", "del"}
    BY <1>1, HomeType, UpdateShape DEF ReceiveFromClient
  <2>2. /\ pc' = [pc EXCEPT ![t] = cmd[t].op] /\ req' = [req EXCEPT ![t] = cmd[t]]
        /\ UNCHANGED <<applied, down>>
    BY <1>1 DEF ReceiveFromClient, Accept, Goto, linkVars
  <2>3. \A s : Executed(s)' = Executed(s)
    BY <2>2, ExecutedSame
  <2>4. \A s \in Followers : pc'[s] = pc[s] /\ req'[s] = req[s]
    BY <2>1, <2>2 DEF TInv, TypeOK, Threads
  <2>5. \A r \in Threads : pc'[r] \in {"wsize", "wbody"} => pc[r] = pc'[r] /\ req'[r] = req[r]
    BY <2>1, <2>2 DEF TInv, TypeOK
  <2>6. QED
    BY <2>2, <2>3, <2>4, <2>5 DEF Upstream, UpstreamFirst
<1>2. CASE ReceiveForwarded(t) \/ ReceiveMixture(t)
  BY <1>2, TakesShape, UpstreamReceive DEF ReceiveForwarded, ReceiveMixture, Misframed
<1>3. CASE ReceiveScrambled(t) \/ ReceiveCrash(t) \/ ReceiveEnd(t)
  BY <1>3, LeavesShape, UpstreamLeaves
<1>4. CASE InvokePut(t)
  BY <1>4, UpstreamExecute DEF InvokePut, Goto, Idle, linkVars
<1>5. CASE InvokeDelCheck(t)
  BY <1>5, UpstreamKept DEF InvokeDelCheck, Goto, Refuse, Idle, linkVars, TInv, TypeOK
<1>6. CASE InvokeDelRemove(t)
  <2>1. pc[t] = "rm" /\ UNCHANGED <<req, down>>
    BY <1>6 DEF InvokeDelRemove, linkVars
  <2>2. CASE Goto(t, "rm", "reply") /\ Refuse(t)
    BY <2>1, <2>2, UpstreamKept DEF Goto, Refuse, Idle, TInv, TypeOK
  <2>3. CASE Goto(t, "rm", AfterSuccess(t)) /\ Execute(t, Absent)
    BY <2>1, <2>3, UpstreamExecute DEF Goto, Idle
  <2>4. QED
    BY <1>6, <2>2, <2>3 DEF InvokeDelRemove
<1>7. CASE WriteSize(t) \/ WriteBody(t)
  BY <1>7, UpstreamWrite
<1>8. CASE ReadSize(t) \/ ReadBody(t) \/ ReadBodyAsSize(t) \/ ReadEnd(t) \/ ReadOutOfStep(t)
  BY <1>8, UpstreamKept DEF ReadSize, ReadBody, ReadBodyAsSize, ReadEnd, ReadOutOfStep,
                            Goto, linkVars, Idle, TInv, TypeOK
<1>9. CASE ReplyToClient(t) \/ ReplyUpstream(t)
  BY <1>9, UpstreamKept DEF ReplyToClient, ReplyUpstream, Goto, linkVars, Idle, TInv, TypeOK
<1>10. QED
  BY <1>1, <1>2, <1>3, <1>4, <1>5, <1>6, <1>7, <1>8, <1>9 DEF Handler, Progress, OutOfStep

LEMMA UpstreamStep == TInv /\ Upstream /\ [Next]_vars => Upstream'
<1> SUFFICES ASSUME TInv, Upstream, [Next]_vars PROVE Upstream'
  OBVIOUS
<1>1. CASE \E c \in Clients : Client(c) \/ ServeGet(c)
  <2>1. UNCHANGED <<applied, down, pc, req>>
    BY <1>1 DEF Client, SendUpdate, SendGet, ReadAnswer, ServeGet, linkVars
  <2>2. QED
    BY <2>1, UpstreamKept
<1>2. CASE \E t \in Threads : Handler(t)
  BY <1>2, UpstreamThread
<1>3. CASE UNCHANGED vars
  BY <1>3, UpstreamKept DEF vars
<1>4. QED
  BY <1>1, <1>2, <1>3 DEF Next

\* A server never executes an update that its predecessor has not executed:
\* client_handler calls invoke before it forwards, and nothing that threads do
\* to a shared socket makes a request up.
THEOREM UpstreamFirstAlways == Spec => []UpstreamFirst
<1>1. Spec => []Upstream
  BY TInvAlways, UpstreamInit, UpstreamStep, PTL DEF Spec
<1>2. Upstream => UpstreamFirst
  BY DEF Upstream
<1>3. QED
  BY <1>1, <1>2, PTL
-----------------------------------------------------------------------------
(* A link that one thread uses stays in step *)

\* No other thread of the server of t shares the socket of t to its successor.
Alone(t) == \A r \in Threads : Home(r) = Home(t) => r = t

\* The link that t alone uses holds nothing but the frame that t writes, that
\* the successor serves, or that the successor answered.
LockStep(t) == LET l == Home(t) IN
  /\ conn[l] = "open" /\ ~mixed[l] /\ pc[t] \notin {"spin", "crashed"}
  /\ \/ /\ pc[t] \notin {"wbody", "rsize", "rbody"}
        /\ down[l] = <<>> /\ up[l] = <<>> /\ pc[l+1] = "recv"
     \/ /\ pc[t] = "wbody"
        /\ down[l] = <<Size(req[t])>> /\ up[l] = <<>> /\ pc[l+1] = "recv"
     \/ /\ pc[t] = "rsize"
        /\ down[l] = Frame(req[t]) /\ up[l] = <<>> /\ pc[l+1] = "recv"
     \/ /\ pc[t] = "rsize"
        /\ down[l] = <<>> /\ up[l] = <<>> /\ pc[l+1] \notin Idle /\ req[l+1] = req[t]
     \/ /\ pc[t] = "rsize"
        /\ down[l] = <<>> /\ up[l] = Frame(req[t]) /\ pc[l+1] = "recv"
     \/ /\ pc[t] = "rbody"
        /\ down[l] = <<>> /\ up[l] = <<Body(req[t])>> /\ pc[l+1] = "recv"

\* It died between two requests, so it left nothing on the link.
Ended(t) == LET l == Home(t) IN
  /\ pc[t] = "crashed" /\ ~mixed[l] /\ conn[l] \in {"open", "closed"}
  /\ down[l] = <<>> /\ up[l] = <<>> /\ pc[l+1] \in {"recv", "gone"}

LinksInLockStep == \A t \in Threads :
  Alone(t) /\ Home(t) \in Links => LockStep(t) \/ Ended(t)

LEMMA AppendToOne ==
  ASSUME NEW a, NEW b
  PROVE  Append(<<a>>, b) = <<a, b>>
<1> DEFINE S == {a, b}
<1>1. <<a>> \in Seq(S) /\ b \in S /\ <<a, b>> \in Seq(S) /\ Len(<<a, b>>) = 2
  OBVIOUS
<1>2. PICK q \in Seq(S) : q = <<a>>
  BY <1>1
<1>3. Len(q) = 1 /\ q[1] = a
  BY <1>2
<1> HIDE DEF S
<1>4. /\ Append(q, b) \in Seq(S) /\ Len(Append(q, b)) = 2
      /\ Append(q, b)[1] = a /\ Append(q, b)[2] = b
  BY ONLY <1>1, <1>2, <1>3, AppendProperties
<1>5. \A i \in 1..2 : Append(q, b)[i] = <<a, b>>[i]
  BY <1>4
<1>6. Append(q, b) = <<a, b>>
  BY <1>1, <1>4, <1>5, SeqEqual
<1>7. QED
  BY <1>2, <1>6

\* How the queues of such a link grow and shrink.
LEMMA FrameQueue ==
  ASSUME NEW u
  PROVE  /\ Append(<<>>, Size(u)) = <<Size(u)>>
         /\ Append(<<Size(u)>>, Body(u)) = Frame(u)
         /\ Len(<<>>) = 0 /\ Len(<<Size(u)>>) = 1 /\ Len(Frame(u)) = 2
         /\ Frame(u)[1] = Size(u) /\ Frame(u)[2] = Body(u)
         /\ SubSeq(Frame(u), 3, 2) = <<>>
         /\ <<>> \o Frame(u) = Frame(u)
         /\ Frame(u) # <<>> /\ Head(Frame(u)) = Size(u) /\ Tail(Frame(u)) = <<Body(u)>>
         /\ <<Body(u)>> # <<>> /\ Tail(<<Body(u)>>) = <<>>
         /\ Size(u).msg = u /\ Size(u).part = "size" /\ Body(u).part = "body"
<1>1. SubSeq(Frame(u), 3, 2) = <<>>
  BY SubSeqEmpty
<1>2. <<>> \o Frame(u) = Frame(u)
  <2>1. Frame(u) \in Seq({Size(u), Body(u)})
    BY DEF Frame
  <2>2. QED
    BY <2>1, ConcatEmptySeq
<1>3. /\ Size(u).msg = u /\ Size(u).part = "size" /\ Body(u).part = "body"
  BY DEF Size, Body
<1>4. /\ Len(<<>>) = 0 /\ Len(<<Size(u)>>) = 1 /\ Len(Frame(u)) = 2
  BY DEF Frame
<1>a. Append(<<>>, Size(u)) = <<Size(u)>>
  OBVIOUS
<1>b. Append(<<Size(u)>>, Body(u)) = Frame(u)
  BY AppendToOne DEF Frame
<1>5. /\ Frame(u)[1] = Size(u) /\ Frame(u)[2] = Body(u)
      /\ Frame(u) # <<>> /\ <<Body(u)>> # <<>>
  BY DEF Frame
<1>6. Head(Frame(u)) = Size(u) /\ Tail(Frame(u)) = <<Body(u)>> /\ Tail(<<Body(u)>>) = <<>>
  BY DEF Frame
<1>7. QED
  BY <1>1, <1>2, <1>3, <1>4, <1>5, <1>6, <1>a, <1>b

\* Every follower has its server's socket for itself.
LEMMA FollowersAlone ==
  ASSUME NEW s \in Followers
  PROVE  s \in Threads /\ Home(s) = s /\ (s > 1 => Alone(s))
<1>1. s \in Threads /\ Home(s) = s
  BY HomeType DEF Threads
<1>2. ASSUME s > 1, NEW r \in Threads, Home(r) = Home(s) PROVE r = s
  BY <1>1, <1>2, HomeType DEF Threads, Followers
<1>3. QED
  BY <1>1, <1>2 DEF Alone

\* The two threads at the ends of a link.
LEMMA LinkEnds ==
  ASSUME NEW t \in Threads, Home(t) \in Links
  PROVE  /\ Home(t) + 1 \in Followers /\ Home(t) + 1 \in Threads
         /\ Home(t) + 1 # t /\ Home(t) + 1 \notin Writers
         /\ Home(t) + 1 \in Servers /\ Home(t) \in Servers
         /\ Home(t) + 1 - 1 = Home(t)
<1>1. Home(t) + 1 \in Followers /\ Home(t) \in Int
  BY ChainAssumption DEF Links, Followers
<1>2. QED
  BY <1>1, HomeType, ChainAssumption DEF Threads, Servers, Followers, Links

\* A thread changes nothing of another thread, ...
LEMMA OthersKept ==
  ASSUME TInv, NEW x \in Threads, Handler(x), NEW r \in Threads, r # x
  PROVE  pc'[r] = pc[r] /\ req'[r] = req[r]
<1> USE DEF TInv, TypeOK
<1>1. CASE \/ ReceiveFromClient(x) \/ ReceiveForwarded(x) \/ ReceiveScrambled(x)
           \/ ReceiveMixture(x) \/ ReceiveCrash(x) \/ ReceiveEnd(x)
  BY <1>1 DEF ReceiveFromClient, ReceiveForwarded, ReceiveScrambled, ReceiveMixture,
              ReceiveCrash, ReceiveEnd, Accept, Goto
<1>2. CASE \/ InvokePut(x) \/ InvokeDelCheck(x) \/ InvokeDelRemove(x)
           \/ WriteSize(x) \/ WriteBody(x)
  BY <1>2 DEF InvokePut, InvokeDelCheck, InvokeDelRemove, WriteSize, WriteBody, Write, Goto
<1>3. CASE \/ ReadSize(x) \/ ReadBody(x) \/ ReadBodyAsSize(x) \/ ReadEnd(x)
           \/ ReadOutOfStep(x) \/ ReplyToClient(x) \/ ReplyUpstream(x)
  BY <1>3 DEF ReadSize, ReadBody, ReadBodyAsSize, ReadEnd, ReadOutOfStep,
              ReplyToClient, ReplyUpstream, Goto
<1>4. QED
  BY <1>1, <1>2, <1>3 DEF Handler, Progress, OutOfStep

\* ... of a link that it neither sends on nor serves, ...
LEMMA LinkKept ==
  ASSUME TInv, NEW x \in Threads, Handler(x), NEW l \in Links, Home(x) # l,
         x \in Followers => x - 1 # l
  PROVE  UNCHANGED <<down[l], up[l], conn[l], mixed[l]>>
<1> USE DEF TInv, TypeOK
<1>1. CASE \/ ReceiveFromClient(x) \/ ReceiveForwarded(x) \/ ReceiveScrambled(x)
           \/ ReceiveMixture(x) \/ ReceiveCrash(x) \/ ReceiveEnd(x)
  BY <1>1 DEF ReceiveFromClient, ReceiveForwarded, ReceiveScrambled, ReceiveMixture,
              ReceiveCrash, ReceiveEnd, Misframed, linkVars
<1>2. CASE \/ InvokePut(x) \/ InvokeDelCheck(x) \/ InvokeDelRemove(x)
           \/ WriteSize(x) \/ WriteBody(x)
  BY <1>2 DEF InvokePut, InvokeDelCheck, InvokeDelRemove, WriteSize, WriteBody, Write, linkVars
<1>3. CASE \/ ReadSize(x) \/ ReadBody(x) \/ ReadBodyAsSize(x) \/ ReadEnd(x)
           \/ ReadOutOfStep(x) \/ ReplyToClient(x) \/ ReplyUpstream(x)
  BY <1>3 DEF ReadSize, ReadBody, ReadBodyAsSize, ReadEnd, ReadOutOfStep,
              ReplyToClient, ReplyUpstream, linkVars
<1>4. QED
  BY <1>1, <1>2, <1>3 DEF Handler, Progress, OutOfStep

\* ... and of another server's table.
LEMMA TablesKept ==
  ASSUME TInv, NEW x \in Threads, Handler(x), NEW s \in Servers, Home(x) # s
  PROVE  table'[s] = table[s]
<1> USE DEF TInv, TypeOK
<1>1. CASE \/ ReceiveFromClient(x) \/ ReceiveForwarded(x) \/ ReceiveScrambled(x)
           \/ ReceiveMixture(x) \/ ReceiveCrash(x) \/ ReceiveEnd(x)
  BY <1>1 DEF ReceiveFromClient, ReceiveForwarded, ReceiveScrambled, ReceiveMixture,
              ReceiveCrash, ReceiveEnd
<1>2. CASE \/ InvokePut(x) \/ InvokeDelCheck(x) \/ InvokeDelRemove(x)
           \/ WriteSize(x) \/ WriteBody(x)
  BY <1>2 DEF InvokePut, InvokeDelCheck, InvokeDelRemove, Execute, Refuse, WriteSize, WriteBody
<1>3. CASE \/ ReadSize(x) \/ ReadBody(x) \/ ReadBodyAsSize(x) \/ ReadEnd(x)
           \/ ReadOutOfStep(x) \/ ReplyToClient(x) \/ ReplyUpstream(x)
  BY <1>3 DEF ReadSize, ReadBody, ReadBodyAsSize, ReadEnd, ReadOutOfStep,
              ReplyToClient, ReplyUpstream
<1>4. QED
  BY <1>1, <1>2, <1>3 DEF Handler, Progress, OutOfStep

LEMMA LockStepKept ==
  ASSUME NEW t \in Threads, LockStep(t), NEW l, l = Home(t),
         pc'[t] = pc[t], req'[t] = req[t], pc'[l+1] = pc[l+1], req'[l+1] = req[l+1],
         down'[l] = down[l], up'[l] = up[l], conn'[l] = conn[l], mixed'[l] = mixed[l]
  PROVE  LockStep(t)'
  BY DEF LockStep

\* The steps of the one thread that sends over the link.
LEMMA LockStepSender ==
  ASSUME TInv, NEW t \in Threads, Home(t) \in Links, LockStep(t), Handler(t)
  PROVE  LockStep(t)' \/ Ended(t)'
<1> DEFINE l == Home(t)
<1> USE LinkEnds, HomeType, FrameQueue DEF TInv, TypeOK
<1>a. /\ t \in Writers => l = 1 /\ t \notin Followers
      /\ t \in Followers => l = t /\ t \in Int
      /\ l + 1 # t /\ l + 1 \in Threads
  BY HomeType, LinkEnds, ChainAssumption DEF Followers
<1>b. pc'[l+1] = pc[l+1] /\ req'[l+1] = req[l+1]
  BY <1>a, OthersKept
<1>1. CASE ReceiveFromClient(t)
  <2>1. pc[t] = "recv" /\ pc'[t] \in {"put", "del"} /\ UNCHANGED linkVars
    BY <1>1, UpdateShape DEF ReceiveFromClient, Accept, Goto
  <2>2. QED
    BY <1>b, <2>1 DEF LockStep, linkVars
<1>2. CASE ReceiveForwarded(t) \/ ReceiveMixture(t)
  <2>1. t \in Followers /\ t - 1 # l
    BY <1>2, <1>a DEF ReceiveForwarded, ReceiveMixture, Misframed
  <2>2. /\ pc[t] = "recv" /\ pc'[t] \in {"put", "del", "reply"} /\ UNCHANGED <<up, mixed>>
        /\ down'[l] = down[l]
    <3>1. t - 1 \in Links
      BY <2>1
    <3>2. PICK i \in 1..Len(down[t-1]), m \in 2..Len(down[t-1]) + 1 : TakesAt(t, i, m)
      BY <1>2, <2>1, TakesShape DEF Takes
    <3>3. down[t-1][i].msg \in Updates
      BY <3>1, QueuedShape
    <3>4. down[t-1][i].msg.op \in {"put", "del"}
      BY <3>3, UpdateShape
    <3>5. QED
      BY <2>1, <3>2, <3>4 DEF TakesAt
  <2>3. conn'[l] = conn[l]
    BY <1>2, <2>1 DEF ReceiveForwarded, ReceiveMixture
  <2>4. QED
    BY <1>b, <2>2, <2>3 DEF LockStep
<1>3. CASE ReceiveScrambled(t) \/ ReceiveCrash(t) \/ ReceiveEnd(t)
  <2>1. Leaves(t) /\ t - 1 # l
    BY <1>3, <1>a, LeavesShape
  <2>2. pc[t] = "recv" /\ pc'[t] \in {"gone", "crashed"}
    BY <2>1 DEF Leaves
  <2>3. down'[l] = down[l] /\ conn'[l] = conn[l] /\ UNCHANGED <<up, mixed>>
    BY <2>1 DEF Leaves
  <2>4. QED
    BY <1>b, <2>2, <2>3 DEF LockStep, Ended
<1>4. CASE InvokePut(t) \/ InvokeDelCheck(t) \/ InvokeDelRemove(t)
  <2>1. /\ pc[t] \in {"put", "del", "rm"} /\ pc'[t] \in {"rm", "wsize", "reply"}
        /\ UNCHANGED linkVars
    BY <1>4, AfterSuccessType DEF InvokePut, InvokeDelCheck, InvokeDelRemove, Goto
  <2>2. QED
    BY <1>b, <2>1 DEF LockStep, linkVars
<1>5. CASE WriteSize(t)
  <2>1. /\ pc[t] = "wsize" /\ conn[l] = "open" /\ down[l] = <<>> /\ up[l] = <<>>
        /\ pc[l+1] = "recv" /\ ~mixed[l]
    BY <1>5 DEF WriteSize, Write, LockStep
  <2>2. /\ pc'[t] = "wbody" /\ down'[l] = <<Size(req[t])>>
        /\ UNCHANGED <<req, up, conn, mixed>>
    BY <1>5, <2>1 DEF WriteSize, Write
  <2>3. QED
    BY <1>b, <2>1, <2>2 DEF LockStep
<1>6. CASE WriteBody(t)
  <2>1. /\ pc[t] = "wbody" /\ conn[l] = "open" /\ down[l] = <<Size(req[t])>> /\ up[l] = <<>>
        /\ pc[l+1] = "recv" /\ ~mixed[l]
    BY <1>6 DEF WriteBody, Write, LockStep
  <2>2. down'[l] = Append(<<Size(req[t])>>, Body(req[t]))
    BY <1>6, <2>1 DEF WriteBody, Write
  <2>3. /\ pc'[t] = "rsize" /\ down'[l] = Frame(req[t])
        /\ UNCHANGED <<req, up, conn, mixed>>
    <3>1. Append(<<Size(req[t])>>, Body(req[t])) = Frame(req[t])
      BY ONLY FrameQueue
    <3>2. QED
      BY <1>6, <2>1, <2>2, <3>1 DEF WriteBody, Write
  <2>4. QED
    BY <1>b, <2>1, <2>3 DEF LockStep
<1>7. CASE ReadSize(t)
  <2>1. /\ pc[t] = "rsize" /\ conn[l] = "open" /\ down[l] = <<>> /\ up[l] = Frame(req[t])
        /\ pc[l+1] = "recv" /\ ~mixed[l]
    BY <1>7 DEF ReadSize, Goto, LockStep
  <2>2. /\ pc'[t] = "rbody" /\ up'[l] = <<Body(req[t])>>
        /\ UNCHANGED <<req, down, conn, mixed>>
    <3>1. Tail(Frame(req[t])) = <<Body(req[t])>>
      BY ONLY FrameQueue
    <3>2. QED
      BY <1>7, <2>1, <3>1 DEF ReadSize, Goto
  <2>3. QED
    BY <1>b, <2>1, <2>2 DEF LockStep
<1>8. CASE ReadBody(t)
  <2>1. /\ pc[t] = "rbody" /\ conn[l] = "open" /\ down[l] = <<>> /\ up[l] = <<Body(req[t])>>
        /\ pc[l+1] = "recv" /\ ~mixed[l]
    BY <1>8 DEF ReadBody, Goto, LockStep
  <2>2. /\ pc'[t] = "reply" /\ up'[l] = <<>>
        /\ UNCHANGED <<req, down, conn, mixed>>
    BY <1>8, <2>1 DEF ReadBody, Goto
  <2>3. QED
    BY <1>b, <2>1, <2>2 DEF LockStep
<1>9. CASE ReadBodyAsSize(t) \/ ReadEnd(t) \/ ReadOutOfStep(t)
  <2>1. Head(Frame(req[t])).part # "body"
    BY ONLY FrameQueue
  <2>2. ~ReadEnd(t) /\ ~ReadOutOfStep(t)
    BY DEF ReadEnd, ReadOutOfStep, LockStep
  <2>3. ~ReadBodyAsSize(t)
    BY <2>1 DEF ReadBodyAsSize, Goto, LockStep
  <2>4. QED
    BY <1>9, <2>2, <2>3
<1>10. CASE ReplyToClient(t) \/ ReplyUpstream(t)
  <2>1. pc[t] = "reply" /\ pc'[t] = "recv" /\ UNCHANGED <<down, conn, mixed>>
    BY <1>10 DEF ReplyToClient, ReplyUpstream, Goto, linkVars
  <2>2. up'[l] = up[l]
    <3>1. CASE ReplyToClient(t)
      BY <3>1 DEF ReplyToClient, linkVars
    <3>2. CASE ReplyUpstream(t)
      <4>1. t \in Int /\ l = t /\ t - 1 # l
        BY <3>2, <1>a DEF ReplyUpstream, Followers
      <4>2. QED
        BY <3>2, <4>1 DEF ReplyUpstream
    <3>3. QED
      BY <1>10, <3>1, <3>2
  <2>3. QED
    BY <1>b, <2>1, <2>2 DEF LockStep
<1>11. QED
  BY <1>1, <1>2, <1>3, <1>4, <1>5, <1>6, <1>7, <1>8, <1>9, <1>10 DEF Handler, Progress, OutOfStep

\* What the thread that serves the link finds on it is never misframed.
LEMMA LockStepFramed ==
  ASSUME TInv, NEW t \in Threads, Home(t) \in Links, LockStep(t), NEW s, s = Home(t) + 1
  PROVE  /\ ~ReceiveMixture(s) /\ ~ReceiveScrambled(s) /\ ~ReceiveCrash(s) /\ ~ReceiveEnd(s)
         /\ ~ReceiveFromClient(s) /\ ~ReplyToClient(s)
<1> DEFINE l == Home(t)
<1>1. s \in Followers /\ s \notin Writers /\ s - 1 = l
  <2>1. Home(t) + 1 \in Followers /\ Home(t) + 1 \notin Writers /\ Home(t) + 1 - 1 = Home(t)
    BY LinkEnds
  <2>2. s \in Followers /\ s \notin Writers
    BY ONLY <2>1, s = Home(t) + 1
  <2>3. s - 1 = l
    <3>1. \A h \in Int : \A z : z = h + 1 => z - 1 = h
      BY ONLY TRUE
    <3>2. Home(t) \in Int
      BY DEF Links
    <3>3. QED
      BY <3>1, <3>2, Zenon
  <2>4. QED
    BY <2>2, <2>3
<1>2. Len(Frame(req[t])) = 2 /\ Len(<<Size(req[t])>>) = 1 /\ Len(<<>>) = 0
  BY ONLY FrameQueue
<1>3. down[l] = <<>> \/ down[l] = <<Size(req[t])>> \/ down[l] = Frame(req[t])
  BY DEF LockStep
<1>4. Len(down[l]) = 0 \/ Len(down[l]) = 1 \/ Len(down[l]) = 2
  BY <1>2, <1>3, Zenon
<1>5. ~(Len(down[l]) >= 3)
  <2>1. \A n \in {0, 1, 2} : ~(n >= 3)
    OBVIOUS
  <2>2. QED
    BY <1>4, <2>1, Zenon
<1>6. ~Misframed(s)
  BY <1>1, <1>5 DEF Misframed, LockStep
<1>7. ~ReceiveEnd(s)
  <2>1. s > 2 => t = l
    BY <1>1, HomeType, ChainAssumption DEF Threads, Followers
  <2>2. QED
    BY <1>1, <2>1 DEF ReceiveEnd, LockStep
<1>8. QED
  BY <1>1, <1>6, <1>7 DEF ReceiveMixture, ReceiveScrambled, ReceiveCrash,
                          ReceiveFromClient, ReplyToClient

\* The steps of the thread that serves the link.
LEMMA LockStepServer ==
  ASSUME TInv, NEW t \in Threads, Home(t) \in Links, LockStep(t),
         NEW s, s = Home(t) + 1, Handler(s)
  PROVE  LockStep(t)'
<1> DEFINE l == Home(t)
<1> USE DEF TInv, TypeOK
<1>a. /\ s \in Followers /\ s \in Threads /\ s # t /\ s \notin Writers
      /\ l \in Links /\ s - 1 = l /\ s = l + 1 /\ Home(s) = s /\ s # l
  BY LinkEnds, HomeType DEF Links
<1>b. pc'[t] = pc[t] /\ req'[t] = req[t]
  BY <1>a, OthersKept
<1>1. CASE ReceiveForwarded(s)
  <2>1. /\ pc[t] = "rsize" /\ conn[l] = "open" /\ down[l] = Frame(req[t]) /\ up[l] = <<>>
        /\ ~mixed[l]
    BY <1>1, <1>a, FrameQueue DEF ReceiveForwarded, InStep, LockStep, Accept, Goto, Idle
  <2>2. req[t] \in Updates
    BY <2>1 DEF Bound, Idle
  <2>3. /\ pc'[s] = req[t].op /\ req'[s] = req[t] /\ down'[l] = <<>>
        /\ UNCHANGED <<up, conn, mixed>>
    <3>1. /\ Len(Frame(req[t])) = 2 /\ SubSeq(Frame(req[t]), 3, 2) = <<>>
          /\ Frame(req[t])[1].msg = req[t]
      BY ONLY FrameQueue
    <3>2. QED
      BY <1>1, <1>a, <2>1, <3>1 DEF ReceiveForwarded, Accept, Goto
  <2>4. pc'[s] \notin Idle
    BY <2>2, <2>3, UpdateShape DEF Idle
  <2>5. QED
    BY <1>a, <1>b, <2>1, <2>3, <2>4 DEF LockStep
<1>2. /\ ~ReceiveMixture(s) /\ ~ReceiveScrambled(s) /\ ~ReceiveCrash(s) /\ ~ReceiveEnd(s)
      /\ ~ReceiveFromClient(s) /\ ~ReplyToClient(s)
  BY <1>a, LockStepFramed
<1>3. CASE ReplyUpstream(s)
  <2>1. /\ pc[t] = "rsize" /\ conn[l] = "open" /\ down[l] = <<>> /\ up[l] = <<>>
        /\ ~mixed[l] /\ req[s] = req[t]
    BY <1>3, <1>a DEF ReplyUpstream, LockStep, Goto, Idle
  <2>2. /\ pc'[s] = "recv" /\ up'[l] = Frame(req[t])
        /\ UNCHANGED <<down, conn, mixed>>
    <3>1. <<>> \o Frame(req[t]) = Frame(req[t])
      BY ONLY FrameQueue
    <3>2. QED
      BY <1>3, <1>a, <2>1, <3>1 DEF ReplyUpstream, Goto
  <2>3. QED
    BY <1>a, <1>b, <2>1, <2>2 DEF LockStep
<1>4. ASSUME pc[s] \notin Idle, pc'[s] \notin Idle, req' = req,
             down'[l] = down[l], up'[l] = up[l], UNCHANGED conn, mixed'[l] = mixed[l]
      PROVE  LockStep(t)'
  <2>1. /\ pc[t] = "rsize" /\ conn[l] = "open" /\ down[l] = <<>> /\ up[l] = <<>>
        /\ ~mixed[l] /\ req[s] = req[t]
    BY <1>4, <1>a DEF LockStep, Idle
  <2>2. QED
    BY <1>4, <1>a, <1>b, <2>1 DEF LockStep
<1>5. CASE InvokePut(s) \/ InvokeDelCheck(s) \/ InvokeDelRemove(s)
  <2>1. /\ pc[s] \in {"put", "del", "rm"} /\ pc'[s] \in {"rm", "wsize", "reply"}
        /\ UNCHANGED <<req, linkVars>>
    BY <1>5, <1>a, AfterSuccessType DEF InvokePut, InvokeDelCheck, InvokeDelRemove, Goto
  <2>2. QED
    BY <1>4, <2>1 DEF Idle, linkVars
<1>6. CASE WriteSize(s) \/ WriteBody(s)
  <2>1. /\ pc[s] \in {"wsize", "wbody"} /\ pc'[s] \in {"wbody", "rsize", "spin"}
        /\ UNCHANGED <<req, up, conn, mixed>> /\ down'[l] = down[l]
    BY <1>6, <1>a DEF WriteSize, WriteBody, Write
  <2>2. QED
    BY <1>4, <2>1 DEF Idle
<1>7. CASE ReadSize(s) \/ ReadBody(s) \/ ReadBodyAsSize(s) \/ ReadEnd(s) \/ ReadOutOfStep(s)
  <2>1. /\ pc[s] \in {"rsize", "rbody"} /\ pc'[s] \in {"rbody", "reply"}
        /\ UNCHANGED <<req, down, conn>> /\ up'[l] = up[l] /\ mixed'[l] = mixed[l]
    BY <1>7, <1>a DEF ReadSize, ReadBody, ReadBodyAsSize, ReadEnd, ReadOutOfStep, Goto, linkVars
  <2>2. QED
    BY <1>4, <2>1 DEF Idle
<1>8. QED
  BY <1>1, <1>2, <1>3, <1>5, <1>6, <1>7 DEF Handler, Progress, OutOfStep

\* No other thread touches the link.
LEMMA LockStepOther ==
  ASSUME TInv, NEW t \in Threads, Home(t) \in Links, Alone(t), LockStep(t),
         NEW x \in Threads, x # t, x # Home(t) + 1, Handler(x)
  PROVE  LockStep(t)'
<1> DEFINE l == Home(t)
<1> USE DEF TInv, TypeOK
<1>a. /\ l \in Links /\ l + 1 \in Threads /\ Home(x) # l
      /\ x \in Followers => x - 1 # l
  BY LinkEnds DEF Alone, Links, Followers
<1>b. UNCHANGED <<pc[t], req[t], pc[l+1], req[l+1]>>
  BY <1>a, OthersKept
<1>c. UNCHANGED <<down[l], up[l], conn[l], mixed[l]>>
  BY <1>a, LinkKept
<1>d. QED
  BY <1>b, <1>c, LockStepKept

\* Over the link of a dead server nothing happens but that its successor notices.
LEMMA EndedStep ==
  ASSUME TInv, NEW t \in Threads, Home(t) \in Links, Alone(t), Ended(t),
         NEW x \in Threads, Handler(x)
  PROVE  /\ Ended(t)'
         /\ UNCHANGED <<table[Home(t)], table[Home(t) + 1]>>
<1> DEFINE l == Home(t)
<1> USE DEF TInv, TypeOK
<1>a. /\ l + 1 \in Followers /\ l + 1 \in Threads /\ l + 1 # t /\ l + 1 \notin Writers
      /\ l + 1 \in Servers /\ l \in Servers /\ l + 1 - 1 = l /\ l + 1 # l
      /\ Home(l + 1) = l + 1 /\ l \in Links
      /\ \A r \in Threads : Home(r) = l + 1 => r = l + 1
  <2>1. \A r \in Threads : Home(r) = l + 1 => r = l + 1
    BY LinkEnds, HomeType DEF Threads, Links
  <2>2. QED
    BY <2>1, LinkEnds, HomeType DEF Links
<1>1. x # t
  <2>1. CASE \/ ReceiveFromClient(x) \/ ReceiveForwarded(x) \/ ReceiveScrambled(x)
             \/ ReceiveMixture(x) \/ ReceiveCrash(x) \/ ReceiveEnd(x)
    BY <2>1 DEF ReceiveFromClient, ReceiveForwarded, ReceiveScrambled, ReceiveMixture,
                ReceiveCrash, ReceiveEnd, Accept, Goto, Ended
  <2>2. CASE ~\/ ReceiveFromClient(x) \/ ReceiveForwarded(x) \/ ReceiveScrambled(x)
              \/ ReceiveMixture(x) \/ ReceiveCrash(x) \/ ReceiveEnd(x)
    BY <2>2 DEF Handler, Progress, OutOfStep, InvokePut, InvokeDelCheck, InvokeDelRemove,
       WriteSize, WriteBody, Write, ReadSize, ReadBody, ReadBodyAsSize, ReadEnd,
       ReadOutOfStep, ReplyToClient, ReplyUpstream, Goto, Ended
  <2>3. QED
    BY <2>1, <2>2
<1>2. CASE x = l + 1
  <2>1. Len(down[l]) = 0
    BY DEF Ended
  <2>2. ReceiveEnd(x)
    <3>1. /\ ~ReceiveFromClient(x) /\ ~ReceiveForwarded(x)
          /\ ~ReceiveScrambled(x) /\ ~ReceiveMixture(x) /\ ~ReceiveCrash(x)
      <4>1. x - 1 = l /\ x \notin Writers
        <5>1. \A h \in Int : \A z : z = h + 1 => z - 1 = h
          BY ONLY TRUE
        <5>2. l \in Int
          BY DEF Links
        <5>3. QED
          BY <1>2, <1>a, <5>1, <5>2, Zenon
      <4>2. ~InStep(down[x-1]) /\ ~Misframed(x)
        BY <2>1, <4>1 DEF InStep, Misframed, Ended
      <4>3. QED
        BY <4>1, <4>2 DEF ReceiveFromClient, ReceiveForwarded, ReceiveScrambled,
                          ReceiveMixture, ReceiveCrash
    <3>2. QED
      BY <1>2, <3>1 DEF Handler, Progress, OutOfStep, InvokePut, InvokeDelCheck,
         InvokeDelRemove, WriteSize, WriteBody, Write, ReadSize, ReadBody, ReadBodyAsSize,
         ReadEnd, ReadOutOfStep, ReplyToClient, ReplyUpstream, Goto, Ended
  <2>3. QED
    BY <1>2, <1>a, <1>1, <2>2 DEF ReceiveEnd, Goto, Ended
<1>3. CASE x # l + 1
  <2>1. Home(x) # l /\ Home(x) # l + 1 /\ (x \in Followers => x - 1 # l)
    BY <1>1, <1>3, <1>a DEF Alone, Followers, Links
  <2>2. UNCHANGED <<pc[t], pc[l+1], down[l], up[l], conn[l], mixed[l]>>
    BY <1>1, <1>3, <1>a, <2>1, OthersKept, LinkKept
  <2>3. UNCHANGED <<table[l], table[l+1]>>
    BY <1>a, <2>1, TablesKept
  <2>4. QED
    BY <2>2, <2>3 DEF Ended
<1>4. QED
  BY <1>2, <1>3

LEMMA LockStepInit == Init => LinksInLockStep
<1> SUFFICES ASSUME Init, NEW t \in Threads, Home(t) \in Links PROVE LockStep(t)
  BY DEF LinksInLockStep
<1>1. Home(t) + 1 \in Threads
  BY LinkEnds
<1>2. QED
  BY <1>1 DEF Init, LockStep

LEMMA LockStepStep == TInv /\ LinksInLockStep /\ [Next]_vars => LinksInLockStep'
<1> SUFFICES ASSUME TInv, LinksInLockStep, [Next]_vars,
                    NEW t \in Threads, Alone(t), Home(t) \in Links
             PROVE  LockStep(t)' \/ Ended(t)'
  BY DEF LinksInLockStep, Alone
<1>1. LockStep(t) \/ Ended(t)
  BY DEF LinksInLockStep
<1>2. CASE \E x \in Threads : Handler(x)
  <2>1. CASE LockStep(t)
    BY <1>2, <2>1, LockStepSender, LockStepServer, LockStepOther
  <2>2. CASE Ended(t)
    BY <1>2, <2>2, EndedStep
  <2>3. QED
    BY <1>1, <2>1, <2>2
<1>3. CASE UNCHANGED <<pc, req, linkVars>>
  <2>1. CASE LockStep(t)
    BY <1>3, <2>1, LockStepKept DEF linkVars
  <2>2. CASE Ended(t)
    BY <1>3, <2>2 DEF linkVars, Ended
  <2>3. QED
    BY <1>1, <2>1, <2>2
<1>4. CASE \E c \in Clients : Client(c) \/ ServeGet(c)
  <2>1. UNCHANGED <<pc, req, linkVars>>
    BY <1>4 DEF Client, SendUpdate, SendGet, ReadAnswer, ServeGet
  <2>2. QED
    BY <1>3, <2>1
<1>5. CASE UNCHANGED vars
  BY <1>3, <1>5 DEF vars, linkVars
<1>6. QED
  BY <1>2, <1>4, <1>5 DEF Next

LEMMA LockStepAlways == Spec => []LinksInLockStep
  BY TInvAlways, LockStepInit, LockStepStep, PTL DEF Spec

\* However many clients write at the same time, only the socket of the head can
\* fall out of step: client_handler gives every other server one thread that uses
\* its socket to the successor, which is closed only when that server has died.
THEOREM InnerLinksInStepAlways == Spec => []InnerLinksInStep
<1>1. LinksInLockStep => InnerLinksInStep
  <2> SUFFICES ASSUME LinksInLockStep, NEW l \in Links, l > 1
               PROVE  /\ ~mixed[l]
                      /\ conn[l] = "open" \/ (conn[l] = "closed" /\ pc[l] = "crashed")
    BY DEF InnerLinksInStep
  <2>1. l \in Followers
    BY ChainAssumption DEF Links, Followers
  <2>2. QED
    BY <2>1, FollowersAlone DEF LinksInLockStep, LockStep, Ended
<1>2. QED
  BY <1>1, LockStepAlways, PTL
-----------------------------------------------------------------------------
(* Over such a link the successor is at most one update behind *)

\* A thread is where invoke puts it for the operation that it serves.
ServesOp == \A t \in Threads :
  /\ pc[t] = "put" => req[t].op = "put"
  /\ pc[t] \in {"del", "rm"} => req[t].op = "del"

\* t has executed its request and its successor has not.
Behind(t) == LET l == Home(t) IN
  \/ pc[t] \in {"wsize", "wbody"}
  \/ pc[t] = "rsize" /\ (down[l] # <<>> \/ pc[l+1] \in {"put", "del", "rm"})

\* The entries of the successor, which a del can only remove where it finds one.
OneBehind(t) == LET l == Home(t) IN
  IF Behind(t)
  THEN /\ table[l] = [table[l+1] EXCEPT ![req[t].key] = req[t].val]
       /\ req[t].op = "del" => table[l+1][req[t].key] # Absent
  ELSE table[l+1] = table[l]

TablesOneBehind == \A t \in Threads : Alone(t) /\ Home(t) \in Links => OneBehind(t)

LEMMA UpdateVal ==
  ASSUME NEW u \in Updates
  PROVE  u.op = "del" => u.val = Absent
  BY DEF Updates

LEMMA ServesOpThread ==
  ASSUME TInv, ServesOp, NEW x \in Threads, Handler(x), NEW t \in Threads
  PROVE  /\ pc'[t] = "put" => req'[t].op = "put"
         /\ pc'[t] \in {"del", "rm"} => req'[t].op = "del"
<1> USE DEF TInv, TypeOK, ServesOp
<1>1. CASE \E u \in Updates : Accept(x, u)
  <2>1. PICK u \in Updates : Accept(x, u)
    BY <1>1
  <2>2. /\ pc'[t] = IF t = x THEN u.op ELSE pc[t]
        /\ req'[t] = IF t = x THEN u ELSE req[t]
    BY <2>1 DEF Accept, Goto
  <2>3. QED
    BY <2>1, <2>2, UpdateShape
<1>2. CASE ReceiveFromClient(x)
  BY <1>1, <1>2 DEF ReceiveFromClient
<1>3. CASE ReceiveForwarded(x) \/ ReceiveMixture(x)
  <2>1. x \in Followers /\ x - 1 \in Links
    BY <1>3, HomeType DEF ReceiveForwarded, ReceiveMixture, Misframed
  <2>2. PICK i \in 1..Len(down[x-1]), m \in 2..Len(down[x-1]) + 1 : TakesAt(x, i, m)
    BY <1>3, <2>1, TakesShape DEF Takes
  <2>3. down[x-1][i].msg \in Updates
    BY <2>1, QueuedShape
  <2>4. PICK u \in Updates, p \in {"put", "del", "reply"} :
          /\ p = "reply" \/ p = u.op
          /\ pc' = [pc EXCEPT ![x] = p] /\ req' = [req EXCEPT ![x] = u]
    <3>1. PICK p \in {down[x-1][i].msg.op, "reply"} : pc' = [pc EXCEPT ![x] = p]
      BY <2>2 DEF TakesAt
    <3>2. req' = [req EXCEPT ![x] = down[x-1][i].msg]
      BY <2>2 DEF TakesAt
    <3>3. QED
      BY <2>3, <3>1, <3>2, UpdateShape
  <2>5. QED
    BY <2>4, UpdateShape
<1>11. CASE ReceiveScrambled(x) \/ ReceiveCrash(x) \/ ReceiveEnd(x)
  BY <1>11 DEF ReceiveScrambled, ReceiveCrash, ReceiveEnd, Goto
<1>4. CASE InvokePut(x)
  BY <1>4, AfterSuccessType DEF InvokePut, Goto
<1>5. CASE InvokeDelCheck(x)
  BY <1>5 DEF InvokeDelCheck, Goto
<1>6. CASE InvokeDelRemove(x)
  BY <1>6, AfterSuccessType DEF InvokeDelRemove, Goto
<1>7. CASE WriteSize(x) \/ WriteBody(x)
  BY <1>7 DEF WriteSize, WriteBody, Write
<1>8. CASE ReadSize(x) \/ ReadBody(x) \/ ReadBodyAsSize(x) \/ ReadEnd(x) \/ ReadOutOfStep(x)
  BY <1>8 DEF ReadSize, ReadBody, ReadBodyAsSize, ReadEnd, ReadOutOfStep, Goto
<1>9. CASE ReplyToClient(x) \/ ReplyUpstream(x)
  BY <1>9 DEF ReplyToClient, ReplyUpstream, Goto
<1>10. QED
  BY <1>2, <1>3, <1>4, <1>5, <1>6, <1>7, <1>8, <1>9, <1>11 DEF Handler, Progress, OutOfStep

LEMMA ServesOpStep == TInv /\ ServesOp /\ [Next]_vars => ServesOp'
<1> SUFFICES ASSUME TInv, ServesOp, [Next]_vars PROVE ServesOp'
  OBVIOUS
<1>1. CASE UNCHANGED <<pc, req>>
  BY <1>1 DEF ServesOp
<1>2. CASE \E x \in Threads : Handler(x)
  BY <1>2, ServesOpThread DEF ServesOp
<1>3. CASE \E c \in Clients : Client(c) \/ ServeGet(c)
  BY <1>1, <1>3 DEF Client, SendUpdate, SendGet, ReadAnswer, ServeGet
<1>4. QED
  BY <1>1, <1>2, <1>3 DEF Next, vars

LEMMA ServesOpAlways == Spec => []ServesOp
<1>1. Init => ServesOp
  BY DEF Init, ServesOp
<1>2. QED
  BY <1>1, TInvAlways, ServesOpStep, PTL DEF Spec

LEMMA OneBehindKept ==
  ASSUME NEW t \in Threads, OneBehind(t), NEW l, l = Home(t), req'[t] = req[t],
         table'[l] = table[l], table'[l+1] = table[l+1], Behind(t)' = Behind(t)
  PROVE  OneBehind(t)'
  BY DEF OneBehind

\* The thread that sends executes before the successor does.
LEMMA OneBehindSender ==
  ASSUME TInv, ServesOp, NEW t \in Threads, Home(t) \in Links, LockStep(t), OneBehind(t),
         Handler(t)
  PROVE  OneBehind(t)'
<1> DEFINE l == Home(t)
<1> USE DEF TInv, TypeOK
<1>a. /\ l \in Servers /\ l + 1 \in Servers /\ l # l + 1 /\ l + 1 # t /\ l + 1 \in Threads
      /\ t \in Followers => t - 1 # l
  BY HomeType, LinkEnds DEF Links, Followers
<1>1. ASSUME ~Behind(t), ~Behind(t)', UNCHANGED table
      PROVE  OneBehind(t)'
  BY <1>1 DEF OneBehind
<1>2. CASE \/ ReceiveFromClient(t) \/ ReceiveForwarded(t) \/ ReceiveScrambled(t)
           \/ ReceiveMixture(t) \/ ReceiveCrash(t) \/ ReceiveEnd(t)
  <2>1. pc[t] = "recv" /\ UNCHANGED table
    BY <1>2 DEF ReceiveFromClient, ReceiveForwarded, ReceiveScrambled, ReceiveMixture,
                ReceiveCrash, ReceiveEnd, Accept, Goto
  <2>2. pc'[t] \in {"put", "del", "reply", "gone", "crashed"}
    <3>1. CASE ReceiveFromClient(t)
      BY <3>1, UpdateShape DEF ReceiveFromClient, Accept, Goto
    <3>2. CASE ReceiveForwarded(t) \/ ReceiveMixture(t)
      <4>1. t \in Followers /\ t - 1 \in Links
        BY <3>2, HomeType DEF ReceiveForwarded, ReceiveMixture, Misframed
      <4>2. PICK i \in 1..Len(down[t-1]), m \in 2..Len(down[t-1]) + 1 : TakesAt(t, i, m)
        BY <3>2, <4>1, TakesShape DEF Takes
      <4>3. down[t-1][i].msg \in Updates
        BY <4>1, QueuedShape
      <4>4. down[t-1][i].msg.op \in {"put", "del"}
        BY <4>3, UpdateShape
      <4>5. QED
        BY <4>2, <4>4 DEF TakesAt
    <3>3. CASE ReceiveScrambled(t) \/ ReceiveCrash(t) \/ ReceiveEnd(t)
      BY <3>3 DEF ReceiveScrambled, ReceiveCrash, ReceiveEnd, Goto
    <3>4. QED
      BY <1>2, <3>1, <3>2, <3>3
  <2>3. QED
    BY <1>1, <2>1, <2>2 DEF Behind
<1>3. ASSUME pc[t] \in {"put", "del", "rm"}, req' = req, pc'[t] = "wsize",
             req[t].op = "del" => table[l][req[t].key] # Absent,
             Execute(t, req[t].val)
      PROVE  OneBehind(t)'
  <2>1. table[l+1] = table[l]
    BY <1>3 DEF OneBehind, Behind
  <2>2. /\ table'[l] = [table[l] EXCEPT ![req[t].key] = req[t].val]
        /\ table'[l+1] = table[l+1]
    BY <1>3, <1>a DEF Execute
  <2>3. QED
    BY <1>3, <2>1, <2>2 DEF OneBehind, Behind
<1>4. AfterSuccess(t) = "wsize"
  BY <1>a, ChainAssumption DEF AfterSuccess, Links
<1>5. CASE InvokePut(t)
  BY <1>3, <1>4, <1>5 DEF InvokePut, Goto, ServesOp
<1>6. CASE InvokeDelCheck(t)
  <2>1. pc[t] = "del" /\ pc'[t] \in {"reply", "rm"} /\ UNCHANGED table
    BY <1>6 DEF InvokeDelCheck, Goto, Refuse
  <2>2. QED
    BY <1>1, <2>1 DEF Behind
<1>7. CASE InvokeDelRemove(t)
  <2>1. pc[t] = "rm" /\ req' = req /\ req[t].op = "del" /\ req[t].val = Absent
    BY <1>7, UpdateVal DEF InvokeDelRemove, ServesOp, Bound, Idle
  <2>2. CASE table[l][req[t].key] = Absent
    BY <1>1, <1>7, <2>1, <2>2 DEF InvokeDelRemove, Goto, Refuse, Behind
  <2>3. CASE table[l][req[t].key] # Absent
    BY <1>3, <1>4, <1>7, <2>1, <2>3 DEF InvokeDelRemove, Goto
  <2>4. QED
    BY <2>2, <2>3
<1>8. CASE WriteSize(t)
  <2>1. pc[t] = "wsize" /\ pc'[t] = "wbody" /\ UNCHANGED <<table, req>>
    BY <1>8 DEF WriteSize, Write, LockStep
  <2>2. QED
    BY <2>1, OneBehindKept DEF Behind
<1>9. CASE WriteBody(t)
  <2>1. /\ pc[t] = "wbody" /\ pc'[t] = "rsize" /\ UNCHANGED <<table, req>>
        /\ down'[l] # <<>>
    BY <1>9 DEF WriteBody, Write, LockStep
  <2>2. QED
    BY <2>1, OneBehindKept DEF Behind
<1>10. CASE ReadSize(t) \/ ReadBody(t)
  <2>1. /\ pc[t] \in {"rsize", "rbody"} /\ pc'[t] \in {"rbody", "reply"} /\ UNCHANGED table
        /\ up[l] # <<>> /\ pc[t] = "rsize" => down[l] = <<>> /\ pc[l+1] = "recv"
    BY <1>10 DEF ReadSize, ReadBody, Goto, LockStep
  <2>2. ~Behind(t) /\ ~Behind(t)'
    BY <1>10, <2>1 DEF Behind, ReadSize, ReadBody
  <2>3. QED
    BY <1>1, <2>1, <2>2
<1>11. ~ReadBodyAsSize(t) /\ ~ReadEnd(t) /\ ~ReadOutOfStep(t)
  <2>1. Head(Frame(req[t])).part # "body"
    BY ONLY FrameQueue
  <2>2. QED
    BY <2>1 DEF ReadEnd, ReadOutOfStep, ReadBodyAsSize, Goto, LockStep
<1>12. CASE ReplyToClient(t) \/ ReplyUpstream(t)
  <2>1. pc[t] = "reply" /\ pc'[t] = "recv" /\ UNCHANGED table
    BY <1>12 DEF ReplyToClient, ReplyUpstream, Goto
  <2>2. QED
    BY <1>1, <2>1 DEF Behind
<1>13. QED
  BY <1>2, <1>5, <1>6, <1>7, <1>8, <1>9, <1>10, <1>11, <1>12 DEF Handler, Progress, OutOfStep

\* The thread that serves the link executes what the sender has executed.
LEMMA OneBehindServer ==
  ASSUME TInv, ServesOp, NEW t \in Threads, Home(t) \in Links, LockStep(t), OneBehind(t),
         NEW s, s = Home(t) + 1, Handler(s)
  PROVE  OneBehind(t)'
<1> DEFINE l == Home(t)
<1> USE DEF TInv, TypeOK
<1>a. /\ s \in Followers /\ s \in Threads /\ s # t /\ s \notin Writers /\ Home(t) + 1 = s
      /\ l \in Links /\ s - 1 = l /\ s = l + 1 /\ Home(s) = s /\ s # l
      /\ l \in Servers /\ s \in Servers
  BY LinkEnds, HomeType DEF Links
<1>b. pc'[t] = pc[t] /\ req'[t] = req[t] /\ table'[l] = table[l]
  BY <1>a, OthersKept, TablesKept
<1>1. CASE ReceiveForwarded(s)
  <2>1. /\ pc[t] = "rsize" /\ down[l] = Frame(req[t]) /\ down[l] # <<>>
    BY <1>1, <1>a, FrameQueue DEF ReceiveForwarded, InStep, LockStep, Accept, Goto, Idle
  <2>2. req[t] \in Updates
    BY <2>1 DEF Bound, Idle
  <2>3. pc'[s] = req[t].op /\ UNCHANGED table
    <3>1. Frame(req[t])[1].msg = req[t]
      BY ONLY FrameQueue
    <3>2. QED
      BY <1>1, <1>a, <2>1, <3>1 DEF ReceiveForwarded, Accept, Goto
  <2>4. pc'[s] \in {"put", "del"}
    BY <2>2, <2>3, UpdateShape
  <2>5. QED
    BY <1>a, <1>b, <2>1, <2>3, <2>4, OneBehindKept DEF Behind
<1>2. /\ ~ReceiveMixture(s) /\ ~ReceiveScrambled(s) /\ ~ReceiveCrash(s) /\ ~ReceiveEnd(s)
      /\ ~ReceiveFromClient(s) /\ ~ReplyToClient(s)
  BY <1>a, LockStepFramed
<1>3. ASSUME pc[s] \in {"put", "del", "rm"}
      PROVE  /\ pc[t] = "rsize" /\ down[l] = <<>> /\ req[s] = req[t] /\ req[s] \in Updates
             /\ table[l] = [table[s] EXCEPT ![req[s].key] = req[s].val]
             /\ req[s].op = "del" => table[s][req[s].key] # Absent
  BY <1>3, <1>a DEF LockStep, OneBehind, Behind, Idle, Bound
<1>4. ASSUME pc[s] \in {"put", "del", "rm"}, pc'[s] \notin {"put", "del", "rm"},
             down' = down, Execute(s, req[s].val)
      PROVE  OneBehind(t)'
  <2>1. table'[s] = table'[l]
    BY <1>3, <1>4, <1>a, <1>b DEF Execute
  <2>2. QED
    BY <1>3, <1>4, <1>a, <1>b, <2>1 DEF OneBehind, Behind
<1>5. CASE InvokePut(s)
  BY <1>4, <1>5, AfterSuccessType, <1>a DEF InvokePut, Goto, linkVars
<1>6. CASE InvokeDelCheck(s)
  <2>1. pc[s] = "del" /\ pc'[s] = "rm" /\ UNCHANGED <<table, down>>
    BY <1>3, <1>6, <1>a DEF InvokeDelCheck, Goto, Refuse, linkVars, ServesOp
  <2>2. QED
    BY <1>3, <1>a, <1>b, <2>1, OneBehindKept DEF Behind
<1>7. CASE InvokeDelRemove(s)
  <2>1. pc[s] = "rm" /\ req[s].op = "del" /\ req[s].val = Absent
    BY <1>7, <1>3, <1>a, UpdateVal DEF InvokeDelRemove, ServesOp
  <2>2. table[s][req[s].key] # Absent
    BY <1>3, <2>1
  <2>3. Goto(s, "rm", AfterSuccess(s)) /\ Execute(s, Absent) /\ down' = down
    BY <1>7, <1>a, <2>2 DEF InvokeDelRemove, linkVars
  <2>4. QED
    BY <1>4, <1>a, <2>1, <2>3, AfterSuccessType DEF Goto
<1>8. ASSUME pc[s] \notin {"recv", "put", "del", "rm"}, pc'[s] \notin {"put", "del", "rm"},
             UNCHANGED table, down'[l] = down[l]
      PROVE  OneBehind(t)'
  BY <1>8, <1>a, <1>b, OneBehindKept DEF Behind
<1>9. CASE WriteSize(s) \/ WriteBody(s)
  <2>1. /\ pc[s] \in {"wsize", "wbody"} /\ pc'[s] \in {"wbody", "rsize", "spin"}
        /\ UNCHANGED table /\ down'[l] = down[l]
    BY <1>9, <1>a DEF WriteSize, WriteBody, Write
  <2>2. QED
    BY <1>8, <2>1
<1>10. CASE ReadSize(s) \/ ReadBody(s) \/ ReadBodyAsSize(s) \/ ReadEnd(s) \/ ReadOutOfStep(s)
  <2>1. /\ pc[s] \in {"rsize", "rbody"} /\ pc'[s] \in {"rbody", "reply"}
        /\ UNCHANGED <<table, down>>
    BY <1>10, <1>a DEF ReadSize, ReadBody, ReadBodyAsSize, ReadEnd, ReadOutOfStep, Goto, linkVars
  <2>2. QED
    BY <1>8, <2>1
<1>11. CASE ReplyUpstream(s)
  <2>1. pc[s] = "reply" /\ pc'[s] = "recv" /\ UNCHANGED <<table, down>>
    BY <1>11, <1>a DEF ReplyUpstream, Goto
  <2>2. QED
    BY <1>8, <2>1
<1>12. QED
  BY <1>1, <1>2, <1>5, <1>6, <1>7, <1>9, <1>10, <1>11 DEF Handler, Progress, OutOfStep

LEMMA OneBehindOther ==
  ASSUME TInv, NEW t \in Threads, Home(t) \in Links, Alone(t), OneBehind(t),
         NEW x \in Threads, x # t, x # Home(t) + 1, Handler(x)
  PROVE  OneBehind(t)'
<1> DEFINE l == Home(t)
<1> USE DEF TInv, TypeOK
<1>a. /\ l \in Links /\ l + 1 \in Threads /\ Home(x) # l /\ Home(x) # l + 1
      /\ l \in Servers /\ l + 1 \in Servers
      /\ x \in Followers => x - 1 # l
  <2>1. Home(x) # l + 1
    BY HomeType, LinkEnds DEF Threads, Links
  <2>2. QED
    BY <2>1, LinkEnds DEF Alone, Links, Followers
<1>b. UNCHANGED <<pc[t], req[t], pc[l+1], table[l], table[l+1]>>
  BY <1>a, OthersKept, TablesKept
<1>c. down'[l] = down[l]
  BY <1>a, LinkKept
<1>d. QED
  BY <1>b, <1>c, OneBehindKept DEF Behind

LEMMA OneBehindStep ==
  TInv /\ ServesOp /\ LinksInLockStep /\ TablesOneBehind /\ [Next]_vars => TablesOneBehind'
<1> SUFFICES ASSUME TInv, ServesOp, LinksInLockStep, TablesOneBehind, [Next]_vars,
                    NEW t \in Threads, Alone(t), Home(t) \in Links
             PROVE  OneBehind(t)'
  BY DEF TablesOneBehind, Alone
<1>1. OneBehind(t) /\ (LockStep(t) \/ Ended(t))
  BY DEF TablesOneBehind, LinksInLockStep
<1>2. CASE \E x \in Threads : Handler(x)
  <2>1. PICK x \in Threads : Handler(x)
    BY <1>2
  <2>2. CASE LockStep(t)
    BY <1>1, <2>1, <2>2, OneBehindSender, OneBehindServer, OneBehindOther
  <2>3. CASE Ended(t)
    <3>1. Ended(t)' /\ UNCHANGED <<table[Home(t)], table[Home(t) + 1]>>
      BY <2>1, <2>3, EndedStep
    <3>2. ~Behind(t) /\ ~Behind(t)'
      BY <2>3, <3>1 DEF Behind, Ended
    <3>3. QED
      BY <1>1, <3>1, <3>2 DEF OneBehind
  <2>4. QED
    BY <1>1, <2>2, <2>3
<1>3. CASE UNCHANGED <<pc, req, down, table>>
  BY <1>1, <1>3, OneBehindKept DEF Behind
<1>4. CASE \E c \in Clients : Client(c) \/ ServeGet(c)
  <2>1. UNCHANGED <<pc, req, down, table>>
    BY <1>4 DEF Client, SendUpdate, SendGet, ReadAnswer, ServeGet, linkVars
  <2>2. QED
    BY <1>3, <2>1
<1>5. QED
  BY <1>2, <1>3, <1>4 DEF Next, vars

LEMMA OneBehindAlways == Spec => []TablesOneBehind
<1>1. Init => TablesOneBehind
  <2> SUFFICES ASSUME Init, NEW t \in Threads, Home(t) \in Links PROVE OneBehind(t)
    BY DEF TablesOneBehind
  <2>1. Home(t) \in Servers /\ Home(t) + 1 \in Servers
    BY LinkEnds
  <2>2. QED
    BY <2>1 DEF Init, OneBehind, Behind
<1>2. QED
  BY <1>1, TInvAlways, ServesOpAlways, LockStepAlways, OneBehindStep, PTL DEF Spec

\* A property of followers that goes from each of them to the next one holds of
\* all those after the first that has it: there is no least counterexample.
LEMMA LeastExists ==
  ASSUME NEW S \in SUBSET Nat, S # {}
  PROVE  \E n \in S : \A m \in S : n <= m
<1> DEFINE R == OpToRel(<, Nat)
<1>1. IsWellFoundedOn(R, Nat)
  BY NatLessThanWellFounded
<1>2. \A x, y \in Nat : y < x => <<y, x>> \in R
  BY DEF OpToRel
<1> HIDE DEF R
<1>3. PICK x \in S : \A y \in S : ~ (<<y, x>> \in R)
  BY <1>1, WFMin
<1>4. \A y \in S : ~ (y < x)
  BY <1>2, <1>3
<1>5. QED
  BY <1>4

\* When the second server is between two updates, every later server is, and all
\* of them have its table, whatever clients do to the head at the same time.
THEOREM FollowersAgreeAlways == Spec => []FollowersAgree
<1>1. TInv /\ LinksInLockStep /\ TablesOneBehind => FollowersAgree
  <2> SUFFICES ASSUME TInv, LinksInLockStep, TablesOneBehind, pc[2] \in Idle
               PROVE  \A s \in Followers : table[s] = table[2]
    BY DEF FollowersAgree, Idle
  <2> DEFINE Fine(s) == pc[s] \in Idle /\ table[s] = table[2]
             S == {s \in Followers : ~Fine(s)}
  <2>1. ASSUME S # {} PROVE FALSE
    <3>1. S \in SUBSET Nat
      BY ChainAssumption DEF Followers
    <3>2. PICK s \in S : \A r \in S : s <= r
      BY <2>1, <3>1, LeastExists
    <3>3. s \in Followers /\ s # 2 /\ ~Fine(s)
      BY <3>2 DEF Idle
    <3> DEFINE p == s - 1
    <3>4. p \in Followers /\ p \in Links /\ p > 1 /\ ~(s <= p) /\ p + 1 = s
      BY <3>3, ChainAssumption DEF Followers, Links
    <3>5. Fine(p)
      <4> HIDE DEF Fine
      <4>1. p \notin S
        BY <3>2, <3>4
      <4>2. QED
        BY <3>4, <4>1
    <3>6. (LockStep(p) \/ Ended(p)) /\ OneBehind(p) /\ Home(p) = p
      BY <3>4, FollowersAlone DEF LinksInLockStep, TablesOneBehind
    <3>7. pc[p] \in Idle /\ pc[s] \in Idle
      BY <3>4, <3>5, <3>6 DEF LockStep, Ended, Idle
    <3>8. table[s] = table[p]
      BY <3>4, <3>6, <3>7 DEF OneBehind, Behind, Idle
    <3>9. QED
      BY <3>3, <3>5, <3>7, <3>8 DEF Idle
  <2>2. QED
    BY <2>1
<1>2. QED
  BY <1>1, TInvAlways, LockStepAlways, OneBehindAlways, PTL
-----------------------------------------------------------------------------
(* The updates of one client never overtake each other *)

Waiting == {"put", "del", "rm"}
Sending == {"wsize", "wbody"}

\* If u and v are of the same client, it issued u first.
Before(u, v) == u.by = v.by => u.nth < v.nth

\* What server l+1 took from link l.
Reached(l) == {u \in Updates : \/ u \in Executed(l+1)
                               \/ pc[l+1] \in Waiting /\ u = req[l+1]}

\* A client numbers its updates and waits for each of them.
HeadOrder == \A c \in Writers :
  /\ cmd[c] \in Updates => cmd[c].by = c /\ cmd[c].nth = issued[c]
  /\ \A u \in Executed(1) : u.by = c => u.nth <= issued[c]
  /\ cmd[c] \in Updates /\ ans[c] = None /\ pc[c] = "recv" =>
       \A u \in Executed(1) : Before(u, cmd[c])

\* What a thread is about to execute comes after what its server executed.
WaitOrder == \A t \in Threads : pc[t] \in Waiting =>
  \A u \in Executed(Home(t)) : Before(u, req[t])

\* What is on a link comes after what the successor took from it, in order; a
\* body follows its length.
QueueOrder == \A l \in Links : \A i \in 1..Len(down[l]) :
  /\ \A u \in Reached(l) : Before(u, down[l][i].msg)
  /\ \A j \in 1..Len(down[l]) : i < j =>
       \/ Before(down[l][i].msg, down[l][j].msg)
       \/ /\ down[l][i].msg = down[l][j].msg
          /\ down[l][i].part = "size" /\ down[l][j].part = "body"

\* What a thread is about to send comes after all that.
SendOrder == \A t \in Threads : pc[t] \in Sending =>
  /\ \A u \in Reached(Home(t)) : Before(u, req[t])
  /\ \A i \in 1..Len(down[Home(t)]) :
       \/ Before(down[Home(t)][i].msg, req[t])
       \/ pc[t] = "wbody" /\ down[Home(t)][i] = Size(req[t])

Order == HeadOrder /\ WaitOrder /\ QueueOrder /\ SendOrder /\ ClientOrder

LEMMA LinkShape ==
  ASSUME NEW l \in Links
  PROVE  /\ l \in Servers /\ l + 1 \in Servers /\ l + 1 \in Threads
         /\ Home(l+1) = l + 1 /\ l + 1 \in Followers /\ l + 1 - 1 = l
<1>1. l \in Servers /\ l + 1 \in Followers /\ l + 1 - 1 = l
  BY ChainAssumption DEF Links, Servers, Followers
<1>2. QED
  BY <1>1, FollowersAlone, HomeType

\* Upstream, said of a link.
LEMMA UpstreamLink ==
  ASSUME Upstream, NEW l \in Links
  PROVE  /\ Executed(l+1) \subseteq Executed(l)
         /\ pc[l+1] \notin Idle => req[l+1] \in Executed(l)
<1>1. \A s \in Followers : /\ Executed(s) \subseteq Executed(s-1)
                           /\ pc[s] \notin Idle => req[s] \in Executed(s-1)
  BY DEF Upstream, UpstreamFirst
<1>2. PICK f : f = l + 1
  OBVIOUS
<1>3. f \in Followers /\ f - 1 = l
  <2>1. l \in Int /\ l + 1 \in Followers
    BY LinkShape, ChainAssumption DEF Links
  <2>2. QED
    BY <1>2, <2>1
<1>4. /\ Executed(f) \subseteq Executed(f-1)
      /\ pc[f] \notin Idle => req[f] \in Executed(f-1)
  BY <1>1, <1>3
<1>5. QED
  BY <1>2, <1>3, <1>4

\* Two threads of one server serve two clients.
LEMMA OtherClient ==
  ASSUME TInv, HeadOrder, NEW t \in Threads, NEW r \in Threads, t # r, Home(t) = Home(r),
         pc[t] \notin Idle, pc[r] \notin Idle
  PROVE  req[t].by # req[r].by
<1>1. t \in Writers /\ r \in Writers
  BY HomeType, ChainAssumption DEF Threads, Home, Followers
<1>2. req[t] \in Updates /\ req[r] \in Updates /\ cmd[t] = req[t] /\ cmd[r] = req[r]
  BY <1>1 DEF TInv, Bound, Idle
<1>3. QED
  BY <1>1, <1>2 DEF HeadOrder

LEMMA OrderInit == Init => Order
<1> SUFFICES ASSUME Init PROVE Order
  OBVIOUS
<1>1. \A s \in Servers : applied[s] = <<>> /\ Executed(s) = {}
  BY DEF Init, Executed
<1>2. \A l \in Links : Len(down[l]) = 0
  BY DEF Init
<1>3. 1 \in Servers /\ \A t \in Threads : Home(t) \in Servers
  BY HomeType, ChainAssumption DEF Servers
<1>4. HeadOrder
  BY <1>1, <1>3, NoneAssumption DEF Init, HeadOrder, Clients
<1>5. WaitOrder /\ SendOrder
  BY DEF Init, WaitOrder, SendOrder, Waiting, Sending
<1>6. QueueOrder
  BY <1>2 DEF QueueOrder
<1>7. ClientOrder
  BY <1>1 DEF ClientOrder
<1>8. QED
  BY <1>4, <1>5, <1>6, <1>7 DEF Order

LEMMA ReachedSame ==
  ASSUME applied' = applied, NEW l,
         pc'[l+1] \in Waiting => pc[l+1] \in Waiting /\ req'[l+1] = req[l+1]
  PROVE  Reached(l)' \subseteq Reached(l)
  BY ExecutedSame DEF Reached

\* A step that executes nothing, sends nothing and receives nothing.
LEMMA OrderKept ==
  ASSUME TInv, Order, UNCHANGED <<applied, down, cmd, issued>>,
         \A t \in Threads :
           /\ pc'[t] \in Waiting => pc[t] \in Waiting /\ req'[t] = req[t]
           /\ pc'[t] \in Sending => pc[t] = pc'[t] /\ req'[t] = req[t],
         \A c \in Writers : cmd[c] \in Updates /\ ans'[c] = None /\ pc'[c] = "recv" =>
                              ans[c] = None /\ pc[c] = "recv"
  PROVE  Order'
<1>1. \A s : Executed(s)' = Executed(s)
  BY ExecutedSame
<1>2. \A l \in Links : Reached(l)' \subseteq Reached(l)
  <2>1. \A l \in Links : l + 1 \in Threads
    BY ChainAssumption DEF Links, Threads, Followers
  <2>2. QED
    BY <2>1, ReachedSame
<1>3. HeadOrder'
  BY <1>1 DEF Order, HeadOrder
<1>4. WaitOrder'
  BY <1>1 DEF Order, WaitOrder
<1>5. QueueOrder'
  BY <1>2 DEF Order, QueueOrder
<1>6. SendOrder'
  <2> SUFFICES ASSUME NEW t \in Threads, pc'[t] \in Sending
               PROVE  /\ \A u \in Reached(Home(t))' : Before(u, req'[t])
                      /\ \A i \in 1..Len(down'[Home(t)]) :
                           \/ Before(down'[Home(t)][i].msg, req'[t])
                           \/ pc'[t] = "wbody" /\ down'[Home(t)][i] = Size(req'[t])
    BY DEF SendOrder
  <2>1. Home(t) \in Links /\ pc[t] \in Sending /\ pc'[t] = pc[t] /\ req'[t] = req[t]
    BY DEF TInv, Bound, Sending, Forwarding
  <2>2. QED
    BY <1>2, <2>1 DEF Order, SendOrder
<1>7. ClientOrder'
  BY DEF Order, ClientOrder
<1>8. QED
  BY <1>3, <1>4, <1>5, <1>6, <1>7 DEF Order

\* A client issues a command or takes an answer.
LEMMA OrderClient ==
  ASSUME TInv, Order, NEW c \in Clients, Client(c) \/ ServeGet(c)
  PROVE  Order'
<1>1. UNCHANGED <<applied, pc, req, down>>
  BY DEF Client, SendUpdate, SendGet, ReadAnswer, ServeGet, linkVars
<1>2. \A s : Executed(s)' = Executed(s)
  BY <1>1, ExecutedSame
<1>3. \A l : Reached(l)' = Reached(l)
  BY <1>1, <1>2 DEF Reached
<1>4. WaitOrder' /\ QueueOrder' /\ SendOrder' /\ ClientOrder'
  BY <1>1, <1>2, <1>3 DEF Order, WaitOrder, QueueOrder, SendOrder, ClientOrder
<1>5. HeadOrder'
  <2> SUFFICES ASSUME NEW d \in Writers
               PROVE  /\ cmd'[d] \in Updates => cmd'[d].by = d /\ cmd'[d].nth = issued'[d]
                      /\ \A u \in Executed(1) : u.by = d => u.nth <= issued'[d]
                      /\ cmd'[d] \in Updates /\ ans'[d] = None /\ pc'[d] = "recv" =>
                           \A u \in Executed(1) : Before(u, cmd'[d])
    BY <1>2 DEF HeadOrder
  <2> USE DEF TInv, TypeOK
  <2>0. d \in Clients /\ issued[d] \in Nat /\ \A u \in Executed(1) : u \in Updates
    <3>1. 1 \in Servers
      BY ChainAssumption DEF Servers
    <3>2. QED
      BY <3>1, ChainAssumption DEF Clients, Executed
  <2>1. CASE c # d
    <3>1. UNCHANGED <<cmd[d], ans[d], issued[d]>>
      BY <2>0, <2>1 DEF Client, SendUpdate, SendGet, ReadAnswer, ServeGet
    <3>2. QED
      BY <1>1, <3>1 DEF Order, HeadOrder
  <2>2. CASE c = d /\ SendUpdate(c)
    <3>1. /\ cmd'[d] \in Updates /\ cmd'[d].by = d /\ cmd'[d].nth = issued[d] + 1
          /\ issued'[d] = issued[d] + 1
      BY <2>0, <2>2 DEF SendUpdate
    <3>2. \A u \in Executed(1) : u.by = d => u.nth <= issued[d]
      BY DEF Order, HeadOrder
    <3>3. \A u \in Executed(1) : u.by = d => u.nth < issued[d] + 1
      BY <2>0, <3>2, UpdateShape
    <3>4. \A u \in Executed(1) : u.by = d => u.nth <= issued[d] + 1
      BY <2>0, <3>2, UpdateShape
    <3>5. QED
      BY <3>1, <3>3, <3>4 DEF Before
  <2>3. CASE c = d /\ (SendGet(c) \/ ReadAnswer(c))
    <3>1. cmd'[d] \notin Updates /\ issued'[d] = issued[d]
      BY <2>0, <2>3, NoneAssumption, GetShape, UpdateShape DEF SendGet, ReadAnswer
    <3>2. QED
      BY <3>1 DEF Order, HeadOrder
  <2>4. CASE c = d /\ ServeGet(c)
    <3>1. cmd'[d] \notin Updates /\ issued'[d] = issued[d]
      BY <2>0, <2>4, UpdateShape DEF ServeGet
    <3>2. QED
      BY <3>1 DEF Order, HeadOrder
  <2>5. QED
    BY <2>1, <2>2, <2>3, <2>4 DEF Client
<1>6. QED
  BY <1>4, <1>5 DEF Order

\* A head thread takes the request of its client.
LEMMA OrderFromClient ==
  ASSUME TInv, Order, NEW t \in Threads, ReceiveFromClient(t)
  PROVE  Order'
<1> USE DEF TInv, TypeOK
<1>1. /\ t \in Writers /\ t \notin Followers /\ Home(t) = 1 /\ pc[t] = "recv"
      /\ cmd[t] \in Updates /\ ans[t] = None /\ cmd[t].op \in {"put", "del"}
  BY HomeType, UpdateShape DEF ReceiveFromClient, Accept, Goto
<1>2. /\ pc' = [pc EXCEPT ![t] = cmd[t].op] /\ req' = [req EXCEPT ![t] = cmd[t]]
      /\ UNCHANGED <<applied, down, cmd, ans, issued>>
  BY DEF ReceiveFromClient, Accept, Goto, clientVars, linkVars
<1>3. \A s : Executed(s)' = Executed(s)
  BY <1>2, ExecutedSame
<1>4. \A l \in Links : Reached(l)' \subseteq Reached(l)
  <2>1. \A l \in Links : l + 1 \in Threads /\ l + 1 # t
    BY <1>1, ChainAssumption DEF Links, Threads, Followers
  <2>2. QED
    BY <1>2, <2>1, ReachedSame
<1>5. HeadOrder'
  BY <1>1, <1>2, <1>3 DEF Order, HeadOrder, Threads
<1>6. WaitOrder'
  <2> SUFFICES ASSUME NEW r \in Threads, pc'[r] \in Waiting
               PROVE  \A u \in Executed(Home(r)) : Before(u, req'[r])
    BY <1>3 DEF WaitOrder
  <2>1. CASE r = t
    BY <1>1, <1>2, <2>1 DEF Order, HeadOrder
  <2>2. CASE r # t
    BY <1>2, <2>2 DEF Order, WaitOrder
  <2>3. QED
    BY <2>1, <2>2
<1>7. QueueOrder'
  BY <1>2, <1>4 DEF Order, QueueOrder
<1>8. SendOrder'
  <2> SUFFICES ASSUME NEW r \in Threads, pc'[r] \in Sending
               PROVE  /\ \A u \in Reached(Home(r))' : Before(u, req'[r])
                      /\ \A i \in 1..Len(down'[Home(r)]) :
                           \/ Before(down'[Home(r)][i].msg, req'[r])
                           \/ pc'[r] = "wbody" /\ down'[Home(r)][i] = Size(req'[r])
    BY DEF SendOrder
  <2>1. r # t
    BY <1>1, <1>2 DEF Sending
  <2>2. pc'[r] = pc[r] /\ req'[r] = req[r] /\ Home(r) \in Links
    BY <1>2, <2>1 DEF Bound, Sending, Forwarding
  <2>3. QED
    BY <1>2, <1>4, <2>2 DEF Order, SendOrder
<1>9. ClientOrder'
  BY <1>2 DEF Order, ClientOrder
<1>10. QED
  BY <1>5, <1>6, <1>7, <1>8, <1>9 DEF Order

\* A follower takes a body that is on its link and what comes before it.
LEMMA OrderReceive ==
  ASSUME TInv, Order, NEW s \in Followers, Takes(s)
  PROVE  Order'
<1> USE DEF TInv, TypeOK
<1> DEFINE l == s - 1
<1>1. l \in Links /\ s \in Threads /\ l + 1 = s /\ Home(s) = s /\ s \notin Writers
  <2>1. l \in Links /\ s \in Threads /\ Home(s) = s /\ s \notin Writers
    BY HomeType, FollowersAlone
  <2>2. l + 1 = s
    BY ChainAssumption DEF Followers
  <2>3. QED
    BY <2>1, <2>2
<1>2. PICK q : q = down[l] /\ q \in Seq(Items)
  BY <1>1
<1>3. PICK b \in 1..Len(q), m \in 2..Len(q) + 1 : TakesAt(s, b, m)
  BY <1>2 DEF Takes
<1>4. PICK u \in Updates : u = q[b].msg
  BY <1>2, QueuedShape
<1>5. PICK p \in {"put", "del", "reply"} :
        /\ pc' = [pc EXCEPT ![s] = p] /\ req' = [req EXCEPT ![s] = u]
        /\ down' = [down EXCEPT ![l] = SubSeq(q, m, Len(q))]
        /\ UNCHANGED <<applied, cmd, ans, issued>>
  BY <1>2, <1>3, <1>4, UpdateShape DEF TakesAt
<1>6. b < m /\ q[b].part = "body"
  BY <1>2, <1>3 DEF TakesAt
<1>7. \A v \in Executed(s) : v \in Reached(l)
  BY <1>1, HomeType DEF Reached, Executed
<1>8. \A v \in Executed(s) : Before(v, u)
  BY <1>1, <1>2, <1>4, <1>7 DEF Order, QueueOrder
<1>9. /\ Len(down'[l]) = Len(q) + 1 - m
      /\ \A i \in 1..Len(down'[l]) : i + m - 1 \in 1..Len(q) /\ down'[l][i] = q[i + m - 1]
  BY <1>1, <1>2, <1>5, QueueTail
<1>10. \A i \in 1..Len(down'[l]) : Before(u, down'[l][i].msg)
  <2> SUFFICES ASSUME NEW i \in 1..Len(down'[l]) PROVE Before(u, down'[l][i].msg)
    OBVIOUS
  <2>1. i + m - 1 \in 1..Len(q) /\ down'[l][i] = q[i + m - 1]
    BY <1>9
  <2>2. b < i + m - 1
    <3>1. i \in Int /\ i >= 1 /\ m \in Int /\ b \in Int
      OBVIOUS
    <3>2. QED
      BY ONLY <1>6, <3>1
  <2>3. Before(q[b].msg, q[i + m - 1].msg) \/ q[b].part = "size"
    BY <1>1, <1>2, <2>1, <2>2 DEF Order, QueueOrder
  <2>4. QED
    BY <1>4, <1>6, <2>1, <2>3
<1>11. \A r : Executed(r)' = Executed(r)
  BY <1>5, ExecutedSame
<1>12. \A k \in Links : \A v \in Reached(k)' : v \in Reached(k) \/ (k = l /\ v = u)
  <2> SUFFICES ASSUME NEW k \in Links, NEW v \in Reached(k)' PROVE v \in Reached(k) \/ (k = l /\ v = u)
    OBVIOUS
  <2>1. CASE k = l
    BY <1>1, <1>5, <1>11, <2>1 DEF Reached
  <2>2. CASE k # l
    <3>1. k + 1 # s /\ k + 1 \in Threads
      BY <1>1, <2>2, ChainAssumption DEF Links, Threads, Followers
    <3>2. QED
      BY <1>5, <1>11, <3>1 DEF Reached
  <2>3. QED
    BY <2>1, <2>2
<1>13. HeadOrder'
  <2>1. \A c \in Writers : c # s /\ c \in Threads
    BY <1>1 DEF Threads
  <2>2. QED
    BY <1>5, <1>11, <2>1 DEF Order, HeadOrder
<1>14. WaitOrder'
  <2> SUFFICES ASSUME NEW r \in Threads, pc'[r] \in Waiting
               PROVE  \A v \in Executed(Home(r)) : Before(v, req'[r])
    BY <1>11 DEF WaitOrder
  <2>1. CASE r = s
    BY <1>1, <1>5, <1>8, <2>1
  <2>2. CASE r # s
    BY <1>5, <2>2 DEF Order, WaitOrder
  <2>3. QED
    BY <2>1, <2>2
<1>15. QueueOrder'
  <2> SUFFICES ASSUME NEW k \in Links, NEW i \in 1..Len(down'[k])
               PROVE  /\ \A v \in Reached(k)' : Before(v, down'[k][i].msg)
                      /\ \A j \in 1..Len(down'[k]) : i < j =>
                           \/ Before(down'[k][i].msg, down'[k][j].msg)
                           \/ /\ down'[k][i].msg = down'[k][j].msg
                              /\ down'[k][i].part = "size" /\ down'[k][j].part = "body"
    BY DEF QueueOrder
  <2>1. CASE k # l
    <3>1. down'[k] = down[k] /\ \A v \in Reached(k)' : v \in Reached(k)
      BY <1>5, <1>12, <2>1
    <3>2. QED
      BY ONLY Order, <3>1, k \in Links, i \in 1..Len(down'[k]) DEF Order, QueueOrder
  <2>2. CASE k = l
    <3>1. i + m - 1 \in 1..Len(q) /\ down'[l][i] = q[i + m - 1]
      BY <1>9, <2>2
    <3>2. \A v \in Reached(k)' : Before(v, down'[k][i].msg)
      <4>1. \A v \in Reached(l) : Before(v, q[i + m - 1].msg)
        <5>1. i + m - 1 \in 1..Len(down[l]) /\ q = down[l]
          BY <1>2, <3>1
        <5>2. QED
          BY ONLY Order, <1>1, <5>1 DEF Order, QueueOrder
      <4>2. QED
        BY <1>10, <1>12, <2>2, <3>1, <4>1
    <3>3. ASSUME NEW j \in 1..Len(down'[l]), i < j
          PROVE  \/ Before(q[i + m - 1].msg, q[j + m - 1].msg)
                 \/ /\ q[i + m - 1].msg = q[j + m - 1].msg
                    /\ q[i + m - 1].part = "size" /\ q[j + m - 1].part = "body"
      <4>1. j + m - 1 \in 1..Len(q) /\ i + m - 1 < j + m - 1
        <5>1. j + m - 1 \in 1..Len(q) /\ i \in Int /\ j \in Int /\ m \in Int
          BY <1>9, <2>2
        <5>2. QED
          BY ONLY <3>3, <5>1
      <4>2. QED
        <5>1. /\ i + m - 1 \in 1..Len(down[l]) /\ j + m - 1 \in 1..Len(down[l])
              /\ q = down[l]
          BY <1>2, <3>1, <4>1
        <5>2. PICK a \in 1..Len(down[l]), c \in 1..Len(down[l]) :
                a = i + m - 1 /\ c = j + m - 1
          BY ONLY <5>1
        <5>3. QueueOrder /\ a < c /\ l \in Links
          <6>1. a < c
            BY ONLY <4>1, <5>2
          <6>2. QED
            BY <1>1, <6>1 DEF Order
        <5>4. \/ Before(down[l][a].msg, down[l][c].msg)
              \/ /\ down[l][a].msg = down[l][c].msg
                 /\ down[l][a].part = "size" /\ down[l][c].part = "body"
          <6>1. \A e, f \in 1..Len(down[l]) : e < f =>
                  \/ Before(down[l][e].msg, down[l][f].msg)
                  \/ /\ down[l][e].msg = down[l][f].msg
                     /\ down[l][e].part = "size" /\ down[l][f].part = "body"
            BY ONLY <5>3, QueueOrder DEF QueueOrder
          <6>2. QED
            BY <5>3, <6>1, Zenon
        <5>5. QED
          BY ONLY <5>1, <5>2, <5>4
    <3>4. QED
      BY <1>9, <2>2, <3>1, <3>2, <3>3
  <2>3. QED
    BY <2>1, <2>2
<1>16. SendOrder'
  <2> SUFFICES ASSUME NEW t \in Threads, pc'[t] \in Sending
               PROVE  /\ \A v \in Reached(Home(t))' : Before(v, req'[t])
                      /\ \A i \in 1..Len(down'[Home(t)]) :
                           \/ Before(down'[Home(t)][i].msg, req'[t])
                           \/ pc'[t] = "wbody" /\ down'[Home(t)][i] = Size(req'[t])
    BY DEF SendOrder
  <2>1. t # s
    BY <1>5 DEF Sending
  <2>2. pc'[t] = pc[t] /\ req'[t] = req[t] /\ Home(t) \in Links /\ pc[t] \in Sending
    BY <1>5, <2>1 DEF Bound, Sending, Forwarding
  <2>3. /\ \A v \in Reached(Home(t)) : Before(v, req[t])
        /\ \A i \in 1..Len(down[Home(t)]) :
             \/ Before(down[Home(t)][i].msg, req[t])
             \/ pc[t] = "wbody" /\ down[Home(t)][i] = Size(req[t])
    BY <2>2 DEF Order, SendOrder
  <2>4. CASE Home(t) = l
    <3>1. Before(u, req[t])
      <4>1. q[b] # Size(req[t])
        BY <1>6 DEF Size
      <4>2. QED
        BY <1>2, <1>4, <2>3, <2>4, <4>1
    <3>2. \A i \in 1..Len(down'[l]) : i + m - 1 \in 1..Len(q) /\ down'[l][i] = q[i + m - 1]
      BY <1>9
    <3>3. \A v \in Reached(l)' : Before(v, req[t])
      <4>1. \A v \in Reached(l) : Before(v, req[t])
        BY <2>3, <2>4
      <4>2. \A v \in Reached(l)' : v \in Reached(l) \/ v = u
        BY <1>1, <1>12
      <4>3. QED
        BY <3>1, <4>1, <4>2
    <3>4. ASSUME NEW i \in 1..Len(down'[l])
          PROVE  \/ Before(down'[l][i].msg, req[t])
                 \/ pc[t] = "wbody" /\ down'[l][i] = Size(req[t])
      <4>1. \/ Before(q[i + m - 1].msg, req[t])
            \/ pc[t] = "wbody" /\ q[i + m - 1] = Size(req[t])
        BY <1>2, <2>3, <2>4, <3>2
      <4>2. QED
        BY <3>2, <4>1
    <3>5. QED
      BY <2>2, <2>4, <3>3, <3>4
  <2>5. CASE Home(t) # l
    BY <1>5, <1>12, <2>2, <2>3, <2>5
  <2>6. QED
    BY <2>4, <2>5
<1>17. ClientOrder'
  BY <1>5 DEF Order, ClientOrder
<1>18. QED
  BY <1>13, <1>14, <1>15, <1>16, <1>17 DEF Order

LEMMA OrderLeaves ==
  ASSUME TInv, Order, NEW s \in Followers, Leaves(s)
  PROVE  Order'
<1> USE DEF TInv, TypeOK
<1>1. s - 1 \in Links /\ s \in Threads /\ s \notin Writers
  BY HomeType DEF Threads
<1>2. /\ pc' = [pc EXCEPT ![s] = "gone"] \/ pc' = [pc EXCEPT ![s] = "crashed"]
      /\ down' = [down EXCEPT ![s-1] = <<>>]
      /\ UNCHANGED <<applied, req, cmd, ans, issued>>
  BY DEF Leaves
<1>3. \A r : Executed(r)' = Executed(r)
  BY <1>2, ExecutedSame
<1>4. \A l \in Links : Reached(l)' \subseteq Reached(l)
  <2>1. \A l \in Links : l + 1 \in Threads
    BY ChainAssumption DEF Links, Threads, Followers
  <2>2. QED
    BY <1>2, <2>1, ReachedSame DEF Waiting
<1>5. \A l \in Links : down'[l] = down[l] \/ Len(down'[l]) = 0
  BY <1>1, <1>2
<1>6. HeadOrder'
  BY <1>1, <1>2, <1>3 DEF Order, HeadOrder, Threads
<1>7. WaitOrder'
  <2>1. \A t \in Threads : pc'[t] \in Waiting => pc[t] \in Waiting /\ req'[t] = req[t]
    BY <1>2 DEF Waiting
  <2>2. QED
    BY <1>3, <2>1 DEF Order, WaitOrder
<1>8. QueueOrder'
  <2> SUFFICES ASSUME NEW k \in Links, NEW i \in 1..Len(down'[k])
               PROVE  /\ \A v \in Reached(k)' : Before(v, down'[k][i].msg)
                      /\ \A j \in 1..Len(down'[k]) : i < j =>
                           \/ Before(down'[k][i].msg, down'[k][j].msg)
                           \/ /\ down'[k][i].msg = down'[k][j].msg
                              /\ down'[k][i].part = "size" /\ down'[k][j].part = "body"
    BY DEF QueueOrder
  <2>1. down'[k] = down[k] /\ i \in 1..Len(down[k])
    BY <1>5
  <2>2. /\ \A v \in Reached(k) : Before(v, down[k][i].msg)
        /\ \A j \in 1..Len(down[k]) : i < j =>
             \/ Before(down[k][i].msg, down[k][j].msg)
             \/ /\ down[k][i].msg = down[k][j].msg
                /\ down[k][i].part = "size" /\ down[k][j].part = "body"
    BY ONLY <2>1, Order, k \in Links DEF Order, QueueOrder
  <2>3. QED
    BY ONLY <1>4, <2>1, <2>2, k \in Links
<1>9. SendOrder'
  <2> SUFFICES ASSUME NEW t \in Threads, pc'[t] \in Sending
               PROVE  /\ \A u \in Reached(Home(t))' : Before(u, req'[t])
                      /\ \A i \in 1..Len(down'[Home(t)]) :
                           \/ Before(down'[Home(t)][i].msg, req'[t])
                           \/ pc'[t] = "wbody" /\ down'[Home(t)][i] = Size(req'[t])
    BY DEF SendOrder
  <2>1. pc'[t] = pc[t] /\ req'[t] = req[t] /\ Home(t) \in Links
    BY <1>2 DEF Bound, Sending, Forwarding
  <2>2. /\ \A u \in Reached(Home(t)) : Before(u, req[t])
        /\ \A i \in 1..Len(down[Home(t)]) :
             \/ Before(down[Home(t)][i].msg, req[t])
             \/ pc[t] = "wbody" /\ down[Home(t)][i] = Size(req[t])
    BY <2>1 DEF Order, SendOrder
  <2>3. \A i \in 1..Len(down'[Home(t)]) : down'[Home(t)] = down[Home(t)]
    BY <1>5, <2>1
  <2>4. QED
    BY ONLY <1>4, <2>1, <2>2, <2>3
<1>10. ClientOrder'
  BY <1>2 DEF Order, ClientOrder
<1>11. QED
  BY <1>6, <1>7, <1>8, <1>9, <1>10 DEF Order

\* A thread executes its request: it goes to the successor or to the answer.
LEMMA OrderExecute ==
  ASSUME TInv, Upstream, Order, NEW t \in Threads, pc[t] \in Waiting, NEW v, Execute(t, v),
         pc' = [pc EXCEPT ![t] = AfterSuccess(t)], UNCHANGED <<req, down, cmd, ans, issued>>
  PROVE  Order'
<1> USE DEF TInv, TypeOK
<1> DEFINE s == Home(t)
           u == req[t]
<1>1. /\ s \in Servers /\ u \in Updates /\ pc[t] \notin Idle
      /\ t \in Writers => s = 1 /\ cmd[t] = u /\ ans[t] = None
      /\ t \in Followers => s = t /\ s # 1 /\ t \notin Writers
      /\ t \in Writers \/ t \in Followers
  BY HomeType, ChainAssumption DEF Threads, Followers, Bound, Idle, Waiting
<1>2. \A r \in Servers : Executed(r)' = IF r = s THEN Executed(r) \cup {u} ELSE Executed(r)
  BY <1>1, ExecutedGrows
<1>3. \A w \in Executed(s) : Before(w, u)
  BY DEF Order, WaitOrder
<1>4. /\ AfterSuccess(t) \in {"wsize", "reply"}
      /\ \A r \in Threads : r # t => pc'[r] = pc[r]
      /\ pc'[t] = AfterSuccess(t)
  BY AfterSuccessType
<1>5. \A l \in Links : l \in Servers /\ l + 1 \in Servers /\ l + 1 \in Threads
                       /\ Home(l+1) = l + 1 /\ l + 1 \in Followers
  BY LinkShape
<1>6. \A l \in Links : Reached(l)' \subseteq Reached(l)
  <2> SUFFICES ASSUME NEW l \in Links, NEW w \in Reached(l)' PROVE w \in Reached(l)
    OBVIOUS
  <2>1. CASE l + 1 = s
    <3>1. t = l + 1
      BY <1>1, <1>5, <2>1, HomeType, ChainAssumption DEF Links
    <3>2. w \in Executed(s) \/ w = u
      BY <1>2, <1>4, <1>5, <2>1, <3>1 DEF Reached, Waiting
    <3>3. QED
      BY <1>1, <2>1, <3>1, <3>2 DEF Reached
  <2>2. CASE l + 1 # s
    <3>1. t # l + 1
      BY <1>5, <2>2
    <3>2. QED
      BY <1>2, <1>4, <1>5, <2>2, <3>1 DEF Reached
  <2>3. QED
    BY <2>1, <2>2
<1>7. ASSUME NEW r \in Threads, r # t, Home(r) = s, pc[r] \notin Idle
      PROVE  Before(u, req[r])
  BY <1>1, <1>7, OtherClient DEF Before, Order
<1> HIDE DEF u
<1>8. HeadOrder'
  <2> SUFFICES ASSUME NEW d \in Writers
               PROVE  /\ cmd[d] \in Updates => cmd[d].by = d /\ cmd[d].nth = issued[d]
                      /\ \A w \in Executed(1)' : w.by = d => w.nth <= issued[d]
                      /\ cmd[d] \in Updates /\ ans[d] = None /\ pc'[d] = "recv" =>
                           \A w \in Executed(1)' : Before(w, cmd[d])
    BY DEF HeadOrder
  <2>0. 1 \in Servers /\ d \in Threads /\ d \in Clients
    BY ChainAssumption DEF Servers, Threads, Clients
  <2>1. CASE s # 1
    <3>1. Executed(1)' = Executed(1) /\ pc'[d] = pc[d]
      BY <1>1, <1>2, <1>4, <2>0, <2>1
    <3>2. QED
      BY <3>1 DEF Order, HeadOrder
  <2>2. CASE s = 1
    <3>1. t \in Writers /\ cmd[t] = u
      BY <1>1, <2>2
    <3>2. u.by = t /\ u.nth = issued[t] /\ issued[t] \in Nat
      BY <1>1, <3>1, ChainAssumption DEF Order, HeadOrder, Clients, u
    <3>3. Executed(1)' = Executed(1) \cup {u}
      BY <1>2, <2>0, <2>2
    <3>4. \A w \in Executed(1)' : w.by = d => w.nth <= issued[d]
      BY <3>2, <3>3 DEF Order, HeadOrder
    <3>5. ASSUME cmd[d] \in Updates, ans[d] = None, pc'[d] = "recv"
          PROVE  \A w \in Executed(1)' : Before(w, cmd[d])
      <4>1. d # t /\ pc[d] = "recv"
        BY <1>4, <2>0, <3>5
      <4>2. cmd[d].by = d
        BY <3>5 DEF Order, HeadOrder
      <4>3. QED
        BY <3>2, <3>3, <3>5, <4>1, <4>2 DEF Order, HeadOrder, Before
    <3>6. QED
      BY <3>4, <3>5 DEF Order, HeadOrder
  <2>3. QED
    BY <2>1, <2>2
<1>9. WaitOrder'
  <2> SUFFICES ASSUME NEW r \in Threads, pc'[r] \in Waiting
               PROVE  \A w \in Executed(Home(r))' : Before(w, req[r])
    BY DEF WaitOrder
  <2>1. r # t /\ pc[r] \in Waiting /\ Home(r) \in Servers /\ pc[r] \notin Idle
    BY <1>4, HomeType DEF Waiting, Idle
  <2>2. \A w \in Executed(Home(r)) : Before(w, req[r])
    BY <2>1 DEF Order, WaitOrder
  <2>3. QED
    BY <1>2, <1>7, <2>1, <2>2
<1>10. QueueOrder'
  BY <1>6 DEF Order, QueueOrder
<1>11. SendOrder'
  <2> SUFFICES ASSUME NEW r \in Threads, pc'[r] \in Sending
               PROVE  /\ \A w \in Reached(Home(r))' : Before(w, req[r])
                      /\ \A i \in 1..Len(down[Home(r)]) :
                           \/ Before(down[Home(r)][i].msg, req[r])
                           \/ pc'[r] = "wbody" /\ down[Home(r)][i] = Size(req[r])
    BY DEF SendOrder
  <2>1. CASE r # t
    <3>1. pc'[r] = pc[r] /\ Home(r) \in Links
      BY <1>4, <2>1 DEF Bound, Sending, Forwarding
    <3>2. QED
      BY <1>6, <3>1 DEF Order, SendOrder
  <2>2. CASE r = t
    <3>1. s \in Links
      BY <1>4, <2>2, AfterSuccessType DEF Sending
    <3>2. \A w \in Reached(s) : w \in Executed(s)
      <4> SUFFICES ASSUME NEW w \in Reached(s) PROVE w \in Executed(s)
        OBVIOUS
      <4>1. Executed(s+1) \subseteq Executed(s)
        BY <3>1, UpstreamLink
      <4>2. pc[s+1] \notin Idle => req[s+1] \in Executed(s)
        BY <3>1, UpstreamLink
      <4>3. QED
        BY <4>1, <4>2 DEF Reached, Waiting, Idle
    <3>3. \A i \in 1..Len(down[s]) : down[s][i].msg \in Executed(s)
      BY <3>1 DEF Upstream
    <3>4. QED
      BY <1>3, <1>6, <2>2, <3>1, <3>2, <3>3 DEF u
  <2>3. QED
    BY <2>1, <2>2
<1>12. ClientOrder'
  <2> SUFFICES ASSUME NEW r \in Servers, NEW i \in 1..Len(applied'[r]), NEW j \in 1..Len(applied'[r]),
                      i < j
               PROVE  Before(applied'[r][i], applied'[r][j])
    BY DEF ClientOrder, Before
  <2>1. CASE r # s
    <3>1. applied'[r] = applied[r]
      BY <2>1 DEF Execute
    <3>2. QED
      BY <3>1 DEF Order, ClientOrder, Before
  <2>2. CASE r = s
    <3> DEFINE a == applied[s]
    <3>1. a \in Seq(Updates) /\ applied'[r] = Append(a, u)
      BY <1>1, <2>2 DEF Execute, u
    <3>2. /\ Len(applied'[r]) = Len(a) + 1 /\ applied'[r][Len(a) + 1] = u
          /\ \A k \in 1..Len(a) : applied'[r][k] = a[k]
      <4> HIDE DEF a
      <4>1. QED
        BY <1>1, <3>1, AppendProperties DEF u
    <3>3. Len(a) \in Nat /\ i \in 1..Len(a) /\ (j \in 1..Len(a) \/ j = Len(a) + 1)
      <4>1. Len(a) \in Nat
        BY <3>1
      <4>2. QED
        BY <3>2, <4>1
    <3>4. CASE j \in 1..Len(a)
      <4>1. Before(a[i], a[j])
        BY <1>1, <3>3, <3>4 DEF Order, ClientOrder, Before
      <4>2. QED
        BY <3>2, <3>3, <3>4, <4>1
    <3>5. CASE j = Len(a) + 1
      <4>1. a[i] \in Executed(s)
        BY <3>3 DEF Executed
      <4>2. QED
        BY <1>3, <3>2, <3>3, <3>5, <4>1 DEF u
    <3>6. QED
      BY <3>3, <3>4, <3>5
  <2>3. QED
    BY <2>1, <2>2
<1>13. QED
  BY <1>8, <1>9, <1>10, <1>11, <1>12 DEF Order

\* A thread writes the length or the body of its request.
LEMMA OrderWrite ==
  ASSUME TInv, Order, NEW t \in Threads, WriteSize(t) \/ WriteBody(t)
  PROVE  Order'
<1> USE DEF TInv, TypeOK
<1> DEFINE l == Home(t)
           u == req[t]
<1>1. /\ pc[t] \in Sending /\ l \in Links /\ u \in Updates
  BY DEF WriteSize, WriteBody, Write, Bound, Idle, Forwarding, Sending
<1>2. UNCHANGED <<applied, req, cmd, ans, issued>>
  BY DEF WriteSize, WriteBody, clientVars
<1>3. /\ pc'[t] \in {"wbody", "rsize", "spin"}
      /\ pc'[t] = "wbody" => pc[t] = "wsize"
      /\ \A r \in Threads : r # t => pc'[r] = pc[r]
  BY DEF WriteSize, WriteBody, Write
<1>4. \A s : Executed(s)' = Executed(s)
  BY <1>2, ExecutedSame
<1>5. \A k \in Links : Reached(k)' \subseteq Reached(k)
  <2>1. \A k \in Links : k + 1 \in Threads
    BY ChainAssumption DEF Links, Threads, Followers
  <2>2. QED
    BY <1>2, <1>3, <2>1, ReachedSame DEF Waiting
<1>6. HeadOrder'
  <2>1. \A c \in Writers : c \in Threads
    BY DEF Threads
  <2>2. \A c \in Writers : pc'[c] = "recv" => pc[c] = "recv"
    BY <1>3, <2>1
  <2>3. QED
    BY <1>2, <1>4, <2>2 DEF Order, HeadOrder
<1>7. WaitOrder'
  <2>1. \A r \in Threads : pc'[r] \in Waiting => pc[r] \in Waiting
    BY <1>3 DEF Waiting
  <2>2. QED
    BY <1>2, <1>4, <2>1 DEF Order, WaitOrder
<1>8. ClientOrder'
  BY <1>2 DEF Order, ClientOrder
<1>9. PICK e \in Items : /\ e.msg = u
                         /\ pc[t] = "wsize" => e = Size(u)
                         /\ pc[t] = "wbody" => e = Body(u)
                         /\ down' = [down EXCEPT ![l] = Append(down[l], e)] \/ down' = down
  <2>1. CASE WriteSize(t)
    <3>1. /\ pc[t] = "wsize"
          /\ down' = [down EXCEPT ![l] = Append(down[l], Size(u))] \/ down' = down
      BY <2>1 DEF WriteSize, Write
    <3>2. QED
      BY <1>1, <3>1, ItemShape
  <2>2. CASE WriteBody(t)
    <3>1. /\ pc[t] = "wbody"
          /\ down' = [down EXCEPT ![l] = Append(down[l], Body(u))] \/ down' = down
      BY <2>2 DEF WriteBody, Write
    <3>2. QED
      BY <1>1, <3>1, ItemShape
  <2>3. QED
    BY <2>1, <2>2
<1> DEFINE q == down[l]
<1>10. /\ \A w \in Reached(l) : Before(w, u)
       /\ \A i \in 1..Len(q) : \/ Before(q[i].msg, u)
                               \/ pc[t] = "wbody" /\ q[i] = Size(u)
  BY <1>1 DEF Order, SendOrder
<1>11. \/ down' = down
       \/ /\ Len(down'[l]) = Len(q) + 1 /\ down'[l][Len(q) + 1] = e /\ Len(q) \in Nat
          /\ \A i \in 1..Len(q) : down'[l][i] = q[i]
          /\ \A k \in Links : k # l => down'[k] = down[k]
  <2> SUFFICES ASSUME down' = [down EXCEPT ![l] = Append(q, e)]
               PROVE  /\ Len(down'[l]) = Len(q) + 1 /\ down'[l][Len(q) + 1] = e /\ Len(q) \in Nat
                      /\ \A i \in 1..Len(q) : down'[l][i] = q[i]
                      /\ \A k \in Links : k # l => down'[k] = down[k]
    BY <1>9
  <2>1. q \in Seq(Items) /\ down'[l] = Append(q, e)
    BY <1>1
  <2>2. /\ Len(down'[l]) = Len(q) + 1 /\ down'[l][Len(q) + 1] = e /\ Len(q) \in Nat
        /\ \A i \in 1..Len(q) : down'[l][i] = q[i]
    <3> HIDE DEF q
    <3>1. /\ Len(Append(q, e)) = Len(q) + 1 /\ Append(q, e)[Len(q) + 1] = e /\ Len(q) \in Nat
          /\ \A i \in 1..Len(q) : Append(q, e)[i] = q[i]
      BY <1>9, <2>1, AppendProperties, LenProperties
    <3>2. QED
      BY <2>1, <3>1
  <2>3. QED
    BY <2>2
<1>b. ASSUME down' # down, NEW i \in 1..Len(down'[l])
      PROVE  \/ i \in 1..Len(q) /\ down'[l][i] = q[i]
             \/ i = Len(q) + 1 /\ down'[l][i] = e
  <2>1. /\ Len(down'[l]) = Len(q) + 1 /\ Len(q) \in Nat /\ down'[l][Len(q) + 1] = e
        /\ \A j \in 1..Len(q) : down'[l][j] = q[j]
    BY <1>b, <1>11
  <2>2. i \in 1..Len(q) \/ i = Len(q) + 1
    <3> HIDE DEF q
    <3>1. QED
      BY <1>b, <2>1
  <2>3. QED
    BY <1>b, <2>1, <2>2
<1> HIDE DEF u
<1>12. QueueOrder'
  <2> SUFFICES ASSUME NEW k \in Links, NEW i \in 1..Len(down'[k])
               PROVE  /\ \A w \in Reached(k) : Before(w, down'[k][i].msg)
                      /\ \A j \in 1..Len(down'[k]) : i < j =>
                           \/ Before(down'[k][i].msg, down'[k][j].msg)
                           \/ /\ down'[k][i].msg = down'[k][j].msg
                              /\ down'[k][i].part = "size" /\ down'[k][j].part = "body"
    BY <1>5 DEF QueueOrder
  <2>1. CASE k # l \/ down' = down
    <3>1. down'[k] = down[k]
      BY <1>11, <2>1
    <3>2. QED
      BY <3>1 DEF Order, QueueOrder
  <2>2. CASE k = l /\ down' # down
    <3>1. /\ Len(down'[l]) = Len(q) + 1 /\ down'[l][Len(q) + 1] = e /\ Len(q) \in Nat
          /\ \A j \in 1..Len(q) : down'[l][j] = q[j]
      BY <1>11, <2>2
    <3>2. \A w \in Reached(k) : Before(w, down'[k][i].msg)
      <4>1. CASE i \in 1..Len(q)
        BY <2>2, <3>1, <4>1 DEF Order, QueueOrder
      <4>2. CASE i = Len(q) + 1
        BY <1>9, <1>10, <2>2, <3>1, <4>2
      <4>3. QED
        BY <2>2, <3>1, <4>1, <4>2
    <3>3. ASSUME NEW j \in 1..Len(down'[l]), i < j
          PROVE  \/ Before(down'[l][i].msg, down'[l][j].msg)
                 \/ /\ down'[l][i].msg = down'[l][j].msg
                    /\ down'[l][i].part = "size" /\ down'[l][j].part = "body"
      <4>1. i \in 1..Len(q) /\ (j \in 1..Len(q) \/ j = Len(q) + 1)
        BY <2>2, <3>1, <3>3
      <4>2. CASE j \in 1..Len(q)
        <5>1. \/ Before(q[i].msg, q[j].msg)
              \/ /\ q[i].msg = q[j].msg
                 /\ q[i].part = "size" /\ q[j].part = "body"
          BY <1>1, <3>3, <4>1, <4>2 DEF Order, QueueOrder
        <5>2. down'[l][i] = q[i] /\ down'[l][j] = q[j]
          BY <3>1, <4>1, <4>2
        <5>3. QED
          BY <5>1, <5>2
      <4>3. CASE j = Len(q) + 1
        <5>1. down'[l][i] = q[i] /\ down'[l][j] = e /\ e.msg = u
          BY <1>9, <3>1, <4>1, <4>3
        <5>2. Before(q[i].msg, u) \/ (pc[t] = "wbody" /\ q[i] = Size(u))
          BY <1>10, <4>1
        <5>3. pc[t] = "wbody" /\ q[i] = Size(u) =>
                q[i].msg = u /\ q[i].part = "size" /\ e.part = "body"
          BY <1>1, <1>9, ItemShape DEF u
        <5>4. QED
          BY <5>1, <5>2, <5>3
      <4>4. QED
        BY <4>1, <4>2, <4>3
    <3>4. QED
      BY <2>2, <3>2, <3>3
  <2>3. QED
    BY <2>1, <2>2
<1>13. SendOrder'
  <2> SUFFICES ASSUME NEW r \in Threads, pc'[r] \in Sending
               PROVE  /\ \A w \in Reached(Home(r))' : Before(w, req'[r])
                      /\ \A i \in 1..Len(down'[Home(r)]) :
                           \/ Before(down'[Home(r)][i].msg, req'[r])
                           \/ pc'[r] = "wbody" /\ down'[Home(r)][i] = Size(req'[r])
    BY DEF SendOrder
  <2>1. CASE r = t
    <3>1. pc'[t] = "wbody" /\ e = Size(u) /\ pc[t] = "wsize"
      BY <1>3, <1>9, <2>1 DEF Sending
    <3>2. \A i \in 1..Len(q) : Before(q[i].msg, u)
      BY <1>10, <3>1
    <3>3. \A i \in 1..Len(down'[l]) : Before(down'[l][i].msg, u) \/ down'[l][i] = Size(u)
      BY <1>b, <1>11, <3>1, <3>2
    <3>4. QED
      BY <1>1, <1>2, <1>5, <1>10, <2>1, <3>1, <3>3 DEF u
  <2>2. CASE r # t
    <3>1. pc'[r] = pc[r] /\ req'[r] = req[r] /\ Home(r) \in Links /\ pc[r] \in Sending
      BY <1>2, <1>3, <2>2 DEF Bound, Sending, Forwarding
    <3>2. /\ \A w \in Reached(Home(r)) : Before(w, req[r])
          /\ \A i \in 1..Len(down[Home(r)]) :
               \/ Before(down[Home(r)][i].msg, req[r])
               \/ pc[r] = "wbody" /\ down[Home(r)][i] = Size(req[r])
      BY <3>1 DEF Order, SendOrder
    <3>3. CASE Home(r) # l \/ down' = down
      <4>1. down'[Home(r)] = down[Home(r)]
        BY <1>11, <3>1, <3>3
      <4>2. QED
        BY <1>5, <3>1, <3>2, <4>1
    <3>4. CASE Home(r) = l /\ down' # down
      <4>1. Before(u, req[r])
        BY <1>1, <2>2, <3>1, <3>4, OtherClient DEF Before, Order, Sending, Idle, u
      <4>2. \A i \in 1..Len(down'[l]) : \/ Before(down'[l][i].msg, req[r])
                                        \/ pc[r] = "wbody" /\ down'[l][i] = Size(req[r])
        BY <1>9, <1>b, <3>2, <3>4, <4>1
      <4>3. QED
        BY <1>5, <3>1, <3>2, <3>4, <4>2
    <3>5. QED
      BY <3>3, <3>4
  <2>3. QED
    BY <2>1, <2>2
<1>14. QED
  BY <1>6, <1>7, <1>8, <1>12, <1>13 DEF Order

LEMMA OrderThread ==
  ASSUME TInv, Upstream, Order, NEW t \in Threads, Handler(t)
  PROVE  Order'
<1> USE DEF TInv, TypeOK
<1>1. CASE ReceiveFromClient(t)
  BY <1>1, OrderFromClient
<1>2. CASE ReceiveForwarded(t) \/ ReceiveMixture(t)
  BY <1>2, TakesShape, OrderReceive DEF ReceiveForwarded, ReceiveMixture, Misframed
<1>3. CASE ReceiveScrambled(t) \/ ReceiveCrash(t) \/ ReceiveEnd(t)
  BY <1>3, LeavesShape, OrderLeaves
<1>4. CASE InvokePut(t)
  BY <1>4, OrderExecute DEF InvokePut, Goto, Waiting, linkVars, clientVars
\* A step inside a request that leaves tables and queues to the successor alone.
<1>5. ASSUME UNCHANGED <<applied, down, cmd, issued, ans, req>>,
             NEW p \in {"rm", "reply", "rbody"}, pc' = [pc EXCEPT ![t] = p],
             p = "rm" => pc[t] \in Waiting
      PROVE  Order'
  <2>1. \A r \in Threads : pc'[r] \in Waiting => pc[r] \in Waiting
    BY <1>5 DEF Waiting
  <2>2. \A r \in Threads : pc'[r] \in Sending => pc[r] = pc'[r]
    BY <1>5 DEF Sending
  <2>3. \A c \in Writers : pc'[c] = "recv" => pc[c] = "recv"
    BY <1>5 DEF Threads
  <2>4. QED
    BY <1>5, <2>1, <2>2, <2>3, OrderKept
<1>6. CASE InvokeDelCheck(t)
  <2>1. /\ pc[t] = "del" /\ UNCHANGED <<applied, down, cmd, issued, ans, req>>
        /\ pc' = [pc EXCEPT ![t] = "reply"] \/ pc' = [pc EXCEPT ![t] = "rm"]
    BY <1>6 DEF InvokeDelCheck, Goto, Refuse, linkVars, clientVars
  <2>2. QED
    BY <1>5, <2>1 DEF Waiting
<1>7. CASE InvokeDelRemove(t)
  <2>1. pc[t] = "rm" /\ UNCHANGED <<down, cmd, issued, ans, req>>
    BY <1>7 DEF InvokeDelRemove, linkVars, clientVars
  <2>2. CASE Goto(t, "rm", "reply") /\ Refuse(t)
    BY <1>5, <2>1, <2>2 DEF Goto, Refuse
  <2>3. CASE Goto(t, "rm", AfterSuccess(t)) /\ Execute(t, Absent)
    BY <2>1, <2>3, OrderExecute DEF Goto, Waiting
  <2>4. QED
    BY <1>7, <2>2, <2>3 DEF InvokeDelRemove
<1>8. CASE WriteSize(t) \/ WriteBody(t)
  BY <1>8, OrderWrite
<1>9. CASE ReadSize(t) \/ ReadBody(t) \/ ReadBodyAsSize(t) \/ ReadEnd(t) \/ ReadOutOfStep(t)
  <2>1. /\ UNCHANGED <<applied, down, cmd, issued, ans, req>>
        /\ pc' = [pc EXCEPT ![t] = "reply"] \/ pc' = [pc EXCEPT ![t] = "rbody"]
    BY <1>9 DEF ReadSize, ReadBody, ReadBodyAsSize, ReadEnd, ReadOutOfStep,
                Goto, linkVars, clientVars
  <2>2. QED
    BY <1>5, <2>1
<1>10. CASE ReplyToClient(t) \/ ReplyUpstream(t)
  <2>1. /\ pc' = [pc EXCEPT ![t] = "recv"] /\ UNCHANGED <<applied, down, cmd, issued>>
        /\ \A r \in Threads : r # t => req'[r] = req[r]
    BY <1>10 DEF ReplyToClient, ReplyUpstream, Goto, linkVars, clientVars
  <2>2. \A r \in Threads : /\ pc'[r] \in Waiting => pc[r] \in Waiting /\ req'[r] = req[r]
                           /\ pc'[r] \in Sending => pc[r] = pc'[r] /\ req'[r] = req[r]
    BY <2>1 DEF Waiting, Sending
  <2>3. ASSUME NEW c \in Writers, ans'[c] = None, pc'[c] = "recv"
        PROVE  ans[c] = None /\ pc[c] = "recv"
    <3>1. c \in Threads /\ c \in Clients
      BY DEF Threads, Clients
    <3>2. CASE c = t
      <4>1. ans'[c] = res[c]
        BY <1>10, <3>1, <3>2, HomeType DEF ReplyToClient, ReplyUpstream
      <4>2. QED
        BY <2>3, <3>1, <4>1, ChainAssumption
    <3>3. CASE c # t
      <4>1. ans'[c] = ans[c] /\ pc'[c] = pc[c]
        BY <1>10, <2>1, <3>1, <3>3 DEF ReplyToClient, ReplyUpstream, clientVars
      <4>2. QED
        BY <2>3, <4>1
    <3>4. QED
      BY <3>2, <3>3
  <2>4. QED
    BY <2>1, <2>2, <2>3, OrderKept
<1>11. QED
  BY <1>1, <1>2, <1>3, <1>4, <1>6, <1>7, <1>8, <1>9, <1>10 DEF Handler, Progress, OutOfStep

LEMMA OrderStep == TInv /\ Upstream /\ Order /\ [Next]_vars => Order'
<1> SUFFICES ASSUME TInv, Upstream, Order, [Next]_vars PROVE Order'
  OBVIOUS
<1>1. CASE \E c \in Clients : Client(c) \/ ServeGet(c)
  BY <1>1, OrderClient
<1>2. CASE \E t \in Threads : Handler(t)
  BY <1>2, OrderThread
<1>3. CASE UNCHANGED vars
  BY <1>3, OrderKept DEF vars
<1>4. QED
  BY <1>1, <1>2, <1>3 DEF Next

LEMMA UpstreamAlways == Spec => []Upstream
  BY TInvAlways, UpstreamInit, UpstreamStep, PTL DEF Spec

LEMMA OrderAlways == Spec => []Order
  BY TInvAlways, UpstreamAlways, OrderInit, OrderStep, PTL DEF Spec

\* Every server executes the updates of one client in the order of their issue
\* and none of them twice, for any number of clients, although the head's
\* threads mix their frames on one socket and read each other's answers.
THEOREM ClientOrderAlways == Spec => []ClientOrder
<1>1. Order => ClientOrder
  BY DEF Order
<1>2. QED
  BY <1>1, OrderAlways, PTL

-----------------------------------------------------------------------------
(* Keys that one client writes converge *)

\* What server l executed and server l+1 may still have to execute.
Pending(l) == {u \in Updates :
  \/ \E i \in 1..Len(down[l]) : down[l][i].msg = u
  \/ pc[l+1] \in Waiting /\ req[l+1] = u
  \/ \E t \in Threads : Home(t) = l /\ pc[t] \in Sending /\ req[t] = u}

\* One client wrote all the updates of key k that server l executed.
Lone(l, k) == \A u, v \in Executed(l) : u.key = k /\ v.key = k => u.by = v.by

\* u is the last update of key k on its way over link l.
Last(l, k, u) == /\ u \in Pending(l) /\ u.key = k
                 /\ \A v \in Pending(l) : v.key = k => v.nth <= u.nth

\* The entry of such a key at server l is what the last update on its way writes.
LinkLast(l) == conn[l] = "open" => \A k \in Keys : Lone(l, k) =>
  /\ \A u \in Pending(l) : Last(l, k, u) => table[l][k] = u.val
  /\ (\A u \in Pending(l) : u.key # k) => table[l+1][k] = table[l][k]

LastPending == \A l \in Links : LinkLast(l)

LEMMA PendingExecuted ==
  ASSUME TInv, Upstream, NEW l \in Links, NEW u \in Pending(l)
  PROVE  u \in Updates /\ u \in Executed(l)
<1>1. CASE \E i \in 1..Len(down[l]) : down[l][i].msg = u
  BY <1>1 DEF Upstream, Pending
<1>2. CASE pc[l+1] \in Waiting /\ req[l+1] = u
  BY <1>2, UpstreamLink DEF Waiting, Idle, Pending
<1>3. CASE \E t \in Threads : Home(t) = l /\ pc[t] \in Sending /\ req[t] = u
  BY <1>3 DEF Upstream, Sending, Pending
<1>4. QED
  BY <1>1, <1>2, <1>3 DEF Pending

LEMMA PendingSame ==
  ASSUME NEW l \in Links, down'[l] = down[l],
         pc[l+1] \in Waiting <=> pc'[l+1] \in Waiting,
         pc[l+1] \in Waiting => req'[l+1] = req[l+1],
         \A t \in Threads : Home(t) = l =>
           /\ pc[t] \in Sending <=> pc'[t] \in Sending
           /\ pc[t] \in Sending => req'[t] = req[t]
  PROVE  Pending(l)' = Pending(l)
<1>1. ASSUME NEW u \in Updates PROVE u \in Pending(l)' <=> u \in Pending(l)
  BY DEF Pending
<1>2. QED
  BY <1>1 DEF Pending

LEMMA LinkLastKept ==
  ASSUME NEW l \in Links, LinkLast(l), Pending(l)' = Pending(l), table'[l] = table[l],
         table'[l+1] = table[l+1], Executed(l) \subseteq Executed(l)',
         conn'[l] = "open" => conn[l] = "open"
  PROVE  LinkLast(l)'
<1> SUFFICES ASSUME conn'[l] = "open", NEW k \in Keys, Lone(l, k)'
             PROVE  /\ \A u \in Pending(l) : Last(l, k, u)' => table[l][k] = u.val
                    /\ (\A u \in Pending(l) : u.key # k) => table[l+1][k] = table[l][k]
  BY DEF LinkLast
<1>1. Lone(l, k)
  BY DEF Lone
<1>2. \A u : Last(l, k, u)' <=> Last(l, k, u)
  BY DEF Last
<1>3. QED
  BY <1>1, <1>2 DEF LinkLast

\* The sender executes: its request becomes the last on its way.
LEMMA LinkLastSender ==
  ASSUME TInv, Upstream, Order, NEW l \in Links, LinkLast(l),
         NEW t \in Threads, Home(t) = l, pc[t] \in Waiting, Execute(t, req[t].val),
         pc' = [pc EXCEPT ![t] = "wsize"], UNCHANGED <<req, down, conn>>
  PROVE  LinkLast(l)'
<1> USE DEF TInv, TypeOK
<1> DEFINE u == req[t]
<1>1. u \in Updates /\ l \in Servers /\ l + 1 \in Servers /\ l + 1 # l /\ pc[t] \notin Idle
  BY LinkShape DEF Bound, Waiting, Idle, Links
<1>2. Executed(l)' = Executed(l) \cup {u}
  BY <1>1, ExecutedGrows
<1>3. /\ table'[l+1] = table[l+1]
      /\ \A k \in Keys : table'[l][k] = IF k = u.key THEN u.val ELSE table[l][k]
  BY <1>1 DEF Execute
<1>4. \A w \in Updates : w \in Pending(l)' <=> w \in Pending(l) \/ w = u
  <2>1. \A r \in Threads : Home(r) = l =>
          (pc'[r] \in Sending <=> pc[r] \in Sending \/ r = t)
    BY DEF Sending
  <2>2. l + 1 # t /\ l + 1 \in Threads
    BY LinkEnds
  <2>3. QED
    BY <2>1, <2>2 DEF Pending
<1>5. \A w \in Executed(l) : Before(w, u)
  BY DEF Order, WaitOrder
<1> SUFFICES ASSUME conn[l] = "open", NEW k \in Keys, Lone(l, k)'
             PROVE  /\ \A w \in Pending(l)' : Last(l, k, w)' => table'[l][k] = w.val
                    /\ (\A w \in Pending(l)' : w.key # k) => table'[l+1][k] = table'[l][k]
  BY DEF LinkLast
<1>6. Lone(l, k)
  BY <1>2 DEF Lone
<1>7. \A w \in Pending(l)' : w \in Updates
  BY DEF Pending
<1> HIDE DEF u
<1>8. CASE k # u.key
  <2>1. table'[l][k] = table[l][k]
    BY <1>3, <1>8
  <2>2. \A w \in Pending(l)' : Last(l, k, w)' => w \in Pending(l) /\ Last(l, k, w)
    BY <1>4, <1>7, <1>8 DEF Last, Pending
  <2>3. (\A w \in Pending(l)' : w.key # k) => (\A w \in Pending(l) : w.key # k)
    BY <1>4 DEF Pending
  <2>4. QED
    BY <1>3, <1>6, <2>1, <2>2, <2>3 DEF LinkLast
<1>9. CASE k = u.key
  <2>1. table'[l][k] = u.val /\ u \in Pending(l)'
    BY <1>1, <1>3, <1>4, <1>9 DEF u
  <2>2. ASSUME NEW w \in Pending(l)', Last(l, k, w)', w # u PROVE FALSE
    <3>1. w \in Updates /\ w \in Executed(l) /\ w.key = k
      BY <1>4, <1>7, <2>2, PendingExecuted DEF Last
    <3>2. w.by = u.by
      BY <1>2, <1>9, <3>1 DEF Lone
    <3>3. w.nth < u.nth
      BY <1>5, <3>1, <3>2 DEF Before
    <3>4. u.nth <= w.nth
      BY <1>9, <2>1, <2>2 DEF Last
    <3>5. w.nth \in Nat /\ u.nth \in Nat
      BY <1>1, <3>1, UpdateShape, ChainAssumption DEF u
    <3>6. QED
      BY <3>3, <3>4, <3>5
  <2>3. QED
    BY <1>9, <2>1, <2>2
<1>10. QED
  BY <1>8, <1>9

\* The successor executes, or finds nothing to delete: that update is done with.
LEMMA LinkLastServer ==
  ASSUME TInv, Upstream, Order, NEW l \in Links, LinkLast(l),
         NEW s, s = l + 1, pc[s] \in Waiting, pc'[s] \notin Waiting,
         \A t \in Threads : t # s => pc'[t] = pc[t],
         table'[l] = table[l],
         \A k \in Keys : table'[s][k] = IF k = req[s].key THEN req[s].val ELSE table[s][k],
         Executed(l)' = Executed(l), UNCHANGED <<req, down, conn>>
  PROVE  LinkLast(l)'
<1> USE DEF TInv, TypeOK
<1> DEFINE u == req[s]
<1>1. s \in Threads /\ l + 1 = s /\ Home(s) = s /\ s # l /\ u \in Updates /\ s \in Servers
  <2>1. /\ l + 1 \in Threads /\ Home(l + 1) = l + 1 /\ l + 1 \in Servers
        /\ l \in Int /\ l + 1 # l
    BY LinkShape, ChainAssumption DEF Links
  <2>2. s \in Threads /\ l + 1 = s /\ Home(s) = s /\ s # l /\ s \in Servers
    BY <2>1
  <2>3. u \in Updates
    BY <2>2 DEF Bound, Waiting, Idle
  <2>4. QED
    BY <2>2, <2>3
<1>2. u \in Pending(l) /\ u \in Reached(l)
  BY <1>1 DEF Pending, Reached
<1>3. \A r \in Threads : Home(r) = l => r # s
  BY <1>1
<1>4. \A w \in Updates : /\ w \in Pending(l)' => w \in Pending(l) /\ Before(u, w)
                         /\ w \in Pending(l) => w = u \/ w \in Pending(l)'
  <2> SUFFICES ASSUME NEW w \in Updates
               PROVE  /\ w \in Pending(l)' => w \in Pending(l) /\ Before(u, w)
                      /\ w \in Pending(l) => w = u \/ w \in Pending(l)'
    OBVIOUS
  <2>1. w \in Pending(l)' <=>
          \/ \E i \in 1..Len(down[l]) : down[l][i].msg = w
          \/ \E t \in Threads : Home(t) = l /\ pc[t] \in Sending /\ req[t] = w
    BY <1>1, <1>3 DEF Pending
  <2>2. ASSUME NEW i \in 1..Len(down[l]) PROVE Before(u, down[l][i].msg)
    BY <1>2 DEF Order, QueueOrder
  <2>3. ASSUME NEW t \in Threads, Home(t) = l, pc[t] \in Sending PROVE Before(u, req[t])
    BY <1>2, <2>3 DEF Order, SendOrder
  <2>4. w \in Pending(l)' => Before(u, w)
    BY <2>1, <2>2, <2>3
  <2>5. w \in Pending(l) <=> w = u \/ w \in Pending(l)'
    BY <1>1, <2>1 DEF Pending
  <2>6. QED
    BY <2>4, <2>5
<1> SUFFICES ASSUME conn[l] = "open", NEW k \in Keys, Lone(l, k)'
             PROVE  /\ \A w \in Pending(l)' : Last(l, k, w)' => table'[l][k] = w.val
                    /\ (\A w \in Pending(l)' : w.key # k) => table'[s][k] = table'[l][k]
  BY DEF LinkLast
<1>5. Lone(l, k)
  BY DEF Lone
<1>6. /\ \A w \in Pending(l) : Last(l, k, w) => table[l][k] = w.val
      /\ (\A w \in Pending(l) : w.key # k) => table[s][k] = table[l][k]
  BY <1>5 DEF LinkLast
<1>7. /\ \A w \in Pending(l) : w \in Updates /\ w.nth \in Nat
      /\ \A w \in Pending(l)' : w \in Updates /\ w.nth \in Nat
  BY UpdateShape, ChainAssumption DEF Pending
<1> HIDE DEF u
<1>8. CASE k # u.key
  <2>1. \A w \in Pending(l) : w.key = k => w \in Pending(l)'
    BY <1>4, <1>7, <1>8
  <2>2. \A w \in Pending(l)' : Last(l, k, w)' => w \in Pending(l) /\ Last(l, k, w)
    BY <1>4, <1>7, <2>1 DEF Last
  <2>3. (\A w \in Pending(l)' : w.key # k) => (\A w \in Pending(l) : w.key # k)
    BY <2>1
  <2>4. table'[s][k] = table[s][k]
    BY <1>8 DEF u
  <2>5. QED
    BY <1>6, <2>2, <2>3, <2>4
<1>9. CASE k = u.key
  <2>1. table'[s][k] = u.val
    BY <1>9 DEF u
  <2>2. ASSUME NEW w \in Pending(l)', Last(l, k, w)' PROVE table'[l][k] = w.val
    <3>1. w \in Updates /\ w \in Pending(l) /\ w.key = k /\ Before(u, w)
      BY <1>4, <1>7, <2>2 DEF Last
    <3>2. w.by = u.by
      BY <1>2, <1>5, <1>9, <3>1, PendingExecuted DEF Lone
    <3>3. u.nth < w.nth
      BY <3>1, <3>2 DEF Before
    <3>4. \A x \in Pending(l) : x.key = k => x.nth <= w.nth
      <4> SUFFICES ASSUME NEW x \in Pending(l), x.key = k PROVE x.nth <= w.nth
        OBVIOUS
      <4>1. CASE x = u
        BY <1>7, <3>1, <3>3, <4>1
      <4>2. CASE x # u
        BY <1>4, <1>7, <2>2, <4>2 DEF Last
      <4>3. QED
        BY <4>1, <4>2
    <3>5. QED
      BY <1>6, <3>1, <3>4 DEF Last
  <2>3. ASSUME \A w \in Pending(l)' : w.key # k PROVE table'[s][k] = table'[l][k]
    <3>1. \A w \in Pending(l) : w.key = k => w = u
      BY <1>4, <1>7, <2>3
    <3>2. Last(l, k, u)
      BY <1>2, <1>7, <1>9, <3>1 DEF Last
    <3>3. QED
      BY <1>2, <1>6, <2>1, <3>2
  <2>4. QED
    BY <2>2, <2>3
<1>10. QED
  BY <1>8, <1>9

\* A follower takes a frame: what is on its way stays the same.
LEMMA PendingReceive ==
  ASSUME TInv, NEW s \in Followers, ReceiveForwarded(s), NEW l \in Links
  PROVE  Pending(l)' = Pending(l)
<1> USE DEF TInv, TypeOK
<1> DEFINE k == s - 1
           q == down[k]
           u == q[1].msg
<1>1. k \in Links /\ s \in Threads /\ Home(s) = s /\ s \notin Writers
  BY HomeType, FollowersAlone
<1>2. q \in Seq(Items) /\ Len(q) >= 2 /\ q[2] = Body(u) /\ pc[s] = "recv"
  BY <1>1 DEF ReceiveForwarded, InStep, Accept, Goto
<1>3. u \in Updates
  BY <1>2, QueuedShape
<1>4. u.op \in {"put", "del"} /\ q[2].msg = u
  BY <1>2, <1>3, UpdateShape, ItemShape
<1>5. /\ pc' = [pc EXCEPT ![s] = u.op] /\ req' = [req EXCEPT ![s] = u]
      /\ down' = [down EXCEPT ![k] = SubSeq(q, 3, Len(q))]
  BY DEF ReceiveForwarded, Accept, Goto
<1>6. /\ Len(down'[k]) = Len(q) - 2 /\ Len(q) \in Nat
      /\ \A i \in 1..Len(down'[k]) : i + 2 \in 1..Len(q) /\ down'[k][i] = q[i+2]
  <2>1. down'[k] = SubSeq(q, 3, Len(q))
    BY <1>1, <1>5
  <2> HIDE DEF q
  <2>2. Len(q) \in Nat /\ 3 \in 2..Len(q) + 1
    BY <1>2, LenProperties
  <2>3. /\ Len(down'[k]) = Len(q) + 1 - 3
        /\ \A i \in 1..Len(down'[k]) : i + 3 - 1 \in 1..Len(q) /\ down'[k][i] = q[i + 3 - 1]
    <3>1. PICK m \in 2..Len(q) + 1 : m = 3
      BY <2>2
    <3>2. down'[k] = SubSeq(q, m, Len(q)) /\ q \in Seq(Items)
      BY <1>2, <2>1, <3>1
    <3>3. LET r == SubSeq(q, m, Len(q)) IN
          /\ Len(r) = Len(q) + 1 - m
          /\ \A i \in 1..Len(r) : i + m - 1 \in 1..Len(q) /\ r[i] = q[i + m - 1]
      BY ONLY <3>2, m \in 2..Len(q) + 1, QueueTail
    <3>4. QED
      BY ONLY <3>1, <3>2, <3>3
  <2>4. \A i \in 1..Len(down'[k]) : i + 3 - 1 = i + 2
    OBVIOUS
  <2>5. Len(q) + 1 - 3 = Len(q) - 2
    BY <2>2
  <2>6. QED
    BY <2>2, <2>3, <2>4, <2>5
<1>7. \A t \in Threads : /\ pc[t] \in Sending <=> pc'[t] \in Sending
                         /\ pc[t] \in Sending => req'[t] = req[t]
  BY <1>2, <1>4, <1>5 DEF Sending
<1>8. CASE l # k
  <2>1. l + 1 # s /\ l + 1 \in Threads
    <3>1. l \in Int /\ s \in Int
      BY ChainAssumption DEF Links, Followers
    <3>2. l + 1 \in Threads
      BY LinkShape
    <3>3. QED
      BY <1>8, <3>1, <3>2
  <2>2. QED
    BY <1>5, <1>7, <1>8, <2>1, PendingSame
<1>9. CASE l = k
  <2>1. PICK n : n = l + 1
    OBVIOUS
  <2>2. n = s
    BY <1>9, <2>1, ChainAssumption DEF Followers
  <2>3. ASSUME NEW w \in Updates
        PROVE  (\E i \in 1..Len(q) : q[i].msg = w)
                 <=> w = u \/ (\E i \in 1..Len(down'[k]) : down'[k][i].msg = w)
    <3>1. ASSUME NEW i \in 1..Len(q), q[i].msg = w, w # u
          PROVE  \E j \in 1..Len(down'[k]) : down'[k][j].msg = w
      <4>1. i # 1 /\ i # 2
        BY <1>4, <3>1
      <4>2. i - 2 \in 1..Len(down'[k]) /\ i - 2 + 2 = i
        <5> HIDE DEF q
        <5>1. QED
          BY <1>6, <4>1
      <4>3. down'[k][i-2] = q[i]
        <5>1. down'[k][i-2] = q[i-2+2]
          BY <1>6, <4>2
        <5>2. QED
          BY <4>2, <5>1
      <4>4. QED
        BY <3>1, <4>2, <4>3
    <3>2. u = q[1].msg /\ 1 \in 1..Len(q)
      BY <1>2
    <3>3. \A j \in 1..Len(down'[k]) : \E i \in 1..Len(q) : down'[k][j].msg = q[i].msg
      BY <1>6
    <3>4. QED
      BY <3>1, <3>2, <3>3
  <2> HIDE DEF u, q
  <2>4. ASSUME NEW w \in Updates
        PROVE  w \in Pending(l) <=>
                 \/ \E i \in 1..Len(q) : q[i].msg = w
                 \/ \E t \in Threads : Home(t) = l /\ pc[t] \in Sending /\ req[t] = w
    <3>1. pc[l+1] \notin Waiting
      BY <1>2, <2>1, <2>2 DEF Waiting
    <3>2. QED
      BY <1>9, <3>1 DEF Pending, q
  <2>5. ASSUME NEW w \in Updates
        PROVE  w \in Pending(l)' <=>
                 \/ \E i \in 1..Len(down'[k]) : down'[k][i].msg = w
                 \/ w = u
                 \/ \E t \in Threads : Home(t) = l /\ pc[t] \in Sending /\ req[t] = w
    <3>1. pc'[l+1] \in Waiting /\ req'[l+1] = u
      BY <1>1, <1>4, <1>5, <2>1, <2>2 DEF Waiting
    <3>2. (\E t \in Threads : Home(t) = l /\ pc'[t] \in Sending /\ req'[t] = w)
            <=> (\E t \in Threads : Home(t) = l /\ pc[t] \in Sending /\ req[t] = w)
      BY <1>7
    <3>3. QED
      BY <1>9, <3>1, <3>2 DEF Pending
  <2>6. \A w \in Updates : w \in Pending(l)' <=> w \in Pending(l)
    BY <2>3, <2>4, <2>5
  <2>7. QED
    BY <2>6 DEF Pending
<1>10. QED
  BY <1>8, <1>9

\* A thread writes on an open link: what is on its way stays the same.
LEMMA PendingWrite ==
  ASSUME TInv, NEW t \in Threads, WriteSize(t) \/ WriteBody(t), NEW l \in Links,
         conn[l] = "open"
  PROVE  Pending(l)' = Pending(l)
<1> USE DEF TInv, TypeOK
<1> DEFINE u == req[t]
           h == Home(t)
           q == down[h]
<1>1. pc[t] \in Sending /\ h \in Links /\ u \in Updates /\ req' = req
  BY DEF WriteSize, WriteBody, Write, Bound, Idle, Forwarding, Sending
<1>2. /\ \A r \in Threads : r # t => pc'[r] = pc[r]
      /\ pc'[t] \in {"wbody", "rsize", "spin"}
  BY DEF WriteSize, WriteBody, Write
<1>3. \A r \in Threads : pc'[r] \in Waiting <=> pc[r] \in Waiting
  BY <1>1, <1>2 DEF Waiting, Sending
<1>4. l + 1 \in Threads
  BY LinkShape
<1>5. CASE h # l
  <2>1. down'[l] = down[l]
    BY <1>5 DEF WriteSize, WriteBody, Write
  <2>2. \A r \in Threads : Home(r) = l => pc'[r] = pc[r]
    BY <1>2, <1>5
  <2>3. QED
    BY <1>1, <1>3, <1>4, <2>1, <2>2, PendingSame
<1>6. CASE h = l
  <2>1. PICK e \in Items : e.msg = u /\ down' = [down EXCEPT ![h] = Append(q, e)]
    BY <1>1, <1>6, ItemShape DEF WriteSize, WriteBody, Write
  <2>2. /\ Len(down'[l]) = Len(q) + 1 /\ down'[l][Len(q) + 1] = e /\ Len(q) \in Nat
        /\ \A i \in 1..Len(q) : down'[l][i] = q[i]
    <3>1. q \in Seq(Items) /\ down'[l] = Append(q, e)
      BY <1>1, <1>6, <2>1
    <3> HIDE DEF q
    <3>2. /\ Len(Append(q, e)) = Len(q) + 1 /\ Append(q, e)[Len(q) + 1] = e /\ Len(q) \in Nat
          /\ \A i \in 1..Len(q) : Append(q, e)[i] = q[i]
      BY <2>1, <3>1, AppendProperties, LenProperties
    <3>3. QED
      BY <3>1, <3>2
  <2>3. ASSUME NEW w
        PROVE  (\E i \in 1..Len(down'[l]) : down'[l][i].msg = w)
                 <=> w = u \/ (\E i \in 1..Len(q) : q[i].msg = w)
    <3>1. \A i \in 1..Len(down'[l]) : i \in 1..Len(q) \/ i = Len(q) + 1
      <4> HIDE DEF q
      <4>1. QED
        BY <2>2
    <3>2. 1..Len(q) \subseteq 1..Len(down'[l]) /\ Len(q) + 1 \in 1..Len(down'[l])
      <4> HIDE DEF q
      <4>1. QED
        BY <2>2
    <3> HIDE DEF q, u
    <3>3. QED
      BY <2>1, <2>2, <3>1, <3>2
  <2>4. ASSUME NEW w
        PROVE  (\E r \in Threads : Home(r) = l /\ pc[r] \in Sending /\ req[r] = w)
                 <=> \/ w = u
                     \/ \E r \in Threads : Home(r) = l /\ pc'[r] \in Sending /\ req[r] = w
    BY <1>1, <1>2, <1>6
  <2> HIDE DEF u, q
  <2>5. ASSUME NEW w \in Updates PROVE w \in Pending(l)' <=> w \in Pending(l)
    <3>1. w \in Pending(l) <=>
            \/ \E i \in 1..Len(q) : q[i].msg = w
            \/ pc[l+1] \in Waiting /\ req[l+1] = w
            \/ \E r \in Threads : Home(r) = l /\ pc[r] \in Sending /\ req[r] = w
      BY <1>6 DEF Pending, q
    <3>2. w \in Pending(l)' <=>
            \/ \E i \in 1..Len(down'[l]) : down'[l][i].msg = w
            \/ pc[l+1] \in Waiting /\ req[l+1] = w
            \/ \E r \in Threads : Home(r) = l /\ pc'[r] \in Sending /\ req[r] = w
      BY <1>1, <1>3, <1>4 DEF Pending
    <3>3. QED
      BY <2>3, <2>4, <3>1, <3>2
  <2>6. QED
    BY <2>5 DEF Pending
<1>7. QED
  BY <1>5, <1>6

\* A thread executes its request.
LEMMA LastExecute ==
  ASSUME TInv, Upstream, Order, LastPending, NEW t \in Threads, pc[t] \in Waiting,
         Execute(t, req[t].val), pc' = [pc EXCEPT ![t] = AfterSuccess(t)],
         UNCHANGED <<req, down, conn>>, NEW l \in Links
  PROVE  LinkLast(l)'
<1> USE DEF TInv, TypeOK
<1>1. /\ l \in Servers /\ l + 1 \in Servers /\ l + 1 \in Threads /\ Home(l+1) = l + 1
      /\ LinkLast(l)
  BY LinkShape DEF LastPending
<1>2. pc[t] \notin Idle /\ req[t] \in Updates /\ Home(t) \in Servers
  BY HomeType DEF Waiting, Idle, Bound
<1>3. \A r \in Servers : Executed(r) \subseteq Executed(r)' /\ (r # Home(t) => Executed(r)' = Executed(r))
  BY <1>2, ExecutedGrows
<1>4. /\ \A r \in Servers : r # Home(t) => table'[r] = table[r]
      /\ \A k \in Keys : table'[Home(t)][k] = IF k = req[t].key THEN req[t].val
                                              ELSE table[Home(t)][k]
  BY <1>2 DEF Execute
<1>5. CASE Home(t) = l
  <2>1. AfterSuccess(t) = "wsize"
    BY <1>5, ChainAssumption DEF AfterSuccess, Links
  <2>2. QED
    BY <1>1, <1>5, <2>1, LinkLastSender
<1>6. CASE Home(t) = l + 1
  <2>1. t = l + 1
    <3>1. l + 1 \in Followers
      BY LinkShape
    <3>2. l + 1 # 1
      <4>1. l \in Int /\ l >= 1
        BY ChainAssumption DEF Links
      <4>2. QED
        BY <4>1
    <3>3. QED
      BY <1>6, <3>1, <3>2, HomeType DEF Threads
  <2>2. PICK s : s = l + 1
    OBVIOUS
  <2>3. s = t /\ s # l
    BY <2>1, <2>2, ChainAssumption DEF Links
  <2>4. pc'[s] \notin Waiting /\ \A r \in Threads : r # s => pc'[r] = pc[r]
    BY <2>3, AfterSuccessType DEF Waiting
  <2>5. /\ table'[l] = table[l] /\ Executed(l)' = Executed(l) /\ Home(t) = s
        /\ LinkLast(l) /\ pc[s] \in Waiting
    BY <1>1, <1>3, <1>4, <1>6, <2>2, <2>3
  <2>6. \A k \in Keys : table'[s][k] = IF k = req[s].key THEN req[s].val ELSE table[s][k]
    BY <1>4, <2>3, <2>5
  <2>7. QED
    BY ONLY TInv, Upstream, Order, l \in Links, <2>2, <2>4, <2>5, <2>6,
       UNCHANGED <<req, down, conn>>, LinkLastServer
<1>7. CASE Home(t) # l /\ Home(t) # l + 1
  <2>1. t # l + 1
    BY <1>1, <1>7
  <2>2. \A r \in Threads : r # t => pc'[r] = pc[r]
    OBVIOUS
  <2>3. Pending(l)' = Pending(l)
    BY <1>1, <1>7, <2>1, <2>2, PendingSame
  <2>4. QED
    BY <1>1, <1>3, <1>4, <1>7, <2>3, LinkLastKept
<1>8. QED
  BY <1>5, <1>6, <1>7

\* A thread finds nothing to delete.
LEMMA LastRefuse ==
  ASSUME TInv, Upstream, Order, ServesOp, LastPending, NEW t \in Threads, pc[t] \in {"del", "rm"},
         table[Home(t)][req[t].key] = Absent, Refuse(t), pc' = [pc EXCEPT ![t] = "reply"],
         UNCHANGED <<req, down, conn>>, NEW l \in Links
  PROVE  LinkLast(l)'
<1> USE DEF TInv, TypeOK
<1>1. /\ l \in Servers /\ l + 1 \in Servers /\ l + 1 \in Threads /\ Home(l+1) = l + 1
      /\ LinkLast(l)
  BY LinkShape DEF LastPending
<1>2. UNCHANGED <<table, applied>> /\ \A r : Executed(r)' = Executed(r)
  BY ExecutedSame DEF Refuse
<1>3. \A r \in Threads : r # t => pc'[r] = pc[r]
  OBVIOUS
<1>4. CASE t = l + 1
  <2>1. PICK s : s = l + 1
    OBVIOUS
  <2>2. s = t /\ pc[s] \in Waiting /\ pc'[s] \notin Waiting /\ Home(s) = s
    BY <1>1, <1>4, <2>1 DEF Waiting
  <2>3. req[s].val = Absent
    BY <2>2, UpdateVal DEF ServesOp, Bound, Idle
  <2>4. \A k \in Keys : table'[s][k] = IF k = req[s].key THEN req[s].val ELSE table[s][k]
    BY <1>2, <2>2, <2>3
  <2>5. table'[l] = table[l] /\ Executed(l)' = Executed(l) /\ LinkLast(l)
    BY <1>1, <1>2
  <2>6. \A r \in Threads : r # s => pc'[r] = pc[r]
    BY <1>3, <2>2
  <2>7. QED
    BY ONLY TInv, Upstream, Order, l \in Links, <2>1, <2>2, <2>4, <2>5, <2>6,
       UNCHANGED <<req, down, conn>>, LinkLastServer
<1>5. CASE t # l + 1
  <2>1. \A r \in Threads : pc'[r] \in Sending <=> pc[r] \in Sending
    BY <1>3 DEF Sending
  <2>2. Pending(l)' = Pending(l)
    BY <1>1, <1>3, <1>5, <2>1, PendingSame
  <2>3. QED
    BY <1>1, <1>2, <2>2, LinkLastKept
<1>6. QED
  BY <1>4, <1>5

LEMMA LastThread ==
  ASSUME TInv, Upstream, Order, ServesOp, LastPending, NEW t \in Threads, Handler(t),
         NEW l \in Links
  PROVE  LinkLast(l)'
<1> USE DEF TInv, TypeOK
<1>0. l + 1 \in Threads /\ l + 1 \notin Writers /\ LinkLast(l)
  BY LinkShape, HomeType DEF LastPending
\* The tables stay, and so does what is on its way if the link stays open.
<1>1. ASSUME UNCHANGED <<table, applied>>, conn'[l] = "open" => conn[l] = "open",
             conn'[l] = "open" => Pending(l)' = Pending(l)
      PROVE  LinkLast(l)'
  <2>1. CASE conn'[l] = "open"
    BY <1>0, <1>1, <2>1, ExecutedSame, LinkLastKept
  <2>2. CASE conn'[l] # "open"
    BY <2>2 DEF LinkLast
  <2>3. QED
    BY <2>1, <2>2
\* The thread neither sends nor waits to execute, before and after.
<1>2. ASSUME UNCHANGED <<table, applied, down, conn>>,
             \A r \in Threads : /\ pc[r] \in Waiting <=> pc'[r] \in Waiting
                                /\ pc[r] \in Sending <=> pc'[r] \in Sending
                                /\ pc[r] \in Waiting \cup Sending => req'[r] = req[r]
      PROVE  LinkLast(l)'
  BY <1>0, <1>1, <1>2, PendingSame
<1>3. CASE ReceiveFromClient(t)
  <2>1. t \in Writers /\ cmd[t].op \in {"put", "del"} /\ t # l + 1
    BY <1>0, <1>3, UpdateShape DEF ReceiveFromClient
  <2>2. /\ pc[t] = "recv" /\ pc' = [pc EXCEPT ![t] = cmd[t].op]
        /\ req' = [req EXCEPT ![t] = cmd[t]] /\ UNCHANGED <<table, applied, down, conn>>
    BY <1>3 DEF ReceiveFromClient, Accept, Goto, linkVars
  <2>3. \A r \in Threads : /\ pc[r] \in Sending <=> pc'[r] \in Sending
                           /\ pc[r] \in Sending => req'[r] = req[r]
    BY <2>1, <2>2 DEF Sending
  <2>4. Pending(l)' = Pending(l)
    BY <1>0, <2>1, <2>2, <2>3, PendingSame
  <2>5. QED
    BY <1>1, <2>2, <2>4
<1>4. CASE ReceiveForwarded(t)
  BY <1>1, <1>4, PendingReceive DEF ReceiveForwarded
<1>5. CASE ReceiveScrambled(t) \/ ReceiveCrash(t) \/ ReceiveEnd(t)
  <2>1. Leaves(t) /\ t \in Followers /\ t - 1 \in Links
    BY <1>5, LeavesShape, HomeType
  <2>2. /\ pc[t] = "recv"
        /\ pc' = [pc EXCEPT ![t] = "gone"] \/ pc' = [pc EXCEPT ![t] = "crashed"]
        /\ conn' = [conn EXCEPT ![t-1] = "closed"] /\ down' = [down EXCEPT ![t-1] = <<>>]
        /\ UNCHANGED <<table, applied, req>>
    BY <2>1 DEF Leaves
  <2>3. \A r \in Threads : /\ pc[r] \in Sending <=> pc'[r] \in Sending
                           /\ pc[r] \in Waiting <=> pc'[r] \in Waiting
    BY <2>2 DEF Sending, Waiting
  <2>4. CASE l = t - 1
    BY <1>1, <2>1, <2>2, <2>4
  <2>5. CASE l # t - 1
    BY <1>0, <1>1, <2>2, <2>3, <2>5, PendingSame
  <2>6. QED
    BY <2>4, <2>5
\* Out of step, the link is not open any more, and the others stay the same.
<1>13. CASE ReceiveMixture(t)
  <2>1. t \in Followers /\ t - 1 \in Links /\ t - 1 + 1 = t
    BY <1>13, HomeType, ChainAssumption DEF ReceiveMixture, Misframed, Followers
  <2>2. PICK i \in 1..Len(down[t-1]), m \in 2..Len(down[t-1]) + 1 : TakesAt(t, i, m)
    BY <1>13, <2>1, TakesShape DEF Takes
  <2>3. down[t-1][i].msg \in Updates
    BY <2>1, QueuedShape
  <2>4. PICK p \in {"put", "del", "reply"} :
          /\ pc[t] = "recv" /\ pc' = [pc EXCEPT ![t] = p]
          /\ \A r \in Threads : r # t => req'[r] = req[r]
          /\ \A k \in Links : k # t - 1 => down'[k] = down[k]
          /\ UNCHANGED <<table, applied>>
    BY <2>2, <2>3, UpdateShape DEF TakesAt
  <2>5. conn' = [conn EXCEPT ![t-1] = "lost"]
    BY <1>13 DEF ReceiveMixture
  <2>6. CASE l = t - 1
    BY <1>1, <2>1, <2>4, <2>5, <2>6
  <2>7. CASE l # t - 1
    <3>1. l + 1 # t
      BY <2>1, <2>7, ChainAssumption DEF Links
    <3>2. \A r \in Threads : /\ pc[r] \in Sending <=> pc'[r] \in Sending
                             /\ pc[r] \in Sending => req'[r] = req[r]
      BY <2>4 DEF Sending
    <3>3. Pending(l)' = Pending(l)
      BY <1>0, <2>4, <2>7, <3>1, <3>2, PendingSame
    <3>4. QED
      BY <1>1, <2>4, <2>5, <3>3, <2>7
  <2>8. QED
    BY <2>6, <2>7
<1>6. CASE InvokePut(t)
  BY <1>6, LastExecute DEF InvokePut, Goto, Waiting, linkVars
<1>7. CASE InvokeDelCheck(t)
  <2>1. pc[t] = "del" /\ UNCHANGED <<req, down, conn>>
    BY <1>7 DEF InvokeDelCheck, linkVars
  <2>2. CASE table[Home(t)][req[t].key] = Absent
    BY <1>7, <2>1, <2>2, LastRefuse DEF InvokeDelCheck, Goto
  <2>3. CASE table[Home(t)][req[t].key] # Absent
    <3>1. pc' = [pc EXCEPT ![t] = "rm"] /\ UNCHANGED <<table, applied>>
      BY <1>7, <2>3 DEF InvokeDelCheck, Goto
    <3>2. QED
      BY <1>2, <2>1, <3>1 DEF Waiting, Sending
  <2>4. QED
    BY <2>2, <2>3
<1>8. CASE InvokeDelRemove(t)
  <2>1. /\ pc[t] = "rm" /\ UNCHANGED <<req, down, conn>>
        /\ req[t].val = Absent
    BY <1>8, UpdateVal DEF InvokeDelRemove, linkVars, ServesOp, Bound, Idle
  <2>2. CASE table[Home(t)][req[t].key] = Absent
    BY <1>8, <2>1, <2>2, LastRefuse DEF InvokeDelRemove, Goto
  <2>3. CASE table[Home(t)][req[t].key] # Absent
    BY <1>8, <2>1, <2>3, LastExecute DEF InvokeDelRemove, Goto, Waiting
  <2>4. QED
    BY <2>2, <2>3
<1>9. CASE WriteSize(t) \/ WriteBody(t)
  <2>1. UNCHANGED <<table, applied, conn>>
    BY <1>9 DEF WriteSize, WriteBody
  <2>2. QED
    BY <1>1, <1>9, <2>1, PendingWrite
<1>10. CASE ReadSize(t) \/ ReadBody(t) \/ ReadBodyAsSize(t) \/ ReadEnd(t) \/ ReadOutOfStep(t)
  <2>1. /\ pc[t] \in {"rsize", "rbody"} /\ UNCHANGED <<table, applied, down, conn, req>>
        /\ pc' = [pc EXCEPT ![t] = "reply"] \/ pc' = [pc EXCEPT ![t] = "rbody"]
    BY <1>10 DEF ReadSize, ReadBody, ReadBodyAsSize, ReadEnd, ReadOutOfStep, Goto, linkVars
  <2>2. QED
    BY <1>2, <2>1 DEF Waiting, Sending
<1>11. CASE ReplyToClient(t) \/ ReplyUpstream(t)
  <2>1. /\ pc[t] = "reply" /\ pc' = [pc EXCEPT ![t] = "recv"]
        /\ UNCHANGED <<table, applied, down, conn>>
        /\ \A r \in Threads : r # t => req'[r] = req[r]
    BY <1>11 DEF ReplyToClient, ReplyUpstream, Goto, linkVars
  <2>2. QED
    BY <1>2, <2>1 DEF Waiting, Sending
<1>12. QED
  BY <1>3, <1>4, <1>5, <1>6, <1>7, <1>8, <1>9, <1>10, <1>11, <1>13
     DEF Handler, Progress, OutOfStep

LEMMA LastStep ==
  TInv /\ Upstream /\ Order /\ ServesOp /\ LastPending /\ [Next]_vars => LastPending'
<1> SUFFICES ASSUME TInv, Upstream, Order, ServesOp, LastPending, [Next]_vars, NEW l \in Links
             PROVE  LinkLast(l)'
  BY DEF LastPending
<1>1. CASE UNCHANGED <<table, applied, pc, req, down, conn>>
  BY <1>1, ExecutedSame, PendingSame, LinkLastKept DEF LastPending
<1>2. CASE \E c \in Clients : Client(c) \/ ServeGet(c)
  BY <1>1, <1>2 DEF Client, SendUpdate, SendGet, ReadAnswer, ServeGet, linkVars
<1>3. CASE \E t \in Threads : Handler(t)
  BY <1>3, LastThread
<1>4. QED
  BY <1>1, <1>2, <1>3 DEF Next, vars

LEMMA LastAlways == Spec => []LastPending
<1>1. Init => LastPending
  <2> SUFFICES ASSUME Init, NEW l \in Links PROVE LinkLast(l)
    BY DEF LastPending
  <2>1. l \in Servers /\ l + 1 \in Servers /\ l + 1 \in Threads
    BY LinkShape
  <2>2. Pending(l) = {}
    BY <2>1 DEF Init, Pending, Waiting, Sending
  <2>3. table[l+1] = table[l]
    BY <2>1 DEF Init
  <2>4. QED
    BY <2>2, <2>3 DEF LinkLast
<1>2. QED
  BY <1>1, TInvAlways, UpstreamAlways, OrderAlways, ServesOpAlways, LastStep, PTL DEF Spec

\* Once a link has drained, its two ends agree on every key that one client
\* wrote, whatever other clients wrote to other keys over the same sockets.
THEOREM LoneWriterKeysConvergeAlways == Spec => []LoneWriterKeysConverge
<1>1. LastPending => LoneWriterKeysConverge
  <2> SUFFICES ASSUME LastPending, NEW l \in Links, Drained(l), NEW k \in Keys, Lone(l, k)
               PROVE  table[l+1][k] = table[l][k]
    BY DEF LoneWriterKeysConverge, Lone
  <2>1. Pending(l) = {}
    <3>1. Len(down[l]) = 0 /\ pc[l+1] \notin Waiting
      BY DEF Drained, Waiting
    <3>2. QED
      BY <3>1 DEF Drained, Pending, Sending
  <2>2. QED
    BY <2>1 DEF LastPending, LinkLast, Drained
<1>2. QED
  BY <1>1, LastAlways, PTL
=============================================================================
