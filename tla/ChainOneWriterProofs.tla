------------------------ MODULE ChainOneWriterProofs ------------------------
(***************************************************************************)
(* Proofs about Chain when at most one client writes, for every number of  *)
(* readers, keys, values, servers and updates.  Every socket between two   *)
(* servers then has one user, and the chain serves one update at a time.   *)
(***************************************************************************)
EXTENDS ChainProofs

-----------------------------------------------------------------------------
(* One update at a time *)

\* No server leaves its connection and none dies.
Unbroken == /\ \A t \in Threads : pc[t] \notin {"gone", "crashed"}
            /\ \A l \in Links : conn[l] = "open"

\* That, and what ChainProofs shows of every chain.
Serial == /\ TInv /\ Upstream /\ Order /\ ServesOp
          /\ LinksInLockStep /\ TablesOneBehind /\ FollowersAgree
          /\ Unbroken

LEMMA AllAlone ==
  ASSUME SingleWriter, NEW t \in Threads
  PROVE  Alone(t)
<1>1. \A r \in Threads : /\ r \in Writers => Home(r) = 1
                         /\ r \notin Writers => Home(r) = r /\ Home(r) # 1
  BY HomeType, ChainAssumption DEF Threads, Followers
<1>2. QED
  BY <1>1 DEF Alone, SingleWriter

\* So every link is in step, that of the head too.
LEMMA SerialLink ==
  ASSUME SingleWriter, Serial, NEW t \in Threads, Home(t) \in Links
  PROVE  LockStep(t) /\ OneBehind(t)
  BY AllAlone DEF Serial, LinksInLockStep, TablesOneBehind, Unbroken, Ended

\* While a server is busy with an update, the thread of each server before it
\* waits for the answer to the same update.
LEMMA ActiveChain ==
  ASSUME SingleWriter, Serial, NEW s \in Followers, pc[s] \notin Idle,
         NEW t \in Threads, Home(t) < s
  PROVE  pc[t] = "rsize" /\ req[t] = req[s]
<1> DEFINE Waits(x) == pc[x] = "rsize" /\ req[x] = req[s]
           S == {n \in Nat : \E x \in Threads : Home(x) < s /\ n = s - Home(x) /\ ~Waits(x)}
<1>1. ASSUME S # {} PROVE FALSE
  <2>1. PICK n \in S : \A m \in S : n <= m
    BY <1>1, LeastExists
  <2>2. PICK x \in Threads : Home(x) < s /\ n = s - Home(x) /\ ~Waits(x)
    BY <2>1
  <2> DEFINE l == Home(x)
  <2>3. l \in Links /\ l \in Nat /\ s \in Nat
    BY <2>2, HomeType, ChainAssumption DEF Followers, Servers, Links
  <2>4. LockStep(x) /\ l + 1 \in Threads /\ l + 1 \in Followers
    BY <2>3, SerialLink, LinkEnds
  <2>5. CASE l + 1 = s
    BY <2>2, <2>4, <2>5 DEF LockStep, Idle
  <2>6. CASE l + 1 # s
    <3>1. PICK r : r = l + 1
      OBVIOUS
    <3>2. r \in Threads /\ Home(r) = r /\ r < s /\ s - r \in Nat /\ ~(n <= s - r)
      BY <2>2, <2>3, <2>4, <2>6, <3>1, FollowersAlone
    <3>3. s - r \notin S
      BY <2>1, <3>2
    <3>4. Waits(r)
      BY <3>2, <3>3
    <3>5. QED
      BY <2>2, <2>4, <3>1, <3>4 DEF LockStep, Idle
  <2>7. QED
    BY <2>5, <2>6
<1>2. s - Home(t) \in Nat
  BY HomeType, ChainAssumption DEF Followers, Servers
<1>3. QED
  BY <1>1, <1>2

\* Every busy thread serves the one command of the one writer.
LEMMA ServesCommand ==
  ASSUME SingleWriter, Serial, NEW t \in Threads, pc[t] \notin Idle, NEW w \in Writers
  PROVE  /\ req[t] = cmd[w] /\ cmd[w] \in Updates /\ ans[w] = None
         /\ t # w => t \in Followers /\ pc[w] = "rsize"
<1>0. w \in Threads /\ Home(w) = 1
  BY HomeType DEF Threads
<1>1. req[t] \in Updates
  BY DEF Serial, TInv, Bound
<1>2. CASE t = w
  BY <1>1, <1>2 DEF Serial, TInv, Bound, Idle
<1>3. CASE t # w
  <2>1. t \in Followers /\ Home(w) < t
    BY <1>0, <1>3, ChainAssumption DEF Threads, SingleWriter, Followers
  <2>2. pc[w] = "rsize" /\ req[w] = req[t]
    BY <1>0, <2>1, ActiveChain
  <2>3. QED
    BY <1>1, <2>1, <2>2 DEF Serial, TInv, Bound
<1>4. QED
  BY <1>2, <1>3

\* There is a writer if a thread is busy.
LEMMA BusyWriter ==
  ASSUME TInv, NEW t \in Threads, pc[t] \notin Idle
  PROVE  Writers # {}
  BY UpdateShape DEF TInv, Bound

\* A thread that serves the successor of a busy server.
LEMMA SenderOf ==
  ASSUME SingleWriter, Serial, NEW s \in Followers, pc[s] \notin Idle
  PROVE  \E t \in Threads : /\ Home(t) = s - 1 /\ Home(t) \in Links
                            /\ pc[t] = "rsize" /\ req[t] = req[s]
                            /\ LockStep(t) /\ OneBehind(t)
<1>1. s \in Threads /\ s - 1 \in Links /\ s \in Nat /\ s - 1 < s
  BY HomeType, ChainAssumption DEF Threads, Followers
<1>2. PICK t \in Threads : Home(t) = s - 1
  <2>1. CASE s = 2
    <3>1. PICK w \in Writers : TRUE
      BY <1>1, BusyWriter DEF Serial
    <3>2. QED
      BY <2>1, <3>1, HomeType DEF Threads
  <2>2. CASE s # 2
    <3>1. s - 1 \in Followers
      BY <2>2, ChainAssumption DEF Followers
    <3>2. QED
      BY <3>1, FollowersAlone
  <2>3. QED
    BY <2>1, <2>2
<1>3. QED
  BY <1>1, <1>2, ActiveChain, SerialLink

\* A server after the head finds every entry that it is asked to remove.
LEMMA FollowerFinds ==
  ASSUME SingleWriter, Serial, NEW s \in Followers, pc[s] \in {"del", "rm"}
  PROVE  table[s][req[s].key] # Absent
<1>1. pc[s] \notin Idle /\ s \in Int
  BY ChainAssumption DEF Idle, Followers
<1>2. PICK t \in Threads : /\ Home(t) = s - 1 /\ Home(t) \in Links
                           /\ pc[t] = "rsize" /\ req[t] = req[s]
                           /\ LockStep(t) /\ OneBehind(t)
  BY <1>1, SenderOf
<1>3. Home(t) + 1 = s
  BY <1>1, <1>2
<1>4. Behind(t)
  BY <1>2, <1>3 DEF Behind
<1>5. req[s].op = "del"
  BY FollowersAlone DEF Serial, ServesOp
<1>6. QED
  BY <1>2, <1>3, <1>4, <1>5 DEF OneBehind

\* Some thread writes to every link.
LEMMA SenderExists ==
  ASSUME Writers # {}, NEW s \in Followers
  PROVE  \E t \in Threads : Home(t) = s - 1 /\ Home(t) \in Links
<1>1. s - 1 \in Links
  BY HomeType, FollowersAlone
<1>2. CASE s = 2
  <2>1. PICK w \in Writers : TRUE
    OBVIOUS
  <2>2. w \in Threads /\ Home(w) = 1
    BY HomeType DEF Threads
  <2>3. QED
    BY <1>1, <1>2, <2>2
<1>3. CASE s # 2
  <2>1. s - 1 \in Followers
    BY <1>3, ChainAssumption DEF Followers
  <2>2. QED
    BY <1>1, <2>1, FollowersAlone
<1>4. QED
  BY <1>2, <1>3

\* No thread meets a socket that is out of step, closed or mixed up.
LEMMA SerialHandler ==
  ASSUME SingleWriter, Serial, NEW t \in Threads, Handler(t)
  PROVE  \/ ReceiveFromClient(t) \/ ReceiveForwarded(t)
         \/ InvokePut(t) \/ InvokeDelCheck(t) \/ InvokeDelRemove(t)
         \/ WriteSize(t) \/ WriteBody(t) \/ ReadSize(t) \/ ReadBody(t)
         \/ ReplyToClient(t) \/ ReplyUpstream(t)
<1>1. ~Misframed(t)
  <2> SUFFICES ASSUME Misframed(t) PROVE FALSE
    OBVIOUS
  <2>1. t \in Followers /\ Len(down[t-1]) >= 3 /\ t - 1 \in Links
    BY HomeType DEF Misframed, Serial, Unbroken
  <2>2. Writers # {}
    <3>1. down[t-1] \in Seq(Items) /\ 1 \in 1..Len(down[t-1])
      BY <2>1 DEF Serial, TInv, TypeOK
    <3>2. QED
      BY <3>1, QueuedShape, UpdateShape
  <2>3. PICK r \in Threads : Home(r) = t - 1 /\ Home(r) \in Links
    BY <2>1, <2>2, SenderExists
  <2>4. PICK q : q = down[t-1]
    OBVIOUS
  <2>5. CASE q = <<>>
    BY ONLY <2>1, <2>4, <2>5
  <2>6. CASE q = <<Size(req[r])>>
    <3>1. Len(q) = 1
      BY ONLY <2>6
    <3>2. QED
      BY ONLY <2>1, <2>4, <3>1
  <2>7. CASE q = Frame(req[r])
    <3>1. Len(q) = 2
      BY ONLY <2>7 DEF Frame
    <3>2. QED
      BY ONLY <2>1, <2>4, <3>1
  <2>8. QED
    BY <2>3, <2>4, <2>5, <2>6, <2>7, SerialLink DEF LockStep
<1>2. ~ReadBodyAsSize(t) /\ ~ReadEnd(t) /\ ~ReadOutOfStep(t)
  <2>1. Head(Frame(req[t])).part # "body"
    BY ONLY FrameQueue
  <2>2. pc[t] \in {"rsize", "rbody"} => LockStep(t)
    BY SerialLink DEF Serial, TInv, Bound, Forwarding
  <2>3. QED
    BY <2>1, <2>2 DEF ReadBodyAsSize, ReadEnd, ReadOutOfStep, Goto, LockStep
<1>3. ~ReceiveEnd(t)
  <2>1. t \in Followers /\ t > 2 => t - 1 \in Threads
    BY ChainAssumption DEF Followers, Threads
  <2>2. QED
    BY <2>1 DEF ReceiveEnd, Serial, Unbroken
<1>4. QED
  BY <1>1, <1>2, <1>3 DEF Handler, Progress, OutOfStep, ReceiveScrambled, ReceiveMixture,
                          ReceiveCrash

\* So the connections and the servers stay.
LEMMA UnbrokenStep ==
  ASSUME SingleWriter
  PROVE  Serial /\ [Next]_vars => Unbroken'
<1> SUFFICES ASSUME Serial, [Next]_vars PROVE Unbroken'
  OBVIOUS
<1> USE DEF Serial, TInv, TypeOK
<1>1. CASE UNCHANGED <<pc, conn>>
  BY <1>1 DEF Unbroken
<1>2. CASE \E c \in Clients : Client(c) \/ ServeGet(c)
  <2>1. UNCHANGED <<pc, conn>>
    BY <1>2 DEF Client, SendUpdate, SendGet, ReadAnswer, ServeGet, linkVars
  <2>2. QED
    BY <1>1, <2>1
<1>3. ASSUME NEW t \in Threads, Handler(t)
      PROVE  Unbroken'
  <2>1. conn' = conn
    BY <1>3, SerialHandler
       DEF ReceiveFromClient, ReceiveForwarded, InvokePut, InvokeDelCheck, InvokeDelRemove,
       WriteSize, WriteBody, ReadSize, ReadBody, ReplyToClient, ReplyUpstream, linkVars
  <2>2. pc'[t] \notin {"gone", "crashed"}
    <3>1. CASE ReceiveFromClient(t)
      BY <3>1, UpdateShape DEF ReceiveFromClient, Accept, Goto
    <3>2. CASE ReceiveForwarded(t)
      <4>1. t - 1 \in Links /\ 1 \in 1..Len(down[t-1])
        BY <3>2, HomeType DEF ReceiveForwarded, InStep
      <4>2. down[t-1][1].msg \in Updates
        BY <4>1, QueuedShape
      <4>3. down[t-1][1].msg.op \in {"put", "del"}
        BY <4>2, UpdateShape
      <4>4. QED
        BY <3>2, <4>3 DEF ReceiveForwarded, Accept, Goto
    <3>3. CASE InvokePut(t) \/ InvokeDelCheck(t) \/ InvokeDelRemove(t)
      BY <3>3, AfterSuccessType DEF InvokePut, InvokeDelCheck, InvokeDelRemove, Goto
    <3>4. CASE WriteSize(t) \/ WriteBody(t)
      BY <3>4 DEF WriteSize, WriteBody, Write
    <3>5. CASE ReadSize(t) \/ ReadBody(t) \/ ReplyToClient(t) \/ ReplyUpstream(t)
      BY <3>5 DEF ReadSize, ReadBody, ReplyToClient, ReplyUpstream, Goto
    <3>6. QED
      BY <1>3, <3>1, <3>2, <3>3, <3>4, <3>5, SerialHandler
  <2>3. \A r \in Threads : r # t => pc'[r] = pc[r]
    BY <1>3, OthersKept
  <2>4. QED
    BY <2>1, <2>2, <2>3 DEF Unbroken
<1>4. QED
  BY <1>1, <1>2, <1>3 DEF Next, vars

LEMMA SerialAlways ==
  ASSUME SingleWriter
  PROVE  Spec => []Serial
<1>1. Init => Unbroken
  BY DEF Init, Unbroken
<1>2. Serial /\ [Next]_vars => Unbroken'
  BY UnbrokenStep
<1>3. QED
  BY <1>1, <1>2, TInvAlways, UpstreamAlways, OrderAlways, ServesOpAlways, LockStepAlways,
     OneBehindAlways, FollowersAgreeAlways, PTL DEF Spec, Serial

LEMMA ExecutedStays ==
  ASSUME TInv, NEW t \in Threads, Handler(t), NEW s \in Servers
  PROVE  Executed(s) \subseteq Executed(s)'
<1>1. CASE \E v : Execute(t, v) /\ pc[t] \notin Idle
  BY <1>1, ExecutedGrows
<1>2. CASE UNCHANGED applied
  BY <1>2, ExecutedSame
<1>3. QED
  BY <1>1, <1>2 DEF Handler, Progress, OutOfStep,
     ReceiveFromClient, ReceiveForwarded, ReceiveScrambled, ReceiveMixture, ReceiveCrash,
     ReceiveEnd, InvokePut, InvokeDelCheck, InvokeDelRemove, Refuse, WriteSize, WriteBody, Goto, Idle,
     ReadSize, ReadBody, ReadBodyAsSize, ReadEnd, ReadOutOfStep, ReplyToClient, ReplyUpstream

-----------------------------------------------------------------------------
(* What an answer says *)

\* Server s and every server after it have executed u.
Everywhere(u, s) == \A r \in Servers : r >= s => u \in Executed(r)

\* An answer on its way back to t, and the answer that t is about to give, mean
\* that the rest of the chain has executed the request.
ThreadDone(t) ==
  /\ pc[t] = "rbody" \/ (pc[t] = "rsize" /\ up[Home(t)] # <<>>) => Everywhere(req[t], Home(t))
  /\ pc[t] = "reply" /\ (res[t] = "ok" \/ t \notin Writers) => Everywhere(req[t], Home(t))
  /\ pc[t] = "reply" /\ req[t].op = "put" => res[t] = "ok"
  /\ pc[t] \in {"wsize", "wbody", "rsize", "rbody"} => res[t] = "ok"

\* So does the answer that waits in the socket of a writer.
AnswerDone(c) == ans[c] # None /\ cmd[c] \in Updates =>
  /\ cmd[c].op = "put" => ans[c] = "ok"
  /\ ans[c] = "ok" => Everywhere(cmd[c], 1)
  /\ ans[c] \in {"ok", "error"}

Done ==
  /\ \A t \in Threads : ThreadDone(t)
  /\ \A c \in Clients : cmd[c] \in Updates => c \in Writers /\ AnswerDone(c)
  /\ AckedEverywhere

LEMMA DoneKept ==
  ASSUME NEW t, ThreadDone(t), \A r \in Servers : Executed(r) \subseteq Executed(r)',
         pc'[t] = pc[t], req'[t] = req[t], res'[t] = res[t],
         up'[Home(t)] = up[Home(t)] \/ pc[t] # "rsize"
  PROVE  ThreadDone(t)'
  BY DEF ThreadDone, Everywhere

\* A thread's own steps.
LEMMA DoneOwn ==
  ASSUME SingleWriter, Serial, NEW t \in Threads, Handler(t), ThreadDone(t)
  PROVE  ThreadDone(t)'
<1> USE DEF Serial, TInv, TypeOK
<1>1. \A r \in Servers : Executed(r) \subseteq Executed(r)'
  BY ExecutedStays
<1>2. CASE ReceiveFromClient(t) \/ ReceiveForwarded(t)
  <2>1. PICK u \in Updates : Accept(t, u)
    <3>1. CASE ReceiveFromClient(t)
      BY <3>1 DEF ReceiveFromClient
    <3>2. CASE ReceiveForwarded(t)
      <4>1. t - 1 \in Links /\ 1 \in 1..Len(down[t-1])
        BY <3>2, HomeType DEF ReceiveForwarded, InStep
      <4>2. down[t-1][1].msg \in Updates
        BY <4>1, QueuedShape
      <4>3. QED
        BY <3>2, <4>2 DEF ReceiveForwarded
    <3>3. QED
      BY <1>2, <3>1, <3>2
  <2>2. pc'[t] \in {"put", "del"}
    BY <2>1, UpdateShape DEF Accept, Goto
  <2>3. QED
    BY <2>2 DEF ThreadDone
\* It executes its request; only the last server answers at once.
<1>3. ASSUME NEW v, Execute(t, v), pc[t] \notin Idle, pc' = [pc EXCEPT ![t] = AfterSuccess(t)],
             req' = req
      PROVE  ThreadDone(t)'
  <2>1. res'[t] = "ok" /\ pc'[t] = AfterSuccess(t) /\ req'[t] = req[t]
    BY <1>3 DEF Execute
  <2>2. CASE Home(t) < N
    BY <2>1, <2>2 DEF AfterSuccess, ThreadDone
  <2>3. CASE ~(Home(t) < N)
    <3>1. \A r \in Servers : r >= Home(t) => r = Home(t)
      BY <2>3, HomeType, ChainAssumption DEF Servers
    <3>2. req'[t] \in Executed(Home(t))'
      BY <1>3, <2>1, HomeType, ExecutedGrows
    <3>3. pc'[t] = "reply"
      BY <2>1, <2>3 DEF AfterSuccess
    <3>4. QED
      BY <2>1, <3>1, <3>2, <3>3 DEF ThreadDone, Everywhere
  <2>4. QED
    BY <2>2, <2>3
\* Only a thread of the head finds nothing to remove.
<1>4. ASSUME pc[t] \in {"del", "rm"}, table[Home(t)][req[t].key] = Absent, Refuse(t),
             pc' = [pc EXCEPT ![t] = "reply"], req' = req
      PROVE  ThreadDone(t)'
  <2>1. t \in Writers
    BY <1>4, FollowerFinds, FollowersAlone DEF Threads
  <2>2. req[t].op = "del" /\ res'[t] = "error" /\ pc'[t] = "reply"
    BY <1>4 DEF ServesOp, Refuse
  <2>3. QED
    BY <1>4, <2>1, <2>2 DEF ThreadDone
<1>5. CASE InvokePut(t)
  BY <1>3, <1>5 DEF InvokePut, Goto, Idle
<1>6. CASE InvokeDelCheck(t)
  <2>1. CASE table[Home(t)][req[t].key] = Absent
    BY <1>4, <1>6, <2>1 DEF InvokeDelCheck, Goto
  <2>2. CASE table[Home(t)][req[t].key] # Absent
    <3>1. pc'[t] = "rm"
      BY <1>6, <2>2 DEF InvokeDelCheck, Goto
    <3>2. QED
      BY <3>1 DEF ThreadDone
  <2>3. QED
    BY <2>1, <2>2
<1>7. CASE InvokeDelRemove(t)
  BY <1>3, <1>4, <1>7 DEF InvokeDelRemove, Goto, Idle
<1>8. CASE WriteSize(t) \/ WriteBody(t)
  <2>1. pc[t] \in {"wsize", "wbody"} /\ UNCHANGED <<req, res, up>>
    BY <1>8 DEF WriteSize, WriteBody, Write
  <2>2. LockStep(t)
    BY <2>1, SerialLink DEF Bound, Forwarding
  <2>3. \/ pc'[t] = "wbody"
        \/ pc'[t] = "rsize" /\ up[Home(t)] = <<>>
    BY <1>8, <2>2 DEF WriteSize, WriteBody, Write, LockStep
  <2>4. QED
    BY <2>1, <2>3 DEF ThreadDone
<1>9. CASE ReadSize(t)
  <2>1. /\ pc[t] = "rsize" /\ up[Home(t)] # <<>> /\ pc'[t] = "rbody"
        /\ req' = req /\ res' = res
    BY <1>9 DEF ReadSize, Goto
  <2>2. QED
    BY <1>1, <2>1 DEF ThreadDone, Everywhere
<1>10. CASE ReadBody(t)
  <2>1. pc[t] = "rbody" /\ pc'[t] = "reply" /\ req' = req /\ res' = res
    BY <1>10 DEF ReadBody, Goto
  <2>2. QED
    BY <1>1, <2>1 DEF ThreadDone, Everywhere
<1>11. CASE ReplyToClient(t) \/ ReplyUpstream(t)
  <2>1. pc'[t] = "recv"
    BY <1>11 DEF ReplyToClient, ReplyUpstream, Goto
  <2>2. QED
    BY <2>1 DEF ThreadDone
<1>12. QED
  BY <1>2, <1>5, <1>6, <1>7, <1>8, <1>9, <1>10, <1>11, SerialHandler

\* The steps of another thread, which matter when it answers this one.
LEMMA DoneOther ==
  ASSUME SingleWriter, Serial, NEW t \in Threads, ThreadDone(t),
         NEW x \in Threads, x # t, Handler(x), ThreadDone(x)
  PROVE  ThreadDone(t)'
<1> USE DEF Serial, TInv, TypeOK
<1>1. \A r \in Servers : Executed(r) \subseteq Executed(r)'
  BY ExecutedStays
<1>2. UNCHANGED <<pc[t], req[t], res[t]>>
  <2>1. CASE ReceiveFromClient(x) \/ ReceiveForwarded(x)
    BY <2>1 DEF ReceiveFromClient, ReceiveForwarded, Accept, Goto
  <2>2. CASE InvokePut(x)
    BY <2>2 DEF InvokePut, Execute, Goto
  <2>3. CASE InvokeDelCheck(x)
    BY <2>3 DEF InvokeDelCheck, Refuse, Goto
  <2>4. CASE InvokeDelRemove(x)
    BY <2>4 DEF InvokeDelRemove, Execute, Refuse, Goto
  <2>5. CASE WriteSize(x) \/ WriteBody(x)
    BY <2>5 DEF WriteSize, WriteBody, Write, Goto
  <2>6. CASE ReadSize(x) \/ ReadBody(x) \/ ReplyToClient(x) \/ ReplyUpstream(x)
    BY <2>6 DEF ReadSize, ReadBody, ReplyToClient, ReplyUpstream, Goto
  <2>7. QED
    BY <2>1, <2>2, <2>3, <2>4, <2>5, <2>6, SerialHandler
<1>3. CASE UNCHANGED up
  BY <1>1, <1>2, <1>3, DoneKept
<1>4. CASE ReadSize(x) \/ ReadBody(x)
  <2>1. Home(x) # Home(t)
    BY AllAlone DEF Alone
  <2>2. up'[Home(t)] = up[Home(t)] \/ pc[t] # "rsize"
    <3>1. pc[t] = "rsize" => Home(t) \in Links
      BY DEF Bound, Forwarding
    <3>2. up' = [up EXCEPT ![Home(x)] = Tail(@)]
      BY <1>4 DEF ReadSize, ReadBody
    <3>3. QED
      BY <2>1, <3>1, <3>2
  <2>3. QED
    BY <1>1, <1>2, <2>2, DoneKept
<1>5. CASE ReplyUpstream(x)
  <2>1. x \in Followers /\ pc[x] = "reply" /\ x - 1 \in Links /\ x \in Int
    BY <1>5, HomeType, ChainAssumption DEF ReplyUpstream, Goto, Followers
  <2>2. CASE Home(t) # x - 1
    <3>1. up'[Home(t)] = up[Home(t)]
      BY <1>5, <2>2 DEF ReplyUpstream
    <3>2. QED
      BY <1>1, <1>2, <3>1, DoneKept
  <2>3. CASE Home(t) = x - 1
    <3>1. pc[t] = "rsize" /\ req[t] = req[x]
      <4>1. Home(t) < x /\ pc[x] \notin Idle
        BY <2>1, <2>3 DEF Idle
      <4>2. QED
        BY <2>1, <4>1, ActiveChain
    <3>2. Everywhere(req[x], x)
      BY <2>1, HomeType DEF ThreadDone
    <3>3. req[x] \in Executed(x - 1)
      BY <2>1 DEF Upstream, Idle
    <3>4. \A r \in Servers : r >= x - 1 => r = x - 1 \/ r >= x
      BY <2>1, ChainAssumption DEF Servers
    <3>5. Everywhere(req[x], x - 1)
      BY <3>2, <3>3, <3>4 DEF Everywhere
    <3>6. QED
      BY <1>1, <1>2, <2>3, <3>1, <3>5 DEF ThreadDone, Everywhere
  <2>4. QED
    BY <2>2, <2>3
<1>6. QED
  BY <1>3, <1>4, <1>5, SerialHandler
     DEF ReceiveFromClient, ReceiveForwarded, InvokePut, InvokeDelCheck,
     InvokeDelRemove, WriteSize, WriteBody, ReplyToClient, linkVars

\* The answer to the client.
LEMMA AnswerReply ==
  ASSUME SingleWriter, Serial, Done, NEW t \in Threads, Handler(t), NEW c \in Writers
  PROVE  AnswerDone(c)'
<1> USE DEF Serial, TInv, TypeOK
<1>1. \A r \in Servers : Executed(r) \subseteq Executed(r)'
  BY ExecutedStays
<1>2. cmd' = cmd /\ c \in Clients
  BY SerialHandler
     DEF ReceiveFromClient, ReceiveForwarded, InvokePut, InvokeDelCheck, InvokeDelRemove,
     WriteSize, WriteBody, ReadSize, ReadBody, ReplyToClient, ReplyUpstream, clientVars, Clients
<1>3. CASE ans'[c] = ans[c]
  BY <1>1, <1>2, <1>3 DEF Done, AnswerDone, Everywhere
<1>4. CASE ReplyToClient(t) /\ t = c
  <2>1. pc[t] = "reply" /\ ans'[c] = res[c] /\ ThreadDone(c) /\ res[c] \in {"ok", "error"}
    BY <1>4, <1>2 DEF ReplyToClient, Goto, Done
  <2>2. cmd[c] = req[c] /\ Home(c) = 1
    BY <1>4, <2>1, HomeType DEF Bound
  <2>3. QED
    BY <1>1, <1>2, <1>4, <2>1, <2>2 DEF ThreadDone, AnswerDone, Everywhere
<1>5. CASE ~(ReplyToClient(t) /\ t = c)
  <2>1. ReplyToClient(t) \/ ans' = ans
    BY SerialHandler
     DEF ReceiveFromClient, ReceiveForwarded, InvokePut, InvokeDelCheck, InvokeDelRemove,
     WriteSize, WriteBody, ReadSize, ReadBody, ReplyUpstream, clientVars
  <2>2. ReplyToClient(t) => ans' = [ans EXCEPT ![t] = res[t]]
    BY DEF ReplyToClient
  <2>3. ans'[c] = ans[c]
    BY <1>2, <1>5, <2>1, <2>2
  <2>4. QED
    BY <1>3, <2>3
<1>6. QED
  BY <1>4, <1>5

\* The steps of the threads.
LEMMA DoneThread ==
  ASSUME SingleWriter, Serial, Done, NEW t \in Threads, Handler(t)
  PROVE  Done'
<1>1. \A r \in Threads : ThreadDone(r)'
  BY DoneOwn, DoneOther DEF Done
<1>2. UNCHANGED <<cmd, acked>>
  BY SerialHandler
     DEF ReceiveFromClient, ReceiveForwarded, InvokePut, InvokeDelCheck, InvokeDelRemove,
     WriteSize, WriteBody, ReadSize, ReadBody, ReplyToClient, ReplyUpstream, clientVars
<1>3. \A c \in Clients : cmd'[c] \in Updates => c \in Writers /\ AnswerDone(c)'
  BY <1>2, AnswerReply DEF Done
<1>4. AckedEverywhere'
  BY <1>2, ExecutedStays DEF Serial, Done, AckedEverywhere
<1>5. QED
  BY <1>1, <1>3, <1>4 DEF Done

\* The steps of the clients and of the tail's reads.
LEMMA DoneClient ==
  ASSUME SingleWriter, Serial, Done, NEW c \in Clients, Client(c) \/ ServeGet(c)
  PROVE  Done'
<1> USE DEF Serial, TInv, TypeOK
<1>1. /\ UNCHANGED <<table, applied, pc, req, res, up>>
      /\ \A r : Executed(r)' = Executed(r)
  BY ExecutedSame DEF Client, SendUpdate, SendGet, ReadAnswer, ServeGet, linkVars
<1>2. \A r \in Threads : ThreadDone(r)'
  BY <1>1, DoneKept DEF Done
<1>3. \A d \in Clients : cmd'[d] = cmd[d] /\ ans'[d] = ans[d] => AnswerDone(d)' = AnswerDone(d)
  BY <1>1 DEF AnswerDone, Everywhere
<1>4. CASE SendUpdate(c)
  <2>1. /\ c \in Writers /\ cmd[c] = None /\ ans' = ans /\ acked' = acked
        /\ \A d \in Clients : d # c => cmd'[d] = cmd[d]
    BY <1>4 DEF SendUpdate
  <2>2. ans[c] = None
    BY <2>1, NoneAssumption DEF Bound
  <2>3. AnswerDone(c)'
    BY <2>1, <2>2 DEF AnswerDone
  <2>4. QED
    BY <1>1, <1>2, <1>3, <2>1, <2>3 DEF Done, AckedEverywhere
<1>5. CASE SendGet(c)
  <2>1. /\ cmd'[c] \in Gets /\ ans' = ans /\ acked' = acked
        /\ \A d \in Clients : d # c => cmd'[d] = cmd[d]
    BY <1>5 DEF SendGet
  <2>2. cmd'[c] \notin Updates
    BY <2>1, GetShape, UpdateShape
  <2>3. QED
    BY <1>1, <1>2, <1>3, <2>1, <2>2 DEF Done, AckedEverywhere
<1>6. CASE ReadAnswer(c)
  <2>1. /\ ans[c] # None /\ cmd'[c] = None
        /\ \A d \in Clients : d # c => cmd'[d] = cmd[d] /\ ans'[d] = ans[d]
    BY <1>6 DEF ReadAnswer
  <2>2. cmd[c] \in Updates \cup Gets
    BY <2>1 DEF Bound
  <2>3. acked' \subseteq acked \cup {u \in {cmd[c]} : u \in Updates /\ \A s \in Servers : u \in Executed(s)}
    <3>1. CASE acked' = acked
      BY <3>1
    <3>2. CASE acked' # acked
      <4>1. /\ acked' = acked \cup {cmd[c]}
            /\ cmd[c].op = "put" \/ (cmd[c].op = "del" /\ ans[c] # "error")
        BY <1>6, <3>2 DEF ReadAnswer
      <4>2. cmd[c] \in Updates
        BY <2>2, <4>1, GetShape
      <4>3. Everywhere(cmd[c], 1)
        BY <2>1, <4>1, <4>2 DEF Done, AnswerDone
      <4>4. \A s \in Servers : s >= 1
        BY ChainAssumption DEF Servers
      <4>5. QED
        BY <4>1, <4>2, <4>3, <4>4 DEF Everywhere
    <3>3. QED
      BY <3>1, <3>2
  <2>4. cmd'[c] \notin Updates
    BY <2>1, NoneAssumption
  <2>5. AckedEverywhere'
    BY <1>1, <2>3 DEF Done, AckedEverywhere
  <2>6. QED
    BY <1>2, <1>3, <2>1, <2>4, <2>5 DEF Done
<1>7. CASE ServeGet(c)
  <2>1. /\ cmd[c].op = "get" /\ cmd' = cmd /\ acked' = acked
        /\ \A d \in Clients : d # c => ans'[d] = ans[d]
    BY <1>7 DEF ServeGet
  <2>2. cmd[c] \notin Updates
    BY <2>1, UpdateShape
  <2>3. QED
    BY <1>1, <1>2, <1>3, <2>1, <2>2 DEF Done, AckedEverywhere
<1>8. QED
  BY <1>4, <1>5, <1>6, <1>7 DEF Client

LEMMA DoneStep ==
  ASSUME SingleWriter
  PROVE  Serial /\ Done /\ [Next]_vars => Done'
<1> SUFFICES ASSUME Serial, Done, [Next]_vars PROVE Done'
  OBVIOUS
<1>1. CASE UNCHANGED vars
  <2>1. \A r : Executed(r)' = Executed(r)
    BY <1>1, ExecutedSame DEF vars
  <2>2. QED
    BY <1>1, <2>1 DEF vars, Done, ThreadDone, AnswerDone, Everywhere, AckedEverywhere
<1>2. QED
  BY <1>1, DoneThread, DoneClient DEF Next

LEMMA DoneAlways ==
  ASSUME SingleWriter
  PROVE  Spec => []Done
<1>1. Init => Done
  BY NoneAssumption DEF Init, Done, ThreadDone, AnswerDone, AckedEverywhere
<1>2. Serial /\ Done /\ [Next]_vars => Done'
  BY DoneStep
<1>3. Spec => []Serial
  BY SerialAlways
<1>4. QED
  BY <1>1, <1>2, <1>3, PTL DEF Spec

\* With one writer, every update whose success a client was told of has been
\* executed by every server: no thread of client_handler answers before its
\* successor answered, and each answer belongs to the request it follows.
THEOREM AckedEverywhereAlways ==
  ASSUME SingleWriter
  PROVE  Spec => []AckedEverywhere
<1>1. Done => AckedEverywhere
  BY DEF Done
<1>2. QED
  BY <1>1, DoneAlways, PTL

-----------------------------------------------------------------------------
(* The tables between two updates *)

LEMMA ServersShape ==
  /\ 1 \in Servers /\ N \in Servers
  /\ \A s \in Servers : s # 1 => s \in Followers /\ s - 1 \in Servers /\ 1 \in Links /\ 2 \in Followers
  BY ChainAssumption DEF Servers, Followers, Links

\* When the writer's thread waits for no successor, all the tables are the same.
LEMMA TablesSame ==
  ASSUME SingleWriter, Serial, NEW w \in Writers, pc[w] \notin Forwarding, NEW s \in Servers
  PROVE  table[s] = table[1]
<1>1. CASE s = 1
  BY <1>1
<1>2. CASE s # 1
  <2>1. w \in Threads /\ Home(w) = 1 /\ 1 \in Links /\ s \in Followers
    BY <1>2, ServersShape, HomeType DEF Threads
  <2>2. LockStep(w) /\ OneBehind(w)
    BY <2>1, SerialLink
  <2>3. pc[1+1] = "recv" /\ ~Behind(w)
    BY <2>1, <2>2 DEF LockStep, Behind, Forwarding
  <2>4. pc[2] = "recv" /\ table[2] = table[1]
    BY <2>1, <2>2, <2>3 DEF OneBehind
  <2>5. QED
    BY <2>1, <2>4 DEF Serial, FollowersAgree
<1>3. QED
  BY <1>1, <1>2

\* Without a writer the tables stay empty.
LEMMA NoWriters ==
  ASSUME Writers = {}
  PROVE  Spec => [](\A s \in Servers : table[s] = table[1])
<1> DEFINE Same == \A s \in Servers : table[s] = table[1]
<1>1. Init => Same
  BY ServersShape DEF Init
<1>2. TInv /\ Same /\ [Next]_vars => Same'
  <2> SUFFICES ASSUME TInv, Same, [Next]_vars PROVE Same'
    OBVIOUS
  <2>1. \A t \in Threads : pc[t] \in Idle
    BY BusyWriter
  <2>2. UNCHANGED table
    BY <2>1 DEF Next, vars, Client, SendUpdate, SendGet, ReadAnswer, ServeGet,
       Handler, Progress, OutOfStep, ReceiveFromClient, ReceiveForwarded, ReceiveScrambled,
       ReceiveMixture, ReceiveCrash, ReceiveEnd,
       InvokePut, InvokeDelCheck, InvokeDelRemove, Goto, Idle, WriteSize, WriteBody,
       ReadSize, ReadBody, ReadBodyAsSize, ReadEnd, ReadOutOfStep, ReplyToClient, ReplyUpstream
  <2>3. QED
    BY <2>2
<1>3. QED
  BY <1>1, <1>2, TInvAlways, PTL DEF Spec

\* With one writer, all the tables are the same whenever it waits for no answer.
THEOREM IdleReplicasAgreeAlways ==
  ASSUME SingleWriter
  PROVE  Spec => []IdleReplicasAgree
<1>1. CASE Writers = {}
  <2>1. (\A s \in Servers : table[s] = table[1]) => IdleReplicasAgree
    BY DEF IdleReplicasAgree
  <2>2. QED
    BY <1>1, <2>1, NoWriters, PTL
<1>2. CASE Writers # {}
  <2>1. Serial => IdleReplicasAgree
    <3> SUFFICES ASSUME Serial, \A c \in Writers : cmd[c] \notin Updates, NEW s \in Servers
                 PROVE  table[s] = table[1]
      BY DEF IdleReplicasAgree
    <3>1. PICK w \in Writers : TRUE
      BY <1>2
    <3>2. pc[w] = "recv"
      BY HomeType DEF Serial, TInv, Bound, Threads, Idle
    <3>3. QED
      BY <3>1, <3>2, TablesSame DEF Forwarding
  <2>2. Spec => []Serial
    BY SerialAlways
  <2>3. QED
    BY <2>1, <2>2, PTL
<1>3. QED
  BY <1>1, <1>2

-----------------------------------------------------------------------------
(* The chain is one table *)

LEMMA CommandType ==
  ASSUME NEW m \in Updates \cup Gets
  PROVE  /\ Command(m) \in KV!Commands /\ Command(m) # None
         /\ Command(m).op = m.op /\ Command(m).key = m.key /\ Command(m).val = m.val
<1>1. m # None /\ Command(m) # None
  BY NoneAssumption
<1>2. Command(m) = [op |-> m.op, key |-> m.key, val |-> m.val]
  BY <1>1 DEF Command
<1>3. /\ m.key \in Keys
      /\ \/ m.op = "put" /\ m.val \in Values
         \/ m.op \in {"del", "get"} /\ m.val = Absent
  BY DEF Updates, Gets
<1>4. Command(m) \in KV!Commands
  BY <1>2, <1>3 DEF KV!Commands
<1>5. QED
  BY <1>1, <1>2, <1>4

\* What any server has executed, the head has.
LEMMA ExecutedAtHead ==
  ASSUME Upstream, NEW s \in Servers
  PROVE  Executed(s) \subseteq Executed(1)
<1> DEFINE S == {r \in Servers : ~(Executed(r) \subseteq Executed(1))}
<1>1. ASSUME S # {} PROVE FALSE
  <2>1. S \in SUBSET Nat
    BY ChainAssumption DEF Servers
  <2>2. PICK r \in S : \A x \in S : r <= x
    BY <1>1, <2>1, LeastExists
  <2>3. r \in Followers /\ r - 1 \in Servers /\ r \in Nat
    BY <2>1, <2>2, ServersShape
  <2>4. PICK p : p = r - 1
    OBVIOUS
  <2>5. p \in Servers /\ ~(r <= p)
    BY <2>3, <2>4
  <2>6. p \notin S
    BY <2>2, <2>5
  <2>7. Executed(p) \subseteq Executed(1)
    BY <2>5, <2>6
  <2>8. Executed(r) \subseteq Executed(p)
    BY <2>3, <2>4 DEF Upstream, UpstreamFirst
  <2>9. QED
    BY <2>2, <2>7, <2>8
<1>2. QED
  BY <1>1

\* What a server is about to execute, it has not executed.
LEMMA NotYetExecuted ==
  ASSUME SingleWriter, Serial, NEW t \in Threads, pc[t] \in Waiting
  PROVE  req[t] \in Updates /\ req[t] \notin Executed(Home(t))
<1>1. req[t] \in Updates
  BY DEF Serial, TInv, Bound, Waiting, Idle
<1>2. req[t].nth \in Nat
  BY <1>1, UpdateShape, ChainAssumption
<1>3. \A u \in Executed(Home(t)) : Before(u, req[t])
  BY DEF Serial, Order, WaitOrder
<1>4. QED
  BY <1>1, <1>2, <1>3 DEF Before

\* A step that changes nothing a client could notice.
LEMMA TableStutter ==
  ASSUME table'[N] = table[N], cmd' = cmd, \A c \in Clients : AnswerOf(c)' = AnswerOf(c)
  PROVE  UNCHANGED KV!kvVars
<1>1. [c \in Clients |-> AnswerOf(c)]' = [c \in Clients |-> AnswerOf(c)]
  OBVIOUS
<1>2. [c \in Clients |-> Command(cmd[c])]' = [c \in Clients |-> Command(cmd[c])]
  BY DEF Command
<1>3. QED
  BY <1>1, <1>2 DEF KV!kvVars

\* The steps that neither execute nor refuse nor answer.
LEMMA TableQuiet ==
  ASSUME Serial, Done, UNCHANGED <<table, applied, cmd, ans, res>>,
         \A c \in Writers : res[c] = "ok" \/ (pc'[c] = "reply" <=> pc[c] = "reply")
  PROVE  UNCHANGED KV!kvVars
<1>1. Executed(N)' = Executed(N)
  BY ExecutedSame
<1>2. \A c \in Clients : AnswerOf(c)' = AnswerOf(c)
  <2> TAKE c \in Clients
  <2>1. CASE c \in Writers
    BY <1>1, <2>1 DEF AnswerOf
  <2>2. CASE c \notin Writers
    BY <2>2 DEF AnswerOf, Done
  <2>3. QED
    BY <2>1, <2>2
<1>3. QED
  BY <1>2, TableStutter

\* The answer to the command being served takes effect with it.
LEMMA TableEffect ==
  ASSUME Serial, Done, NEW w \in Writers, cmd' = cmd, cmd[w] \in Updates,
         AnswerOf(w) = None, NEW a, AnswerOf(w)' = a,
         \A c \in Clients : c # w => AnswerOf(c)' = AnswerOf(c),
         \/ /\ cmd[w].op = "put" /\ a = "ok"
            /\ table'[N] = [table[N] EXCEPT ![cmd[w].key] = cmd[w].val]
         \/ /\ cmd[w].op = "del" /\ a = "ok" /\ table[N][cmd[w].key] # Absent
            /\ table'[N] = [table[N] EXCEPT ![cmd[w].key] = Absent]
         \/ /\ cmd[w].op = "del" /\ a = "error" /\ table[N][cmd[w].key] = Absent
            /\ table'[N] = table[N]
  PROVE  KV!KVNext
<1> DEFINE P == [c \in Clients |-> Command(cmd[c])]
           R == [c \in Clients |-> AnswerOf(c)]
<1>1. w \in Clients
  BY DEF Clients
<1>2. P' = P
  BY DEF Command
<1>3. R' = [R EXCEPT ![w] = a]
  BY <1>1
<1>4. /\ P[w] # None /\ P[w].op = cmd[w].op /\ P[w].key = cmd[w].key /\ P[w].val = cmd[w].val
      /\ R[w] = None
  BY <1>1, CommandType
<1> HIDE DEF P, R
<1>5. KV!Respond(w, a)
  BY <1>2, <1>3, <1>4 DEF KV!Respond, P, R
<1>6. KV!TakesEffect(w)
  BY <1>4, <1>5 DEF KV!TakesEffect, P
<1>7. QED
  BY <1>1, <1>6 DEF KV!KVNext

\* The answers of the others stay when the writer's changes.
LEMMA OthersAnswer ==
  ASSUME SingleWriter, Serial, Done, NEW w \in Writers, cmd' = cmd, ans' = ans,
         NEW c \in Clients, c # w
  PROVE  AnswerOf(c)' = AnswerOf(c)
  BY DEF AnswerOf, Done, SingleWriter

\* A server executes the command; it takes effect when the tail does.
LEMMA TableExecute ==
  ASSUME SingleWriter, Serial, Done, NEW t \in Threads, pc[t] \in Waiting,
         pc[t] # "put" => table[Home(t)][req[t].key] # Absent,
         NEW v, v = req[t].val, Execute(t, v), pc' = [pc EXCEPT ![t] = AfterSuccess(t)],
         UNCHANGED <<cmd, ans, req>>
  PROVE  KV!KVNext \/ UNCHANGED KV!kvVars
<1> USE DEF Serial, TInv, TypeOK
<1>0. pc[t] \notin Idle /\ Home(t) \in Servers /\ N \in Servers
  BY HomeType, ServersShape DEF Waiting, Idle
<1>1. PICK w \in Writers : TRUE
  BY <1>0, BusyWriter
<1>2. /\ req[t] = cmd[w] /\ cmd[w] \in Updates /\ ans[w] = None
      /\ t # w => t \in Followers /\ pc[w] = "rsize"
  BY <1>0, ServesCommand
<1>3. w \in Clients /\ w \in Threads
  BY DEF Clients, Threads
<1>4. pc[w] # "reply"
  BY <1>2 DEF Waiting
<1>5. Executed(N)' = IF N = Home(t) THEN Executed(N) \cup {req[t]} ELSE Executed(N)
  BY <1>0, ExecutedGrows
<1>6. \A c \in Clients : c # w => AnswerOf(c)' = AnswerOf(c)
  BY OthersAnswer
<1>7. CASE Home(t) = N
  <2>1. cmd[w] \notin Executed(N)
    BY <1>2, <1>7, NotYetExecuted
  <2>2. AnswerOf(w) = None
    BY <1>2, <1>4, <2>1, ChainAssumption DEF AnswerOf
  <2>3. AnswerOf(w)' = "ok"
    BY <1>2, <1>5, <1>7 DEF AnswerOf
  <2>4. table'[N] = [table[N] EXCEPT ![cmd[w].key] = cmd[w].val]
    BY <1>0, <1>2, <1>7 DEF Execute
  <2>5. cmd[w].op = "put" \/ (cmd[w].op = "del" /\ cmd[w].val = Absent /\ table[N][cmd[w].key] # Absent)
    BY <1>2, <1>7, UpdateVal DEF ServesOp, Waiting
  <2>6. QED
    BY <1>2, <1>6, <2>2, <2>3, <2>4, <2>5, TableEffect
<1>8. CASE Home(t) # N
  <2>1. table'[N] = table[N] /\ Executed(N)' = Executed(N)
    BY <1>0, <1>5, <1>8 DEF Execute
  <2>2. pc'[w] # "reply"
    <3>1. CASE t = w
      <4>1. Home(t) < N
        BY <1>0, <1>8, ChainAssumption DEF Servers
      <4>2. QED
        BY <3>1, <4>1 DEF AfterSuccess
    <3>2. CASE t # w
      BY <1>3, <1>4, <3>2
    <3>3. QED
      BY <3>1, <3>2
  <2>3. AnswerOf(w)' = AnswerOf(w)
    BY <1>2, <1>4, <2>1, <2>2, ChainAssumption DEF AnswerOf
  <2>4. QED
    BY <1>6, <2>1, <2>3, TableStutter
<1>9. QED
  BY <1>7, <1>8

\* The head finds no entry to remove, and then the tail has none.
LEMMA TableRefuse ==
  ASSUME SingleWriter, Serial, Done, NEW t \in Threads, pc[t] \in {"del", "rm"},
         table[Home(t)][req[t].key] = Absent, Refuse(t), pc' = [pc EXCEPT ![t] = "reply"],
         UNCHANGED <<cmd, ans, req>>
  PROVE  KV!KVNext \/ UNCHANGED KV!kvVars
<1> USE DEF Serial, TInv, TypeOK
<1>1. t \in Writers /\ Home(t) = 1 /\ pc[t] \in Waiting /\ pc[t] \notin Idle
  BY FollowerFinds, FollowersAlone, HomeType DEF Threads, Waiting, Idle
<1>2. /\ req[t] = cmd[t] /\ cmd[t] \in Updates /\ ans[t] = None
  BY <1>1, ServesCommand
<1>3. cmd[t] \notin Executed(N)
  BY <1>1, <1>2, NotYetExecuted, ExecutedAtHead, ServersShape
<1>4. Executed(N)' = Executed(N)
  BY ExecutedSame DEF Refuse
<1>5. pc'[t] = "reply" /\ res'[t] = "error"
  BY DEF Refuse
<1>6. AnswerOf(t) = None
  BY <1>1, <1>2, <1>3, ChainAssumption DEF AnswerOf
<1>7. AnswerOf(t)' = "error"
  BY <1>2, <1>3, <1>4, <1>5 DEF AnswerOf
<1>8. table[N] = table[1]
  BY <1>1, TablesSame, ServersShape DEF Forwarding
<1>9. table[N][cmd[t].key] = Absent /\ table'[N] = table[N] /\ cmd[t].op = "del"
  BY <1>1, <1>2, <1>8 DEF Refuse, ServesOp
<1>10. \A c \in Clients : c # t => AnswerOf(c)' = AnswerOf(c)
  BY <1>1, OthersAnswer
<1>11. QED
  BY <1>1, <1>2, <1>6, <1>7, <1>9, <1>10, TableEffect

\* What the writer's thread answers is what took effect.
LEMMA TableReply ==
  ASSUME SingleWriter, Serial, Done, NEW t \in Threads, ReplyToClient(t)
  PROVE  UNCHANGED KV!kvVars
<1> USE DEF Serial, TInv, TypeOK
<1>1. /\ t \in Writers /\ pc[t] = "reply" /\ pc' = [pc EXCEPT ![t] = "recv"]
      /\ ans' = [ans EXCEPT ![t] = res[t]] /\ UNCHANGED <<cmd, table, applied, res>>
      /\ t \in Clients
  BY DEF ReplyToClient, Goto, Clients
<1>2. cmd[t] = req[t] /\ cmd[t] \in Updates /\ ans[t] = None /\ Home(t) = 1
  BY <1>1, HomeType DEF Bound, Idle
<1>3. Executed(N)' = Executed(N)
  BY <1>1, ExecutedSame
<1>4. res[t] = "ok" => cmd[t] \in Executed(N)
  BY <1>1, <1>2, ServersShape, ChainAssumption DEF Done, ThreadDone, Everywhere
<1>5. res[t] \in {"ok", "error"} /\ ans'[t] = res[t]
  BY <1>1
<1>6. AnswerOf(t)' = AnswerOf(t)
  BY <1>1, <1>2, <1>3, <1>4, <1>5 DEF AnswerOf
<1>7. \A c \in Clients : c # t => AnswerOf(c)' = AnswerOf(c)
  BY <1>1 DEF AnswerOf, Done, SingleWriter
<1>8. QED
  BY <1>1, <1>6, <1>7, TableStutter

LEMMA TableThread ==
  ASSUME SingleWriter, Serial, Done, NEW t \in Threads, Handler(t)
  PROVE  KV!KVNext \/ UNCHANGED KV!kvVars
<1> USE DEF Serial, TInv, TypeOK
<1>1. CASE InvokePut(t)
  <2>1. /\ pc[t] = "put" /\ Execute(t, req[t].val) /\ pc' = [pc EXCEPT ![t] = AfterSuccess(t)]
        /\ UNCHANGED <<cmd, ans, req>>
    BY <1>1 DEF InvokePut, Goto, clientVars
  <2>2. QED
    BY <2>1, TableExecute DEF Waiting
<1>2. CASE InvokeDelRemove(t) /\ table[Home(t)][req[t].key] # Absent
  <2>1. /\ pc[t] = "rm" /\ Execute(t, Absent) /\ pc' = [pc EXCEPT ![t] = AfterSuccess(t)]
        /\ UNCHANGED <<cmd, ans, req>>
    BY <1>2 DEF InvokeDelRemove, Goto, clientVars
  <2>2. req[t].val = Absent
    BY <2>1, UpdateVal DEF Bound, ServesOp, Idle
  <2>3. QED
    BY <1>2, <2>1, <2>2, TableExecute DEF Waiting
<1>3. CASE (InvokeDelCheck(t) \/ InvokeDelRemove(t)) /\ table[Home(t)][req[t].key] = Absent
  <2>1. /\ pc[t] \in {"del", "rm"} /\ Refuse(t) /\ pc' = [pc EXCEPT ![t] = "reply"]
        /\ UNCHANGED <<cmd, ans, req>>
    BY <1>3 DEF InvokeDelCheck, InvokeDelRemove, Goto, clientVars
  <2>2. QED
    BY <1>3, <2>1, TableRefuse
<1>4. CASE ReplyToClient(t)
  BY <1>4, TableReply
\* The others neither execute nor answer a client.
<1>5. ASSUME UNCHANGED <<table, applied, cmd, ans, res>>, NEW o, pc' = [pc EXCEPT ![t] = o],
             t \in Writers => res[t] = "ok" \/ (o # "reply" /\ pc[t] # "reply")
      PROVE  UNCHANGED KV!kvVars
  <2>1. \A c \in Writers : res[c] = "ok" \/ (pc'[c] = "reply" <=> pc[c] = "reply")
    BY <1>5 DEF Threads
  <2>2. QED
    BY <1>5, <2>1, TableQuiet
<1>6. CASE ReceiveFromClient(t) \/ ReceiveForwarded(t)
  <2>1. PICK u \in Updates : Accept(t, u)
    <3>1. CASE ReceiveFromClient(t)
      BY <3>1 DEF ReceiveFromClient
    <3>2. CASE ReceiveForwarded(t)
      <4>1. t - 1 \in Links /\ 1 \in 1..Len(down[t-1])
        BY <3>2, HomeType DEF ReceiveForwarded, InStep
      <4>2. down[t-1][1].msg \in Updates
        BY <4>1, QueuedShape
      <4>3. QED
        BY <3>2, <4>2 DEF ReceiveForwarded
    <3>3. QED
      BY <1>6, <3>1, <3>2
  <2>2. pc[t] = "recv" /\ pc' = [pc EXCEPT ![t] = u.op] /\ u.op # "reply"
    BY <2>1, UpdateShape DEF Accept, Goto
  <2>3. QED
    BY <1>5, <1>6, <2>2 DEF ReceiveFromClient, ReceiveForwarded, clientVars
<1>7. CASE InvokeDelCheck(t) /\ table[Home(t)][req[t].key] # Absent
  BY <1>5, <1>7 DEF InvokeDelCheck, Goto, clientVars
<1>8. CASE WriteSize(t) \/ WriteBody(t)
  <2>1. /\ pc[t] # "reply" /\ UNCHANGED <<table, applied, cmd, ans, res>>
        /\ \/ pc' = [pc EXCEPT ![t] = "wbody"] \/ pc' = [pc EXCEPT ![t] = "rsize"]
           \/ pc' = [pc EXCEPT ![t] = "spin"]
    BY <1>8 DEF WriteSize, WriteBody, Write, clientVars
  <2>2. QED
    BY <1>5, <2>1
<1>9. CASE ReadSize(t) \/ ReadBody(t)
  <2>1. /\ pc[t] \in {"rsize", "rbody"} /\ UNCHANGED <<table, applied, cmd, ans, res>>
        /\ \/ pc' = [pc EXCEPT ![t] = "rbody"] \/ pc' = [pc EXCEPT ![t] = "reply"]
    BY <1>9 DEF ReadSize, ReadBody, Goto, clientVars
  <2>2. res[t] = "ok"
    BY <2>1 DEF Done, ThreadDone
  <2>3. QED
    BY <1>5, <2>1, <2>2
<1>10. CASE ReplyUpstream(t)
  <2>1. /\ t \notin Writers /\ UNCHANGED <<table, applied, cmd, ans, res>>
        /\ pc' = [pc EXCEPT ![t] = "recv"]
    BY <1>10, HomeType DEF ReplyUpstream, Goto, clientVars
  <2>2. QED
    BY <1>5, <2>1
<1>11. QED
  BY <1>1, <1>2, <1>3, <1>4, <1>6, <1>7, <1>8, <1>9, <1>10, SerialHandler

\* The steps of the clients, and the reads of the tail.
LEMMA TableClient ==
  ASSUME SingleWriter, Serial, Done, NEW c \in Clients, Client(c) \/ ServeGet(c)
  PROVE  KV!KVNext
<1> USE DEF Serial, TInv, TypeOK
<1> DEFINE P == [d \in Clients |-> Command(cmd[d])]
           R == [d \in Clients |-> AnswerOf(d)]
<1>1. /\ UNCHANGED <<table, applied, pc, res>>
      /\ Executed(N)' = Executed(N)
      /\ \A d \in Clients : d # c => cmd'[d] = cmd[d] /\ ans'[d] = ans[d]
  BY ExecutedSame DEF Client, SendUpdate, SendGet, ReadAnswer, ServeGet, linkVars
<1>2. \A d \in Clients : d # c => AnswerOf(d)' = AnswerOf(d) /\ Command(cmd[d])' = Command(cmd[d])
  BY <1>1 DEF AnswerOf, Command
<1>3. /\ P' = [P EXCEPT ![c] = Command(cmd'[c])]
      /\ R' = [R EXCEPT ![c] = AnswerOf(c)']
      /\ P[c] = Command(cmd[c]) /\ R[c] = AnswerOf(c)
  BY <1>2 DEF Command
<1>4. CASE SendUpdate(c) \/ SendGet(c)
  <2>1. /\ cmd[c] = None /\ cmd'[c] \in Updates \cup Gets /\ ans' = ans
        /\ cmd'[c] \in Updates => c \in Writers /\ cmd'[c].nth = issued[c] + 1 /\ cmd'[c].by = c
    BY <1>4, GetShape, UpdateShape DEF SendUpdate, SendGet
  <2>2. ans[c] = None /\ Command(cmd[c]) = None /\ cmd[c] \notin Updates
    BY <2>1, NoneAssumption DEF Bound, Command
  <2>3. AnswerOf(c) = None
    BY <2>2 DEF AnswerOf
  <2>4. AnswerOf(c)' = None
    <3>1. CASE cmd'[c] \in Updates
      <4>1. pc'[c] # "reply" /\ ans'[c] = None
        BY <1>1, <2>1, <2>2, <3>1, HomeType DEF Bound, Idle, Threads
      <4>2. cmd'[c] \notin Executed(1)
        BY <2>1, <3>1, ChainAssumption DEF Order, HeadOrder
      <4>3. cmd'[c] \notin Executed(N)'
        BY <1>1, <4>2, ExecutedAtHead, ServersShape
      <4>4. QED
        BY <4>1, <4>3, ChainAssumption DEF AnswerOf
    <3>2. CASE cmd'[c] \notin Updates
      BY <2>1, <2>2, <3>2 DEF AnswerOf
    <3>3. QED
      BY <3>1, <3>2
  <2>5. Command(cmd'[c]) \in KV!Commands
    BY <2>1, CommandType
  <2>6. R' = R /\ P[c] = None
    BY <1>3, <2>2, <2>3, <2>4
  <2> HIDE DEF P, R
  <2>7. KV!Send(c, Command(cmd'[c]))
    BY <1>1, <1>3, <2>6 DEF KV!Send, P, R
  <2>8. QED
    BY <2>5, <2>7 DEF KV!KVNext
<1>5. CASE ReadAnswer(c)
  <2>1. ans[c] # None /\ cmd'[c] = None /\ ans'[c] = None
    BY <1>5 DEF ReadAnswer
  <2>2. AnswerOf(c) # None
    <3>1. CASE cmd[c] \in Updates
      <4>1. ans[c] \in {"ok", "error"} /\ (ans[c] = "ok" => Everywhere(cmd[c], 1))
        BY <2>1, <3>1 DEF Done, AnswerDone
      <4>2. ans[c] = "ok" => cmd[c] \in Executed(N)
        BY <4>1, ServersShape, ChainAssumption DEF Everywhere
      <4>3. QED
        BY <3>1, <4>1, <4>2, ChainAssumption DEF AnswerOf
    <3>2. CASE cmd[c] \notin Updates
      BY <2>1, <3>2 DEF AnswerOf
    <3>3. QED
      BY <3>1, <3>2
  <2>3. AnswerOf(c)' = None /\ Command(cmd'[c]) = None
    BY <2>1, NoneAssumption DEF AnswerOf, Command
  <2> HIDE DEF P, R
  <2>4. KV!Return(c)
    BY <1>1, <1>3, <2>2, <2>3 DEF KV!Return, P, R
  <2>5. QED
    BY <2>4 DEF KV!KVNext
<1>6. CASE ServeGet(c)
  <2>1. /\ cmd[c] # None /\ cmd[c].op = "get" /\ ans[c] = None /\ cmd' = cmd
        /\ ans'[c] = table[N][cmd[c].key]
    BY <1>6 DEF ServeGet
  <2>2. cmd[c] \notin Updates /\ cmd[c] \in Gets
    BY <2>1, UpdateShape
  <2>3. /\ AnswerOf(c) = None /\ AnswerOf(c)' = table[N][cmd[c].key] /\ P' = P
        /\ Command(cmd[c]) # None /\ Command(cmd[c]).op = "get"
        /\ Command(cmd[c]).key = cmd[c].key
    BY <2>1, <2>2, CommandType DEF AnswerOf, Command
  <2> HIDE DEF P, R
  <2>4. KV!Respond(c, table[N][cmd[c].key])
    BY <1>3, <2>3 DEF KV!Respond, P, R
  <2>5. KV!TakesEffect(c)
    BY <1>1, <1>3, <2>3, <2>4 DEF KV!TakesEffect, P
  <2>6. QED
    BY <2>5 DEF KV!KVNext
<1>7. QED
  BY <1>4, <1>5, <1>6 DEF Client

\* With one writer, the chain is one table to all its clients: client_handler,
\* invoke and the stub implement KVStore, where an update takes effect when the
\* tail executes it and a get when the tail reads its table.
THEOREM OneTableHolds ==
  ASSUME SingleWriter
  PROVE  Spec => OneTable
<1>1. Init => KV!KVInit
  <2> SUFFICES ASSUME Init PROVE KV!KVInit
    OBVIOUS
  <2>1. table[N] = [k \in Keys |-> Absent]
    BY ServersShape DEF Init
  <2>2. \A c \in Clients : Command(cmd[c]) = None /\ AnswerOf(c) = None
    BY NoneAssumption DEF Init, Command, AnswerOf
  <2>3. QED
    BY <2>1, <2>2 DEF KV!KVInit
<1>2. Serial /\ Done /\ [Next]_vars => [KV!KVNext]_(KV!kvVars)
  <2> SUFFICES ASSUME Serial, Done, [Next]_vars
               PROVE  KV!KVNext \/ UNCHANGED KV!kvVars
    OBVIOUS
  <2>1. CASE UNCHANGED vars
    <3>1. Executed(N)' = Executed(N)
      BY <2>1, ExecutedSame DEF vars
    <3>2. \A c \in Clients : AnswerOf(c)' = AnswerOf(c)
      BY <2>1, <3>1 DEF AnswerOf, vars
    <3>3. QED
      BY <2>1, <3>2, TableStutter DEF vars
  <2>2. QED
    BY <2>1, TableThread, TableClient DEF Next
<1>3. Spec => []Serial /\ []Done
  BY SerialAlways, DoneAlways
<1>4. QED
  BY <1>1, <1>2, <1>3, PTL DEF Spec, OneTable, KV!KVSpec
=============================================================================
