--------------------------- MODULE FailoverProofs ---------------------------
(***************************************************************************)
(* Theorems about Failover, for any number of servers that join and die.   *)
(***************************************************************************)
EXTENDS Failover, FiniteSetTheorems, WellFoundedInduction, TLAPS

-----------------------------------------------------------------------------
(* The next server, and the one before *)

LEMMA LeastExists ==
  ASSUME NEW S \in SUBSET Nat, S # {}
  PROVE  \E n \in S : \A m \in S : n <= m
<1> DEFINE R == OpToRel(<, Nat)
<1>1. IsWellFoundedOn(R, Nat)
  BY NatLessThanWellFounded
<1>2. \A x, y \in Nat : y < x => <<y, x>> \in R
  BY DEF OpToRel
<1> HIDE DEF R
<1>3. \E x \in S : \A y \in S : ~ (<<y, x>> \in R)
  BY <1>1, WFMin
<1>4. PICK x \in S : \A y \in S : ~ (<<y, x>> \in R)
  BY <1>3
<1>5. \A y \in S : ~ (y < x)
  BY <1>2, <1>4
<1>6. QED
  BY <1>5

LEMMA MinIsLeast ==
  ASSUME NEW S \in SUBSET Servers, S # {}
  PROVE  Min(S) \in S /\ \A x \in S : Min(S) <= x
<1>1. S \in SUBSET Nat
  BY FailoverAssumption DEF Servers
<1>2. \E n \in S : \A m \in S : n <= m
  BY <1>1, LeastExists
<1>3. QED
  BY <1>2 DEF Min

LEMMA MaxIsGreatest ==
  ASSUME NEW S \in SUBSET Servers, S # {}
  PROVE  Max(S) \in S /\ \A x \in S : x <= Max(S)
<1> USE FailoverAssumption DEF Servers
<1> DEFINE T == {N - x : x \in S}
<1>1. T \in SUBSET Nat
  <2>1. \A x \in S : N - x \in Nat
    OBVIOUS
  <2>2. QED
    BY <2>1
<1>2. T # {}
  OBVIOUS
<1>3. \E n \in T : \A m \in T : n <= m
  <2> HIDE DEF T
  <2>1. QED
    BY <1>1, <1>2, LeastExists
<1>4. PICK n \in T : \A m \in T : n <= m
  BY <1>3
<1>5. n \in {N - x : x \in S}
  BY <1>4
<1>6. PICK x \in S : n = N - x
  BY <1>5
<1>7. \A y \in S : N - x <= N - y
  BY <1>4, <1>6
<1>8. \A y \in S : y \in Int
  OBVIOUS
<1>9. \A y \in S : x >= y
  BY <1>6, <1>7, <1>8
<1>10. \E z \in S : \A y \in S : z >= y
  BY <1>6, <1>9
<1>11. Max(S) \in S /\ \A y \in S : Max(S) >= y
  BY <1>10, Zenon DEF Max
<1>12. QED
  BY <1>8, <1>11

-----------------------------------------------------------------------------
(* Who serves, who is gone, who is still to come *)

Gone(s)   == proc[s] \in {"down", "undefined"}
Coming(s) == proc[s] \in {"absent", "set_table", "gettable", "size"}

Procs == {"absent", "set_table", "gettable", "size", "up", "down", "undefined"}

\* Servers come in their order, and one that lives has a znode.
Order ==
  /\ proc \in [Servers -> Procs] /\ znodes \in SUBSET Servers
  /\ proc[1] = "up"
  /\ \A s \in Servers : Alive(s) => s \in znodes
  /\ \A s \in znodes : proc[s] # "absent"
  /\ \A s \in Servers, o \in Servers : o < s /\ proc[s] # "absent" => proc[o] # "absent"

\* Between a server and the one that it forwards to, and between one that copies
\* and its source, there are only servers that are gone.
Skips(o, s) == \A x \in Servers : o < x /\ x < s => Gone(x)

Links ==
  /\ link \in [Servers -> 0..N] /\ source \in [Servers -> 0..N]
  /\ \A s \in Servers : link[s] # 0 =>
       /\ s < link[s] /\ Skips(s, link[s]) /\ proc[link[s]] # "absent"
       /\ \A x \in znodes : ~(s < x /\ x < link[s])
  /\ \A s \in Servers : proc[s] \in {"gettable", "size"} =>
       source[s] \in Servers /\ source[s] < s /\ Skips(source[s], s)

\* Whoever has no znode, and is older than one that came, is gone.
LEMMA NoZnodeIsGone ==
  ASSUME Order, NEW o \in Servers, NEW s \in Servers, proc[s] # "absent",
         \A x \in znodes : ~(o < x /\ x < s)
  PROVE  Skips(o, s)
<1> SUFFICES ASSUME NEW x \in Servers, o < x, x < s PROVE Gone(x)
  BY DEF Skips
<1>1. x \notin znodes /\ ~Alive(x) /\ proc[x] # "absent" /\ proc[x] \in Procs
  BY DEF Order
<1>2. QED
  BY <1>1 DEF Alive, Gone, Procs

\* Nobody comes back, and the znodes that come are younger than every link.
LEMMA LinksKept ==
  ASSUME Links, link' = link, source' = source, NEW Z, znodes' = znodes \cup Z,
         \A s \in Servers : Gone(s) => Gone(s)',
         \A s \in Servers : proc[s] # "absent" => proc'[s] # "absent",
         \A s \in Servers : proc'[s] \in {"gettable", "size"} => proc[s] \in {"gettable", "size"},
         \A s \in Servers, x \in Z : link[s] # 0 => ~(x < link[s])
  PROVE  Links'
<1>1. \A o, s \in Servers : Skips(o, s) => Skips(o, s)'
  BY DEF Skips
<1>2. ASSUME NEW s \in Servers, link[s] # 0
      PROVE  /\ s < link[s] /\ Skips(s, link[s])' /\ proc'[link[s]] # "absent"
             /\ \A x \in znodes' : ~(s < x /\ x < link[s])
  <2>1. PICK l \in Servers : l = link[s]
    BY <1>2, FailoverAssumption DEF Links, Servers
  <2>2. s < l /\ Skips(s, l) /\ proc[l] # "absent" /\ \A x \in znodes : ~(s < x /\ x < l)
    BY <1>2, <2>1 DEF Links
  <2>3. \A x \in Z : ~(x < l)
    BY <1>2, <2>1
  <2>4. Skips(s, l)' /\ proc'[l] # "absent"
    BY <1>1, <2>2
  <2>5. QED
    BY <2>1, <2>2, <2>3, <2>4
<1>3. ASSUME NEW s \in Servers, proc'[s] \in {"gettable", "size"}
      PROVE  source[s] \in Servers /\ source[s] < s /\ Skips(source[s], s)'
  <2>1. PICK p \in Servers : p = source[s] /\ p < s /\ Skips(p, s)
    BY <1>3 DEF Links
  <2>2. QED
    BY <1>1, <2>1
<1>4. QED
  BY <1>2, <1>3 DEF Links

LEMMA LinksAlways == Spec => [](Order /\ Links)
<1> USE FailoverAssumption DEF Order, Links, Skips, Gone, Procs, Servers, Alive, Serves
<1>1. Init => Order /\ Links
  BY DEF Init
<1>2. Order /\ Links /\ [Next]_vars => (Order /\ Links)'
  <2> SUFFICES ASSUME Order, Links, [Next]_vars PROVE (Order /\ Links)'
    OBVIOUS
  <2>1. CASE UNCHANGED <<proc, znodes, link, source>>
    BY <2>1
  <2>2. ASSUME NEW s \in Servers, Crash(s) PROVE (Order /\ Links)'
    BY <2>2 DEF Crash
  <2>3. ASSUME NEW s \in Servers, Expire(s) PROVE (Order /\ Links)'
    BY <2>3 DEF Expire, Notify
  <2>4. ASSUME NEW s \in Servers, Relink(s) PROVE (Order /\ Links)'
    <3>1. ASSUME Younger(s) # {}
          PROVE  /\ Min(Younger(s)) \in Younger(s)
                 /\ \A x \in Younger(s) : Min(Younger(s)) <= x
      <4>1. Younger(s) \in SUBSET Servers
        BY DEF Younger
      <4>2. QED
        BY ONLY <3>1, <4>1, MinIsLeast
    <3>2. link'[s] # 0 => link'[s] \in Younger(s) /\ \A x \in Younger(s) : link'[s] <= x
      BY <2>4, <3>1 DEF Relink
    <3>3. ASSUME link'[s] # 0
          PROVE  /\ link'[s] \in Servers /\ s < link'[s] /\ Skips(s, link'[s])
                 /\ proc[link'[s]] # "absent" /\ \A x \in znodes : ~(s < x /\ x < link'[s])
      <4>1. link'[s] \in znodes /\ s < link'[s] /\ \A x \in znodes : s < x => link'[s] <= x
        BY <3>2, <3>3 DEF Younger
      <4>2. link'[s] \in Servers /\ proc[link'[s]] # "absent"
        BY <4>1
      <4>3. \A x \in znodes : ~(s < x /\ x < link'[s])
        BY <4>1, <4>2
      <4>4. Skips(s, link'[s])
        BY ONLY <4>2, <4>3, NoZnodeIsGone, Order
      <4>5. QED
        BY <4>1, <4>2, <4>3, <4>4
    <3>4. link'[s] \in 0..N
      <4>1. CASE link'[s] = 0
        BY <4>1
      <4>2. CASE link'[s] # 0
        BY <3>3, <4>2
      <4>3. QED
        BY <4>1, <4>2
    <3>5. /\ proc' = proc /\ znodes' = znodes /\ source' = source
          /\ link' = [link EXCEPT ![s] = link'[s]]
      BY <2>4 DEF Relink
    <3>6. PICK l \in 0..N : /\ link' = [link EXCEPT ![s] = l]
                            /\ l # 0 => /\ s < l /\ Skips(s, l) /\ proc[l] # "absent"
                                        /\ \A x \in znodes : ~(s < x /\ x < l)
      BY ONLY <3>3, <3>4, <3>5
    <3>7. Links'
      <4>1. link'[s] = l /\ \A x \in Servers : x # s => link'[x] = link[x]
        BY <3>6
      <4>2. link' \in [Servers -> 0..N]
        BY <3>6
      <4>3. \A o \in Servers, x \in Servers : Skips(o, x)' = Skips(o, x)
        BY <3>5
      <4>4. ASSUME NEW x \in Servers, link'[x] # 0
            PROVE  /\ x < link'[x] /\ Skips(x, link[x])' /\ proc[link'[x]] # "absent"
                   /\ \A z \in znodes : ~(x < z /\ z < link'[x])
        <5>1. CASE x = s
          BY <3>5, <3>6, <4>1, <4>4, <5>1
        <5>2. CASE x # s
          BY <3>5, <4>1, <4>4, <5>2
        <5>3. QED
          BY <5>1, <5>2
      <4>5. QED
        BY <3>5, <4>2, <4>4
    <3>8. QED
      BY <3>5, <3>7
  <2>5. ASSUME NEW s \in Servers, Join(s) PROVE (Order /\ Links)'
    <3>1. /\ proc[s] = "absent" /\ \A o \in Servers : o < s => proc[o] # "absent"
          /\ proc' = [proc EXCEPT ![s] = "set_table"]
          /\ znodes' = znodes \cup {s} /\ link' = link /\ source' = source
      BY <2>5 DEF Join
    <3>2. Order'
      BY <3>1
    <3>3. \A x \in Servers : Gone(x) => Gone(x)'
      BY <3>1
    <3>4. \A o \in Servers : link[o] # 0 => ~(s < link[o])
      BY <3>1
    <3>5. Links'
      <4>1. \A x \in Servers : /\ proc[x] # "absent" => proc'[x] # "absent"
                               /\ proc'[x] \in {"gettable", "size"} => proc[x] \in {"gettable", "size"}
        BY <3>1
      <4>2. \A o \in Servers, x \in {s} : link[o] # 0 => ~(x < link[o])
        BY <3>4
      <4>3. QED
        BY ONLY Links, <3>1, <3>3, <4>1, <4>2, LinksKept
    <3>6. QED
      BY <3>2, <3>5
  <2>6. ASSUME NEW s \in Servers, ChooseSource(s) PROVE (Order /\ Links)'
    <3> DEFINE Z == {z \in znodes : z < s}
               p == Max(Z)
    <3>1. proc[s] = "set_table" /\ Z \in SUBSET Servers
      BY <2>6 DEF ChooseSource
    <3>2. Z # {}
      <4>1. 1 \in Servers /\ 1 \in znodes /\ s # 1
        BY <3>1
      <4>2. QED
        BY <4>1
    <3>3. p \in Z /\ \A x \in Z : x <= p
      <4> HIDE DEF Z
      <4>1. QED
        BY ONLY <3>1, <3>2, MaxIsGreatest
    <3> HIDE DEF p
    <3>4. p \in Servers /\ p < s /\ \A x \in znodes : ~(p < x /\ x < s)
      <4>1. \A x \in znodes : x \in Int /\ (x < s => x <= p)
        BY <3>3
      <4>2. p \in znodes /\ p < s
        BY <3>3
      <4>3. QED
        BY <4>1, <4>2
    <3>5. source' = [source EXCEPT ![s] = p]
          /\ proc' = [proc EXCEPT ![s] = IF Alive(p) THEN "gettable" ELSE "down"]
          /\ link' = link /\ znodes' = znodes
      BY <2>6 DEF ChooseSource, p
    <3>6. Skips(p, s)
      <4>1. proc[s] # "absent"
        BY <3>1
      <4>2. QED
        BY ONLY <3>4, <4>1, NoZnodeIsGone, Order
    <3>7. \A x \in Servers : Gone(x) => Gone(x)'
      BY <3>1, <3>5
    <3>8. Order'
      <4>1. PICK q \in {"gettable", "down"} : proc' = [proc EXCEPT ![s] = q]
        BY <3>5
      <4>2. /\ proc'[s] = q /\ s # 1 /\ s \in znodes
            /\ \A x \in Servers : x # s => proc'[x] = proc[x]
            /\ proc' \in [Servers -> Procs]
        BY <3>1, <4>1
      <4>3. \A x \in Servers : (proc'[x] # "absent") = (proc[x] # "absent")
        BY <3>1, <4>2
      <4>4. \A x \in Servers : Alive(x)' => x \in znodes
        BY <4>2
      <4>5. QED
        BY <3>1, <3>5, <4>2, <4>3, <4>4
    <3>9. /\ \A x \in Servers : proc[x] # "absent" => proc'[x] # "absent"
          /\ \A x \in Servers : x # s => proc'[x] = proc[x] /\ source'[x] = source[x]
          /\ source'[s] = p /\ source' \in [Servers -> 0..N]
      BY <3>1, <3>4, <3>5
    <3>10. \A x \in Servers : link'[x] # 0 =>
             /\ x < link'[x] /\ (Skips(x, link[x]))' /\ proc'[link'[x]] # "absent"
             /\ \A z \in znodes' : ~(x < z /\ z < link'[x])
      BY <3>5, <3>7, <3>9
    <3>11. \A x \in Servers : proc'[x] \in {"gettable", "size"} =>
             source'[x] \in Servers /\ source'[x] < x /\ (Skips(source[x], x))'
      <4> SUFFICES ASSUME NEW x \in Servers, proc'[x] \in {"gettable", "size"}
                   PROVE  source'[x] \in Servers /\ source'[x] < x /\ (Skips(source[x], x))'
        OBVIOUS
      <4>1. CASE x = s
        BY <3>4, <3>6, <3>7, <3>9, <4>1
      <4>2. CASE x # s
        <5>1. source'[x] = source[x] /\ source[x] \in Servers /\ source[x] < x /\ Skips(source[x], x)
          BY <3>9, <4>2
        <5>2. QED
          BY <3>7, <5>1
      <4>3. QED
        BY <4>1, <4>2
    <3>12. QED
      BY <3>5, <3>8, <3>9, <3>10, <3>11
  <2>7. ASSUME NEW s \in Servers, GetTable(s) \/ Size(s) \/ CopyFails(s) PROVE (Order /\ Links)'
    <3>1. /\ link' = link /\ znodes' = znodes /\ source' = source
          /\ \E q \in {"size", "up", "undefined"} : proc' = [proc EXCEPT ![s] = q]
          /\ proc[s] \in {"gettable", "size"}
      BY <2>7 DEF GetTable, Size, CopyFails
    <3>2. Order'
      <4>1. PICK q \in {"size", "up", "undefined"} : proc' = [proc EXCEPT ![s] = q]
        BY <3>1
      <4>2. /\ proc'[s] = q /\ s # 1 /\ s \in znodes
            /\ \A x \in Servers : x # s => proc'[x] = proc[x]
            /\ proc' \in [Servers -> Procs]
        BY <3>1, <4>1
      <4>3. \A x \in Servers : (proc'[x] # "absent") = (proc[x] # "absent")
        BY <3>1, <4>2
      <4>4. \A x \in Servers : Alive(x)' => x \in znodes
        BY <4>2
      <4>5. QED
        BY <3>1, <4>2, <4>3, <4>4
    <3>3. /\ \A x \in Servers : proc[x] # "absent" => proc'[x] # "absent"
          /\ \A x \in Servers : Gone(x) => Gone(x)'
          /\ \A x \in Servers : proc'[x] \in {"gettable", "size"} =>
               proc[x] \in {"gettable", "size"}
      BY <3>1
    <3>4. Links'
      <4>1. znodes' = znodes \cup {}
        BY <3>1
      <4>2. QED
        BY ONLY Links, <3>1, <3>3, <4>1, LinksKept
    <3>5. QED
      BY <3>2, <3>4
  <2>8. ASSUME NEW f \in Senders, NEW s \in Servers,
               Execute(f, s) \/ Forward(f, s) \/ Forwarded(f, s) \/ Answer(f, s)
        PROVE (Order /\ Links)'
    BY <2>1, <2>8 DEF Execute, Forward, Forwarded, Answer
  <2>9. CASE Send
    BY <2>1, <2>9 DEF Send
  <2>10. QED
    BY <2>1, <2>2, <2>3, <2>4, <2>5, <2>6, <2>7, <2>8, <2>9 DEF Next, vars, Senders
<1>3. QED
  BY <1>1, <1>2, PTL DEF Spec

-----------------------------------------------------------------------------
(* Where the puts are that a server knows of *)

Known(o) == {u \in Updates : u.op = "put" => u.id \in had[o]}

Threads == [pc : {"idle", "answer", "stuck"}]
           \cup [pc : {"forward"}, upd : Updates] \cup [pc : {"waits"}, on : Servers]

Typed ==
  /\ table \in [Servers -> [Keys -> 0..MaxId]] /\ got \in [Servers -> [Keys -> 0..MaxId]]
  /\ had \in [Servers -> SUBSET (1..MaxId)]
  /\ sent \in [Senders -> [Servers -> Seq(Updates)]]
  /\ thread \in [Senders -> [Servers -> Threads]]
  /\ lastId \in 0..MaxId

Held == \A s \in Servers : \A k \in Keys : table[s][k] \in had[s] \cup {0}

\* Whatever s has had, was sent for its copy or is on its way to s, any older
\* server that serves has had.
Passed == \A o \in Servers, s \in Servers : o < s /\ Serves(o) =>
  /\ had[s] \subseteq had[o]
  /\ \A k \in Keys : got[s][k] \in had[o] \cup {0}
  /\ \A f \in Senders : sent[f][s] \in Seq(Known(o))

\* What a thread is going to forward, its server has done.
Working == \A f \in Senders : \A s \in Servers :
  /\ ~Serves(s) => thread[f][s] = Idle
  /\ thread[f][s].pc = "forward" => thread[f][s].upd \in Known(s)

\* Nothing reaches whoever is younger than a server that does not serve yet.
Untouched == \A o \in Servers, s \in Servers : o < s /\ Coming(o) =>
  /\ ~Serves(s) /\ proc[s] # "size"
  /\ had[s] = {} /\ got[s] = Empty
  /\ \A f \in Senders : sent[f][s] = <<>>

Upstream == Typed /\ Held /\ Passed /\ Working /\ Untouched

\* Between the one that feeds s and s there is nobody that serves or will serve.
LEMMA NobodyBetween ==
  ASSUME Order, Untouched, NEW p \in Servers, NEW s \in Servers,
         p < s, Serves(p), Skips(p, s)
  PROVE  /\ \A o \in Servers : o < s /\ Serves(o) => o <= p
         /\ \A o \in Servers : o < s => ~Coming(o)
<1> USE FailoverAssumption DEF Servers
<1>1. \A o \in Servers : p < o /\ o < s => ~Serves(o) /\ ~Coming(o)
  BY DEF Skips, Gone, Serves, Coming
<1>2. ~Coming(p)
  BY DEF Serves, Coming
<1>3. \A o \in Servers : o < p => ~Coming(o)
  BY DEF Untouched
<1>4. QED
  BY <1>1, <1>2, <1>3

LEMMA SeqMonotone ==
  ASSUME NEW S, NEW T, S \subseteq T, NEW q \in Seq(S)
  PROVE  q \in Seq(T)
OBVIOUS

LEMMA UpstreamInit == Init => Upstream
<1> SUFFICES ASSUME Init PROVE Upstream
  OBVIOUS
<1> USE FailoverAssumption DEF Init, Servers
<1>1. Typed
  BY DEF Typed, Empty, Idle, Threads
<1>2. Held
  BY DEF Held, Empty
<1>3. Passed
  <2>1. \A o \in Servers : <<>> \in Seq(Known(o))
    OBVIOUS
  <2>2. QED
    BY <2>1 DEF Passed, Empty
<1>4. Working
  BY DEF Working, Idle
<1>5. Untouched
  BY DEF Untouched, Serves, Coming
<1>6. QED
  BY <1>1, <1>2, <1>3, <1>4, <1>5 DEF Upstream

-----------------------------------------------------------------------------
(* Steps that leave the tables alone *)

LEMMA UpstreamMoves ==
  ASSUME Order, Upstream, NEW s \in Servers,
         \/ Crash(s) \/ Expire(s) \/ Relink(s) \/ Join(s) \/ ChooseSource(s) \/ CopyFails(s)
  PROVE  Upstream'
<1> USE FailoverAssumption DEF Servers
<1>1. table' = table /\ got' = got /\ had' = had /\ lastId' = lastId
  BY DEF Crash, Expire, Relink, Join, ChooseSource, CopyFails
<1>2. /\ \A o \in Servers : Serves(o)' => Serves(o)
      /\ \A o \in Servers : Coming(o)' => Coming(o)
      /\ \A o \in Servers : proc'[o] = "size" => proc[o] = "size"
  BY DEF Order, Procs, Serves, Alive, Coming, Crash, Expire, Relink, Join, ChooseSource, CopyFails
<1>3. /\ sent' \in [Senders -> [Servers -> Seq(Updates)]]
      /\ thread' \in [Senders -> [Servers -> Threads]]
      /\ \A f \in Senders : \A o \in Servers :
           /\ sent'[f][o] = sent[f][o] \/ sent'[f][o] = <<>>
           /\ thread'[f][o] = thread[f][o] \/ thread'[f][o] = Idle
           /\ Serves(o) /\ ~Serves(o)' => thread'[f][o] = Idle
  <2> USE DEF Upstream, Typed
  <2>1. CASE Crash(s)
    BY <2>1 DEF Crash, Threads, Idle, Serves, Order
  <2>2. CASE Expire(s) \/ Relink(s)
    BY <2>2 DEF Expire, Relink, Serves
  <2>3. CASE Join(s) \/ ChooseSource(s) \/ CopyFails(s)
    BY <2>3 DEF Join, ChooseSource, CopyFails, Serves, Order
  <2>4. QED
    BY <2>1, <2>2, <2>3
<1>4. \A o \in Servers : Known(o)' = Known(o)
  BY <1>1 DEF Known
<1>5. Typed'
  BY <1>1, <1>3 DEF Upstream, Typed
<1>6. Held'
  BY <1>1 DEF Upstream, Held
<1>7. Passed'
  <2> SUFFICES ASSUME NEW o \in Servers, NEW y \in Servers, o < y, Serves(o)'
               PROVE  /\ had'[y] \subseteq had'[o]
                      /\ \A k \in Keys : got'[y][k] \in had'[o] \cup {0}
                      /\ \A f \in Senders : sent'[f][y] \in Seq(Known(o)')
    BY DEF Passed
  <2>1. Serves(o) /\ Known(o)' = Known(o)
    BY <1>2, <1>4
  <2>2. /\ had[y] \subseteq had[o]
        /\ \A k \in Keys : got[y][k] \in had[o] \cup {0}
        /\ \A f \in Senders : sent[f][y] \in Seq(Known(o))
    BY <2>1 DEF Upstream, Passed
  <2>3. <<>> \in Seq(Known(o))
    OBVIOUS
  <2>4. \A f \in Senders : sent'[f][y] \in Seq(Known(o))
    BY <1>3, <2>2, <2>3
  <2>5. QED
    BY <1>1, <2>1, <2>2, <2>4
<1>8. Working'
  <2> SUFFICES ASSUME NEW f \in Senders, NEW o \in Servers
               PROVE  /\ ~Serves(o)' => thread'[f][o] = Idle
                      /\ thread'[f][o].pc = "forward" => thread'[f][o].upd \in Known(o)'
    BY DEF Working
  <2>1. ~Serves(o)' => thread'[f][o] = Idle
    BY <1>3 DEF Upstream, Working
  <2>2. thread'[f][o].pc = "forward" => thread'[f][o] = thread[f][o]
    BY <1>3 DEF Idle
  <2>3. thread[f][o].pc = "forward" => thread[f][o].upd \in Known(o)
    BY DEF Upstream, Working
  <2>4. QED
    BY <1>4, <2>1, <2>2, <2>3
<1>9. Untouched'
  <2> SUFFICES ASSUME NEW o \in Servers, NEW y \in Servers, o < y, Coming(o)'
               PROVE  /\ ~Serves(y)' /\ proc'[y] # "size"
                      /\ had'[y] = {} /\ got'[y] = Empty
                      /\ \A f \in Senders : sent'[f][y] = <<>>
    BY DEF Untouched
  <2>1. /\ ~Serves(y) /\ proc[y] # "size" /\ had[y] = {} /\ got[y] = Empty
        /\ \A f \in Senders : sent[f][y] = <<>>
    BY <1>2 DEF Upstream, Untouched
  <2>2. QED
    BY <1>1, <1>2, <1>3, <2>1
<1>10. QED
  BY <1>5, <1>6, <1>7, <1>8, <1>9 DEF Upstream

-----------------------------------------------------------------------------
(* Updates *)

LEMMA UpstreamSend ==
  ASSUME Order, Upstream, Send PROVE Upstream'
<1> USE FailoverAssumption DEF Servers
<1>1. /\ table' = table /\ got' = got /\ had' = had /\ thread' = thread /\ proc' = proc
      /\ lastId' = lastId + 1 /\ lastId < MaxId
  BY DEF Send
<1>2. PICK u \in Updates : sent' = [sent EXCEPT ![Client][1] = Append(@, u)]
  <2>1. PICK op \in {"put", "del"}, k \in Keys :
          sent' = [sent EXCEPT ![Client][1] =
                     Append(@, [op |-> op, key |-> k, id |-> lastId + 1])]
    BY DEF Send
  <2>2. lastId + 1 \in 1..MaxId
    BY <1>1 DEF Upstream, Typed
  <2>3. [op |-> op, key |-> k, id |-> lastId + 1] \in Updates
    BY <2>2 DEF Updates
  <2>4. QED
    BY <2>1, <2>3
<1>3. /\ sent' \in [Senders -> [Servers -> Seq(Updates)]]
      /\ \A f \in Senders : \A o \in Servers : o # 1 => sent'[f][o] = sent[f][o]
  <2> Client \in Senders /\ 1 \in Servers
    BY DEF Senders
  <2>1. QED
    BY <1>2 DEF Upstream, Typed
<1>4. \A o \in Servers : /\ Known(o)' = Known(o)
                         /\ (Serves(o))' = Serves(o) /\ (Coming(o))' = Coming(o)
  BY <1>1 DEF Known, Serves, Coming
<1>5. Typed'
  BY <1>1, <1>3 DEF Upstream, Typed
<1>6. Held'
  BY <1>1 DEF Upstream, Held
<1>7. Passed'
  <2> SUFFICES ASSUME NEW o \in Servers, NEW y \in Servers, o < y, Serves(o)'
               PROVE  /\ had'[y] \subseteq had'[o]
                      /\ \A k \in Keys : got'[y][k] \in had'[o] \cup {0}
                      /\ \A f \in Senders : sent'[f][y] \in Seq(Known(o)')
    BY DEF Passed
  <2>1. Serves(o) /\ Known(o)' = Known(o) /\ y # 1
    BY <1>4
  <2>2. QED
    BY <1>1, <1>3, <2>1 DEF Upstream, Passed
<1>8. Working'
  BY <1>1, <1>4 DEF Upstream, Working
<1>9. Untouched'
  <2> SUFFICES ASSUME NEW o \in Servers, NEW y \in Servers, o < y, Coming(o)
               PROVE  /\ ~Serves(y)' /\ proc'[y] # "size"
                      /\ had'[y] = {} /\ got'[y] = Empty
                      /\ \A f \in Senders : sent'[f][y] = <<>>
    BY <1>4 DEF Untouched
  <2>1. /\ ~Serves(y) /\ proc[y] # "size" /\ had[y] = {} /\ got[y] = Empty
        /\ \A f \in Senders : sent[f][y] = <<>>
    BY DEF Upstream, Untouched
  <2>2. y # 1
    OBVIOUS
  <2>3. QED
    BY <1>1, <1>3, <1>4, <2>1, <2>2
<1>10. QED
  BY <1>5, <1>6, <1>7, <1>8, <1>9 DEF Upstream

LEMMA UpstreamExecute ==
  ASSUME Order, Upstream, NEW f \in Senders, NEW s \in Servers, Execute(f, s)
  PROVE  Upstream'
<1> USE FailoverAssumption DEF Servers
<1> DEFINE u == Head(sent[f][s])
<1>1. /\ Serves(s) /\ got' = got /\ proc' = proc /\ lastId' = lastId
      /\ sent' = [sent EXCEPT ![f][s] = Tail(@)] /\ sent[f][s] # <<>>
  BY DEF Execute
<1>2. sent[f][s] \in Seq(Updates) /\ u \in Updates
  BY <1>1 DEF Upstream, Typed
<1>3. \A o \in Servers : o < s /\ Serves(o) => u \in Known(o) /\ Tail(sent[f][s]) \in Seq(Known(o))
  BY <1>1 DEF Upstream, Passed
<1> HIDE DEF u
<1>4. /\ \A o \in Servers : o # s => had'[o] = had[o] /\ table'[o] = table[o]
      /\ had'[s] = IF u.op = "put" THEN had[s] \cup {u.id} ELSE had[s]
      /\ \A k \in Keys : table'[s][k] \in {table[s][k], 0} \cup (IF u.op = "put" THEN {u.id} ELSE {})
      /\ table' \in [Servers -> [Keys -> 0..MaxId]] /\ had' \in [Servers -> SUBSET (1..MaxId)]
  <2>1. u.key \in Keys /\ u.id \in 1..MaxId /\ u.op \in {"put", "del"}
    BY <1>2 DEF Updates
  <2>2. CASE u.op = "put"
    <3>1. /\ table' = [table EXCEPT ![s][u.key] = u.id]
          /\ had' = [had EXCEPT ![s] = @ \cup {u.id}]
      BY <2>2 DEF Execute, Put, u
    <3>2. table' \in [Servers -> [Keys -> 0..MaxId]] /\ had' \in [Servers -> SUBSET (1..MaxId)]
      BY <2>1, <3>1 DEF Upstream, Typed
    <3>3. /\ \A o \in Servers : o # s => had'[o] = had[o] /\ table'[o] = table[o]
          /\ had'[s] = had[s] \cup {u.id}
      BY <3>1 DEF Upstream, Typed
    <3>4. \A k \in Keys : table'[s][k] \in {table[s][k], u.id}
      BY <2>1, <3>1 DEF Upstream, Typed
    <3>5. QED
      BY <2>2, <3>2, <3>3, <3>4
  <2>3. CASE u.op # "put"
    <3>1. table' = [table EXCEPT ![s][u.key] = 0] /\ had' = had
      BY <2>3 DEF Execute, Del, u
    <3>2. QED
      BY <2>1, <2>3, <3>1 DEF Upstream, Typed
  <2>4. QED
    BY <2>2, <2>3
<1>5. /\ sent' \in [Senders -> [Servers -> Seq(Updates)]]
      /\ sent'[f][s] = Tail(sent[f][s])
      /\ \A g \in Senders : \A o \in Servers : ~(g = f /\ o = s) => sent'[g][o] = sent[g][o]
  BY <1>1, <1>2 DEF Upstream, Typed
<1>6. /\ thread' \in [Senders -> [Servers -> Threads]]
      /\ thread'[f][s] \in {[pc |-> "forward", upd |-> u], [pc |-> "answer"]}
      /\ \A g \in Senders : \A o \in Servers : ~(g = f /\ o = s) => thread'[g][o] = thread[g][o]
  <2>1. /\ [pc |-> "forward", upd |-> u] \in Threads /\ [pc |-> "answer"] \in Threads
    BY <1>2 DEF Threads
  <2>2. PICK t \in {[pc |-> "forward", upd |-> u], [pc |-> "answer"]} :
          thread' = [thread EXCEPT ![f][s] = t]
    BY DEF Execute, u
  <2>3. QED
    BY <2>1, <2>2 DEF Upstream, Typed
<1>7. /\ \A o \in Servers : had[o] \subseteq had'[o] /\ Known(o) \subseteq Known(o)'
      /\ u \in Known(s)'
  <2>1. \A o \in Servers : had[o] \subseteq had'[o]
    BY <1>4
  <2>2. u \in Known(s)'
    BY <1>2, <1>4 DEF Known
  <2>3. QED
    BY <2>1, <2>2 DEF Known
<1>8. \A o \in Servers : (Serves(o))' = Serves(o) /\ (Coming(o))' = Coming(o)
  BY <1>1 DEF Serves, Coming
<1>9. Typed'
  BY <1>1, <1>4, <1>5, <1>6 DEF Upstream, Typed
<1>10. Held'
  <2> SUFFICES ASSUME NEW o \in Servers, NEW k \in Keys PROVE table'[o][k] \in had'[o] \cup {0}
    BY DEF Held
  <2>1. table[o][k] \in had[o] \cup {0}
    BY DEF Upstream, Held
  <2>2. QED
    BY <1>4, <2>1
<1>11. Passed'
  <2> SUFFICES ASSUME NEW o \in Servers, NEW y \in Servers, o < y, Serves(o)
               PROVE  /\ had'[y] \subseteq had'[o]
                      /\ \A k \in Keys : got'[y][k] \in had'[o] \cup {0}
                      /\ \A g \in Senders : sent'[g][y] \in Seq(Known(o)')
    BY <1>8 DEF Passed
  <2>1. had'[y] \subseteq had'[o]
    <3>1. CASE y = s
      <4>1. u.op = "put" => u.id \in had[o]
        BY <1>3, <3>1 DEF Known
      <4>2. had[s] \subseteq had[o] /\ had[o] \subseteq had'[o]
        BY <1>7, <3>1 DEF Upstream, Passed
      <4>3. QED
        BY <1>4, <3>1, <4>1, <4>2
    <3>2. CASE y # s
      BY <1>4, <1>7, <3>2 DEF Upstream, Passed
    <3>3. QED
      BY <3>1, <3>2
  <2>2. \A k \in Keys : got'[y][k] \in had'[o] \cup {0}
    BY <1>1, <1>7 DEF Upstream, Passed
  <2>3. ASSUME NEW g \in Senders PROVE sent'[g][y] \in Seq(Known(o)')
    <3>1. sent'[g][y] \in Seq(Known(o))
      BY <1>3, <1>5 DEF Upstream, Passed
    <3>2. QED
      BY <1>7, <3>1, SeqMonotone
  <2>4. QED
    BY <2>1, <2>2, <2>3
<1>12. Working'
  BY <1>1, <1>6, <1>7, <1>8 DEF Upstream, Working
<1>13. Untouched'
  <2>1. \A o \in Servers : o < s => ~Coming(o)
    BY <1>1 DEF Upstream, Untouched
  <2> SUFFICES ASSUME NEW o \in Servers, NEW y \in Servers, o < y, Coming(o)
               PROVE  /\ ~Serves(y)' /\ proc'[y] # "size"
                      /\ had'[y] = {} /\ got'[y] = Empty
                      /\ \A g \in Senders : sent'[g][y] = <<>>
    BY <1>8 DEF Untouched
  <2>2. y # s
    BY <2>1
  <2>3. /\ ~Serves(y) /\ proc[y] # "size" /\ had[y] = {} /\ got[y] = Empty
        /\ \A g \in Senders : sent[g][y] = <<>>
    BY DEF Upstream, Untouched
  <2>4. /\ ~Serves(y)' /\ proc'[y] # "size" /\ had'[y] = {} /\ got'[y] = Empty
    BY <1>1, <1>4, <1>8, <2>2, <2>3
  <2>5. \A g \in Senders : sent'[g][y] = <<>>
    BY <1>5, <2>2, <2>3
  <2>6. QED
    BY <2>4, <2>5
<1>14. QED
  BY <1>9, <1>10, <1>11, <1>12, <1>13 DEF Upstream

LEMMA UpstreamForward ==
  ASSUME Order, Links, Upstream, NEW f \in Senders, NEW s \in Servers, Forward(f, s)
  PROVE  Upstream'
<1> USE FailoverAssumption DEF Servers
<1> DEFINE u == thread[f][s].upd
           l == link[s]
<1>1. /\ Serves(s) /\ thread[f][s].pc = "forward"
      /\ table' = table /\ got' = got /\ had' = had /\ proc' = proc /\ lastId' = lastId
  BY DEF Forward
<1>2. thread[f][s] \in Threads /\ u \in Updates /\ u \in Known(s)
  BY <1>1 DEF Upstream, Typed, Working, Known
<1>3. l # 0 => l \in Servers /\ s < l /\ Skips(s, l)
  BY DEF Links
<1> HIDE DEF u
<1>4. \/ sent' = sent
      \/ l # 0 /\ sent' = [sent EXCEPT ![s][l] = Append(@, u)]
  BY DEF Forward, u
<1> HIDE DEF l
<1>5. \E t \in Threads : t.pc # "forward" /\ thread' = [thread EXCEPT ![f][s] = t]
  <2>1. /\ [pc |-> "answer"] \in Threads /\ [pc |-> "stuck"] \in Threads
        /\ l # 0 => [pc |-> "waits", on |-> l] \in Threads
    BY <1>3 DEF Threads
  <2>2. \/ thread' = [thread EXCEPT ![f][s] = [pc |-> "answer"]]
        \/ thread' = [thread EXCEPT ![f][s] = [pc |-> "stuck"]]
        \/ l # 0 /\ thread' = [thread EXCEPT ![f][s] = [pc |-> "waits", on |-> l]]
    BY DEF Forward, Goto, l
  <2>3. QED
    BY <2>1, <2>2
<1>6. /\ thread' \in [Senders -> [Servers -> Threads]]
      /\ thread'[f][s].pc # "forward"
      /\ \A g \in Senders : \A o \in Servers : ~(g = f /\ o = s) => thread'[g][o] = thread[g][o]
  BY <1>5 DEF Upstream, Typed
<1>7. /\ sent' \in [Senders -> [Servers -> Seq(Updates)]]
      /\ \A g \in Senders : \A y \in Servers :
           \/ sent'[g][y] = sent[g][y]
           \/ l # 0 /\ y = l /\ sent'[g][y] = Append(sent[g][y], u)
  <2>1. CASE sent' = sent
    BY <2>1 DEF Upstream, Typed
  <2>2. CASE l # 0 /\ sent' = [sent EXCEPT ![s][l] = Append(@, u)]
    <3>1. s \in Senders /\ l \in Servers
      BY <1>3, <2>2 DEF Senders
    <3>2. sent \in [Senders -> [Servers -> Seq(Updates)]]
      BY DEF Upstream, Typed
    <3>3. Append(sent[s][l], u) \in Seq(Updates)
      <4>1. sent[s][l] \in Seq(Updates)
        BY <3>1, <3>2
      <4>2. QED
        BY <1>2, <4>1
    <3>4. QED
      BY <2>2, <3>1, <3>2, <3>3
  <2>3. QED
    BY <1>4, <2>1, <2>2
<1>8. \A o \in Servers : /\ (Serves(o))' = Serves(o) /\ (Coming(o))' = Coming(o)
                         /\ Known(o)' = Known(o)
  BY <1>1 DEF Serves, Coming, Known
<1>9. ASSUME l # 0
      PROVE  /\ \A o \in Servers : o < l /\ Serves(o) => u \in Known(o)
             /\ \A o \in Servers : o < l => ~Coming(o)
  <2>1. l \in Servers /\ s < l /\ Skips(s, l) /\ Untouched
    BY <1>3, <1>9 DEF Upstream
  <2>2. /\ \A o \in Servers : o < l /\ Serves(o) => o <= s
        /\ \A o \in Servers : o < l => ~Coming(o)
    BY ONLY Order, <1>1, <2>1, NobodyBetween
  <2>3. ASSUME NEW o \in Servers, o < l, Serves(o) PROVE u \in Known(o)
    <3>1. CASE o = s
      BY <1>2, <3>1
    <3>2. CASE o < s
      BY <1>2, <2>3, <3>2 DEF Upstream, Passed, Known
    <3>3. QED
      BY <2>2, <2>3, <3>1, <3>2
  <2>4. QED
    BY <2>2, <2>3
<1>10. Typed'
  BY <1>1, <1>6, <1>7 DEF Upstream, Typed
<1>11. Held'
  BY <1>1 DEF Upstream, Held
<1>12. Passed'
  <2> SUFFICES ASSUME NEW o \in Servers, NEW y \in Servers, o < y, Serves(o)'
               PROVE  /\ had'[y] \subseteq had'[o]
                      /\ \A k \in Keys : got'[y][k] \in had'[o] \cup {0}
                      /\ \A g \in Senders : sent'[g][y] \in Seq(Known(o)')
    BY DEF Passed
  <2>1. Serves(o) /\ Known(o)' = Known(o)
    BY <1>8
  <2>2. /\ had[y] \subseteq had[o]
        /\ \A k \in Keys : got[y][k] \in had[o] \cup {0}
        /\ \A g \in Senders : sent[g][y] \in Seq(Known(o))
    BY <2>1 DEF Upstream, Passed
  <2>3. ASSUME NEW g \in Senders PROVE sent'[g][y] \in Seq(Known(o))
    <3>1. CASE sent'[g][y] = sent[g][y]
      BY <2>2, <3>1
    <3>2. CASE l # 0 /\ y = l /\ sent'[g][y] = Append(sent[g][y], u)
      <4>1. u \in Known(o) /\ sent[g][y] \in Seq(Known(o))
        BY <1>9, <2>1, <2>2, <3>2
      <4>2. QED
        BY <3>2, <4>1
    <3>3. QED
      BY <1>7, <3>1, <3>2
  <2>4. QED
    BY <1>1, <2>1, <2>2, <2>3
<1>13. Working'
  <2> SUFFICES ASSUME NEW g \in Senders, NEW o \in Servers
               PROVE  /\ ~Serves(o)' => thread'[g][o] = Idle
                      /\ thread'[g][o].pc = "forward" => thread'[g][o].upd \in Known(o)'
    BY DEF Working
  <2>1. CASE g = f /\ o = s
    BY <1>1, <1>6, <1>8, <2>1
  <2>2. CASE ~(g = f /\ o = s)
    BY <1>6, <1>8, <2>2 DEF Upstream, Working
  <2>3. QED
    BY <2>1, <2>2
<1>14. Untouched'
  <2> SUFFICES ASSUME NEW o \in Servers, NEW y \in Servers, o < y, Coming(o)
               PROVE  /\ ~Serves(y)' /\ proc'[y] # "size"
                      /\ had'[y] = {} /\ got'[y] = Empty
                      /\ \A g \in Senders : sent'[g][y] = <<>>
    BY <1>8 DEF Untouched
  <2>1. /\ ~Serves(y) /\ proc[y] # "size" /\ had[y] = {} /\ got[y] = Empty
        /\ \A g \in Senders : sent[g][y] = <<>>
    BY DEF Upstream, Untouched
  <2>2. l # 0 => y # l
    BY <1>9
  <2>3. \A g \in Senders : sent'[g][y] = <<>>
    BY <1>7, <2>1, <2>2
  <2>4. QED
    BY <1>1, <1>8, <2>1, <2>3
<1>15. QED
  BY <1>10, <1>11, <1>12, <1>13, <1>14 DEF Upstream

LEMMA UpstreamAnswer ==
  ASSUME Upstream, NEW f \in Senders, NEW s \in Servers, Forwarded(f, s) \/ Answer(f, s)
  PROVE  Upstream'
<1> USE FailoverAssumption DEF Servers
<1>1. /\ Serves(s) /\ sent' = sent /\ proc' = proc /\ lastId' = lastId
      /\ table' = table /\ got' = got /\ had' = had
  BY DEF Forwarded, Answer
<1>2. PICK t \in {[pc |-> "answer"], Idle} : thread' = [thread EXCEPT ![f][s] = t]
  BY DEF Forwarded, Answer, Goto
<1>3. t \in Threads /\ t.pc # "forward"
  BY <1>2 DEF Threads, Idle
<1>4. /\ thread' \in [Senders -> [Servers -> Threads]]
      /\ thread'[f][s].pc # "forward"
      /\ \A g \in Senders : \A o \in Servers : ~(g = f /\ o = s) => thread'[g][o] = thread[g][o]
  BY <1>2, <1>3 DEF Upstream, Typed
<1>5. \A o \in Servers : /\ (Serves(o))' = Serves(o) /\ (Coming(o))' = Coming(o)
                         /\ Known(o)' = Known(o)
  BY <1>1 DEF Serves, Coming, Known
<1>6. Typed'
  BY <1>1, <1>4 DEF Upstream, Typed
<1>7. Held'
  BY <1>1 DEF Upstream, Held
<1>8. Passed'
  BY <1>1, <1>5 DEF Upstream, Passed
<1>9. Working'
  BY <1>1, <1>4, <1>5 DEF Upstream, Working
<1>10. Untouched'
  BY <1>1, <1>5 DEF Upstream, Untouched
<1>11. QED
  BY <1>6, <1>7, <1>8, <1>9, <1>10 DEF Upstream

-----------------------------------------------------------------------------
(* A server that joins *)

LEMMA UpstreamGetTable ==
  ASSUME Order, Links, Upstream, NEW s \in Servers, GetTable(s)
  PROVE  Upstream'
<1> USE FailoverAssumption DEF Servers
<1> DEFINE p == source[s]
<1>1. /\ Serves(p) /\ proc[s] = "gettable" /\ proc' = [proc EXCEPT ![s] = "size"]
      /\ got' = [got EXCEPT ![s] = table[p]]
      /\ table' = table /\ had' = had /\ sent' = sent /\ thread' = thread /\ lastId' = lastId
  BY DEF GetTable
<1>2. p \in Servers /\ p < s /\ Skips(p, s)
  BY <1>1 DEF Links
<1> HIDE DEF p
<1>3. \A o \in Servers : /\ (Serves(o))' = Serves(o) /\ (Coming(o))' = Coming(o)
                         /\ Known(o)' = Known(o)
                         /\ o # s => proc'[o] = proc[o]
  BY <1>1 DEF Order, Serves, Coming, Known
<1>4. /\ \A o \in Servers : o < s /\ Serves(o) => o <= p
      /\ \A o \in Servers : o < s => ~Coming(o)
  <2>1. Untouched
    BY DEF Upstream
  <2>2. QED
    BY ONLY Order, <1>1, <1>2, <2>1, NobodyBetween
<1>5. /\ got' \in [Servers -> [Keys -> 0..MaxId]]
      /\ got'[s] = table[p]
      /\ \A o \in Servers : o # s => got'[o] = got[o]
  BY <1>1, <1>2 DEF Upstream, Typed
<1>6. Typed'
  BY <1>1, <1>5 DEF Upstream, Typed
<1>7. Held'
  BY <1>1 DEF Upstream, Held
<1>8. Passed'
  <2> SUFFICES ASSUME NEW o \in Servers, NEW y \in Servers, o < y, Serves(o)'
               PROVE  /\ had'[y] \subseteq had'[o]
                      /\ \A k \in Keys : got'[y][k] \in had'[o] \cup {0}
                      /\ \A g \in Senders : sent'[g][y] \in Seq(Known(o)')
    BY DEF Passed
  <2>1. Serves(o) /\ Known(o)' = Known(o)
    BY <1>3
  <2>2. ASSUME y = s PROVE \A k \in Keys : table[p][k] \in had[o] \cup {0}
    <3>1. \A k \in Keys : table[p][k] \in had[p] \cup {0}
      BY <1>2 DEF Upstream, Held
    <3>2. had[p] \subseteq had[o]
      <4>1. CASE o = p
        BY <4>1
      <4>2. CASE o < p
        BY <1>2, <2>1, <4>2 DEF Upstream, Passed
      <4>3. QED
        BY <1>2, <1>4, <2>1, <2>2, <4>1, <4>2
    <3>3. QED
      BY <3>1, <3>2
  <2>3. \A k \in Keys : got'[y][k] \in had[o] \cup {0}
    <3>1. CASE y = s
      BY <1>5, <2>2, <3>1
    <3>2. CASE y # s
      BY <1>5, <2>1, <3>2 DEF Upstream, Passed
    <3>3. QED
      BY <3>1, <3>2
  <2>4. had[y] \subseteq had[o] /\ \A g \in Senders : sent[g][y] \in Seq(Known(o))
    BY <2>1 DEF Upstream, Passed
  <2>5. QED
    BY <1>1, <2>1, <2>3, <2>4
<1>9. Working'
  BY <1>1, <1>3 DEF Upstream, Working
<1>10. Untouched'
  <2> SUFFICES ASSUME NEW o \in Servers, NEW y \in Servers, o < y, Coming(o)
               PROVE  /\ ~Serves(y)' /\ proc'[y] # "size"
                      /\ had'[y] = {} /\ got'[y] = Empty
                      /\ \A g \in Senders : sent'[g][y] = <<>>
    BY <1>3 DEF Untouched
  <2>1. y # s
    BY <1>4
  <2>2. /\ ~Serves(y) /\ proc[y] # "size" /\ had[y] = {} /\ got[y] = Empty
        /\ \A g \in Senders : sent[g][y] = <<>>
    BY DEF Upstream, Untouched
  <2>3. QED
    BY <1>1, <1>3, <1>5, <2>1, <2>2
<1>11. QED
  BY <1>6, <1>7, <1>8, <1>9, <1>10 DEF Upstream

LEMMA UpstreamSize ==
  ASSUME Order, Upstream, NEW s \in Servers, Size(s)
  PROVE  Upstream'
<1> USE FailoverAssumption DEF Servers
<1>1. /\ proc[s] = "size" /\ got' = got /\ sent' = sent /\ thread' = thread /\ lastId' = lastId
  BY DEF Size
<1>2. \/ /\ proc' = [proc EXCEPT ![s] = "undefined"] /\ table' = table /\ had' = had
      \/ \E n : /\ proc' = [proc EXCEPT ![s] = "up"]
                /\ table' = [table EXCEPT ![s] = Copied(s, n)]
                /\ had' = [had EXCEPT ![s] = {Copied(s, n)[k] : k \in Keys} \ {0}]
  BY DEF Size
<1>3. \A o \in Servers : o < s => ~Coming(o)
  BY <1>1 DEF Upstream, Untouched
<1>4. Coming(s) /\ ~Serves(s)
  BY <1>1 DEF Coming, Serves
<1>5. /\ \A o \in Servers : o # s => /\ proc'[o] = proc[o]
                                     /\ (Serves(o))' = Serves(o) /\ (Coming(o))' = Coming(o)
                                     /\ table'[o] = table[o] /\ had'[o] = had[o]
                                     /\ Known(o)' = Known(o)
      /\ ~Coming(s)'
  <2>1. \A o \in Servers : o # s => proc'[o] = proc[o] /\ table'[o] = table[o] /\ had'[o] = had[o]
    BY <1>2 DEF Order, Upstream, Typed
  <2>2. ~Coming(s)'
    BY <1>2 DEF Order, Coming
  <2>3. QED
    BY <2>1, <2>2 DEF Serves, Coming, Known
<1>6. /\ table' \in [Servers -> [Keys -> 0..MaxId]] /\ had' \in [Servers -> SUBSET (1..MaxId)]
      /\ \A k \in Keys : table'[s][k] \in had'[s] \cup {0}
      /\ Serves(s)' => \A i \in had'[s] : \E k \in Keys : i = got[s][k]
  <2>1. CASE proc' = [proc EXCEPT ![s] = "undefined"] /\ table' = table /\ had' = had
    BY <2>1 DEF Upstream, Typed, Held, Serves, Order
  <2>2. ASSUME NEW n,
               /\ table' = [table EXCEPT ![s] = Copied(s, n)]
               /\ had' = [had EXCEPT ![s] = {Copied(s, n)[k] : k \in Keys} \ {0}]
        PROVE  /\ table' \in [Servers -> [Keys -> 0..MaxId]] /\ had' \in [Servers -> SUBSET (1..MaxId)]
               /\ \A k \in Keys : table'[s][k] \in had'[s] \cup {0}
               /\ \A i \in had'[s] : \E k \in Keys : i = got[s][k]
    <3> DEFINE c == Copied(s, n)
    <3>1. got[s] \in [Keys -> 0..MaxId]
      BY DEF Upstream, Typed
    <3>2. c \in [Keys -> 0..MaxId] /\ \A k \in Keys : c[k] \in {got[s][k], 0}
      BY <3>1 DEF Copied
    <3> HIDE DEF c
    <3>3. table' = [table EXCEPT ![s] = c] /\ had' = [had EXCEPT ![s] = {c[k] : k \in Keys} \ {0}]
      BY <2>2 DEF c
    <3>4. table'[s] = c /\ had'[s] = {c[k] : k \in Keys} \ {0}
      BY <3>3 DEF Upstream, Typed
    <3>5. {c[k] : k \in Keys} \ {0} \in SUBSET (1..MaxId)
      BY <3>2
    <3>6. table' \in [Servers -> [Keys -> 0..MaxId]] /\ had' \in [Servers -> SUBSET (1..MaxId)]
      BY <3>2, <3>3, <3>5 DEF Upstream, Typed
    <3>7. \A i \in had'[s] : \E k \in Keys : i = got[s][k]
      BY <3>2, <3>4
    <3>8. \A k \in Keys : table'[s][k] \in had'[s] \cup {0}
      BY <3>4
    <3>9. QED
      BY <3>6, <3>7, <3>8
  <2>3. QED
    BY <1>2, <2>1, <2>2
<1>7. Typed'
  BY <1>1, <1>6 DEF Upstream, Typed
<1>8. Held'
  <2> SUFFICES ASSUME NEW o \in Servers, NEW k \in Keys PROVE table'[o][k] \in had'[o] \cup {0}
    BY DEF Held
  <2>1. table[o][k] \in had[o] \cup {0}
    BY DEF Upstream, Held
  <2>2. QED
    BY <1>5, <1>6, <2>1
<1>9. Passed'
  <2> SUFFICES ASSUME NEW o \in Servers, NEW y \in Servers, o < y, Serves(o)'
               PROVE  /\ had'[y] \subseteq had'[o]
                      /\ \A k \in Keys : got'[y][k] \in had'[o] \cup {0}
                      /\ \A g \in Senders : sent'[g][y] \in Seq(Known(o)')
    BY DEF Passed
  <2>1. CASE o = s
    <3>1. had[y] = {} /\ got[y] = Empty /\ \A g \in Senders : sent[g][y] = <<>>
      BY <1>4, <2>1 DEF Upstream, Untouched
    <3>2. had'[y] = {} /\ got'[y] = Empty /\ \A g \in Senders : sent'[g][y] = <<>>
      BY <1>1, <1>5, <2>1, <3>1
    <3>3. \A k \in Keys : got'[y][k] = 0
      BY <3>2 DEF Empty
    <3>4. <<>> \in Seq(Known(o)')
      OBVIOUS
    <3>5. QED
      BY <3>2, <3>3, <3>4
  <2>2. CASE o # s
    <3>1. Serves(o) /\ Known(o)' = Known(o) /\ had'[o] = had[o]
      BY <1>5, <2>2
    <3>2. /\ had[y] \subseteq had[o]
          /\ \A k \in Keys : got[y][k] \in had[o] \cup {0}
          /\ \A g \in Senders : sent[g][y] \in Seq(Known(o))
      BY <3>1 DEF Upstream, Passed
    <3>3. had'[y] \subseteq had[o]
      <4>1. CASE y # s
        BY <1>5, <3>2, <4>1
      <4>2. CASE y = s /\ Serves(s)'
        <5>1. 0 \notin had'[s]
          BY <1>2, <4>2 DEF Serves, Order, Upstream, Typed
        <5>2. QED
          BY <1>6, <3>2, <4>2, <5>1
      <4>3. CASE y = s /\ ~Serves(s)'
        <5>1. had' = had
          BY <1>2, <4>3 DEF Serves, Order
        <5>2. QED
          BY <3>2, <5>1
      <4>4. QED
        BY <4>1, <4>2, <4>3
    <3>4. QED
      BY <1>1, <3>1, <3>2, <3>3
  <2>3. QED
    BY <2>1, <2>2
<1>10. Working'
  <2> SUFFICES ASSUME NEW g \in Senders, NEW o \in Servers
               PROVE  /\ ~Serves(o)' => thread'[g][o] = Idle
                      /\ thread'[g][o].pc = "forward" => thread'[g][o].upd \in Known(o)'
    BY DEF Working
  <2>1. CASE o = s
    BY <1>1, <1>4, <2>1 DEF Upstream, Working, Idle
  <2>2. CASE o # s
    BY <1>1, <1>5, <2>2 DEF Upstream, Working
  <2>3. QED
    BY <2>1, <2>2
<1>11. Untouched'
  <2> SUFFICES ASSUME NEW o \in Servers, NEW y \in Servers, o < y, Coming(o)'
               PROVE  /\ ~Serves(y)' /\ proc'[y] # "size"
                      /\ had'[y] = {} /\ got'[y] = Empty
                      /\ \A g \in Senders : sent'[g][y] = <<>>
    BY DEF Untouched
  <2>1. o # s /\ Coming(o)
    BY <1>5
  <2>2. y # s
    BY <1>3, <2>1
  <2>3. /\ ~Serves(y) /\ proc[y] # "size" /\ had[y] = {} /\ got[y] = Empty
        /\ \A g \in Senders : sent[g][y] = <<>>
    BY <2>1 DEF Upstream, Untouched
  <2>4. QED
    BY <1>1, <1>5, <2>2, <2>3
<1>12. QED
  BY <1>7, <1>8, <1>9, <1>10, <1>11 DEF Upstream

-----------------------------------------------------------------------------
(* Together *)

LEMMA UpstreamAlways == Spec => []Upstream
<1>1. Order /\ Links /\ Upstream /\ [Next]_vars => Upstream'
  <2> SUFFICES ASSUME Order, Links, Upstream, [Next]_vars PROVE Upstream'
    OBVIOUS
  <2>1. CASE Send
    BY <2>1, UpstreamSend
  <2>2. ASSUME NEW f \in Senders, NEW s \in Servers,
               Execute(f, s) \/ Forward(f, s) \/ Forwarded(f, s) \/ Answer(f, s)
        PROVE  Upstream'
    BY <2>2, UpstreamExecute, UpstreamForward, UpstreamAnswer
  <2>3. ASSUME NEW s \in Servers,
               \/ Crash(s) \/ Expire(s) \/ Relink(s) \/ Join(s) \/ ChooseSource(s)
               \/ GetTable(s) \/ Size(s) \/ CopyFails(s)
        PROVE  Upstream'
    BY <2>3, UpstreamMoves, UpstreamGetTable, UpstreamSize
  <2>4. CASE UNCHANGED vars
    BY <2>4 DEF vars, Upstream, Typed, Held, Passed, Working, Untouched, Known, Serves, Coming
  <2>5. QED
    BY <2>1, <2>2, <2>3, <2>4 DEF Next
<1>2. QED
  BY <1>1, UpstreamInit, LinksAlways, PTL DEF Spec

\* Whoever dies or joins, in any number and order, a server never has a value that
\* an older server that still serves has never had.
THEOREM UpstreamFirstAlways == Spec => []UpstreamFirst
<1>1. Upstream => UpstreamFirst
  <2> SUFFICES ASSUME Upstream, NEW s \in Servers, NEW o \in Servers, o < s, Serves(o),
                      NEW k \in Keys
               PROVE  table[s][k] \in had[o] \cup {0}
    BY DEF UpstreamFirst
  <2>1. table[s][k] \in had[s] \cup {0} /\ had[s] \subseteq had[o]
    BY DEF Upstream, Held, Passed
  <2>2. QED
    BY <2>1
<1>2. QED
  BY <1>1, UpstreamAlways, PTL

-----------------------------------------------------------------------------
(* Types *)

Flags ==
  /\ watch \in [Servers -> BOOLEAN] /\ clean \in [Servers -> BOOLEAN]
  /\ answers \in [Senders -> [Servers -> Nat]]
  /\ client \in {"idle", "waits"}

LEMMA FlagsAlways == Spec => []Flags
<1>1. Init => Flags
  BY DEF Init, Flags
<1>2. Links /\ Flags /\ [Next]_vars => Flags'
  <2> SUFFICES ASSUME Links, Flags, [Next]_vars PROVE Flags'
    OBVIOUS
  <2> USE DEF Flags
  <2>1. CASE UNCHANGED vars
    BY <2>1 DEF vars
  <2>2. CASE Send
    BY <2>2 DEF Send
  <2>3. ASSUME NEW f \in Senders, NEW s \in Servers, Execute(f, s) \/ Forward(f, s) PROVE Flags'
    BY <2>3 DEF Execute, Forward
  <2>4. ASSUME NEW f \in Senders, NEW s \in Servers, Forwarded(f, s) PROVE Flags'
    <3> DEFINE l == thread[f][s].on
    <3>1. \/ answers' = answers
          \/ answers[s][l] > 0 /\ answers' = [answers EXCEPT ![s][l] = @ - 1]
      BY <2>4 DEF Forwarded
    <3>2. answers' \in [Senders -> [Servers -> Nat]]
      <4>1. CASE answers' = answers
        BY <4>1
      <4>2. CASE answers[s][l] > 0 /\ answers' = [answers EXCEPT ![s][l] = @ - 1]
        <5> HIDE DEF l
        <5>1. CASE l \in Servers
          <6>1. s \in Senders /\ answers[s][l] - 1 \in Nat
            BY <4>2, <5>1 DEF Senders
          <6>2. QED
            BY <4>2, <5>1, <6>1
        <5>2. CASE l \notin Servers
          <6>1. answers' = answers
            BY <4>2, <5>2
          <6>2. QED
            BY <6>1
        <5>3. QED
          BY <5>1, <5>2
      <4>3. QED
        BY <3>1, <4>1, <4>2
    <3>3. QED
      BY <2>4, <3>2 DEF Forwarded
  <2>5. ASSUME NEW f \in Senders, NEW s \in Servers, Answer(f, s) PROVE Flags'
    BY <2>5 DEF Answer
  <2>6. ASSUME NEW s \in Servers, Crash(s) \/ ChooseSource(s) \/ CopyFails(s) PROVE Flags'
    <3>1. watch' = watch /\ clean' = clean /\ answers' = answers /\ client' = client
      BY <2>6 DEF Crash, ChooseSource, CopyFails
    <3>2. QED
      BY <3>1
  <2>7. ASSUME NEW s \in Servers, Expire(s) \/ Join(s) PROVE Flags'
    <3>1. /\ watch' = [x \in Servers |-> Alive(x)]
          /\ clean' = clean /\ answers' = answers /\ client' = client
      BY <2>7 DEF Expire, Join, Notify, Alive
    <3>2. \A x \in Servers : Alive(x) \in BOOLEAN
      BY DEF Alive
    <3>3. QED
      BY <3>1, <3>2
  <2>8. ASSUME NEW s \in Servers, Relink(s) PROVE Flags'
    BY <2>8 DEF Relink
  <2>9. ASSUME NEW s \in Servers, GetTable(s) PROVE Flags'
    <3>1. clean' = [clean EXCEPT ![s] = clean[source[s]] /\ link[source[s]] = s]
          /\ watch' = watch /\ answers' = answers /\ client' = client
          /\ source[s] \in Servers
      BY <2>9 DEF GetTable, Links
    <3>2. (clean[source[s]] /\ link[source[s]] = s) \in BOOLEAN
      BY <3>1
    <3>3. QED
      BY <3>1, <3>2
  <2>10. ASSUME NEW s \in Servers, Size(s) PROVE Flags'
    <3>1. /\ \/ clean' = clean
             \/ \E b \in BOOLEAN : clean' = [clean EXCEPT ![s] = b]
          /\ watch' = watch /\ answers' = answers /\ client' = client
      BY <2>10 DEF Size
    <3>2. QED
      BY <3>1
  <2>11. QED
    BY <2>1, <2>2, <2>3, <2>4, <2>5, <2>6, <2>7, <2>8, <2>9, <2>10 DEF Next
<1>3. QED
  BY <1>1, <1>2, LinksAlways, PTL DEF Spec

\* Every variable keeps its type, however many servers join and die: no count of
\* answers goes below zero, and no id above the client's.
THEOREM TypeCorrect == Spec => []TypeOK
<1>1. Order /\ Links /\ Upstream /\ Flags => TypeOK
  BY DEF Order, Procs, Links, Upstream, Typed, Flags, TypeOK
<1>2. QED
  BY <1>1, LinksAlways, UpstreamAlways, FlagsAlways, PTL

-----------------------------------------------------------------------------
(* One request at a time *)

\* f waits for an answer of s.
Awaits(f, s) ==
  \/ f = Client /\ s = 1 /\ client = "waits"
  \/ f # Client /\ \E g \in Senders : thread[g][f] = [pc |-> "waits", on |-> s]

Quiet(f, s) == sent[f][s] = <<>> /\ thread[f][s] = Idle /\ answers[f][s] = 0

Asked(f, s) == (\E u \in Updates : sent[f][s] = <<u>>) /\ thread[f][s] = Idle /\ answers[f][s] = 0

Busy(f, s) == sent[f][s] = <<>> /\ thread[f][s] # Idle /\ answers[f][s] = 0

Answered(f, s) == sent[f][s] = <<>> /\ thread[f][s] = Idle /\ answers[f][s] = 1

\* Whoever waits, waits for the next server that is not gone.
Downstream == \A g \in Senders : \A f \in Servers, s \in Servers :
  thread[g][f] = [pc |-> "waits", on |-> s] => f < s /\ Skips(f, s) /\ proc[s] # "absent"

\* There is one request between two servers, and the sender waits for its answer.
OneRequest == \A f \in Senders : \A s \in Servers : ~Gone(s) =>
  \/ Quiet(f, s)
  \/ Awaits(f, s) /\ (Asked(f, s) \/ Busy(f, s) \/ Answered(f, s))

\* Nobody comes back.
LEMMA GoneStay ==
  ASSUME Order, [Next]_vars, NEW s \in Servers
  PROVE  /\ Gone(s) => Gone(s)'
         /\ proc[s] # "absent" => proc'[s] # "absent"
<1> USE DEF Order, Gone
<1>1. CASE UNCHANGED proc
  BY <1>1
<1>2. ASSUME NEW o \in Servers, Crash(o) \/ Expire(o) \/ Relink(o) \/ Join(o) PROVE proc' = proc
             \/ (/\ proc' = [proc EXCEPT ![o] = "down"] /\ proc[o] \notin {"absent", "down", "undefined"})
             \/ (/\ proc' = [proc EXCEPT ![o] = "set_table"] /\ proc[o] = "absent")
  BY <1>2 DEF Crash, Expire, Relink, Join, Alive
<1>3. ASSUME NEW o \in Servers, ChooseSource(o) \/ GetTable(o) \/ Size(o) \/ CopyFails(o)
      PROVE  /\ proc[o] \in {"set_table", "gettable", "size"}
             /\ \E q \in {"gettable", "down", "size", "undefined", "up"} : proc' = [proc EXCEPT ![o] = q]
  BY <1>3 DEF ChooseSource, GetTable, Size, CopyFails
<1>4. ASSUME NEW f \in Senders, NEW o \in Servers,
             Execute(f, o) \/ Forward(f, o) \/ Forwarded(f, o) \/ Answer(f, o)
      PROVE  UNCHANGED proc
  BY <1>4 DEF Execute, Forward, Forwarded, Answer
<1>5. Send => UNCHANGED proc
  BY DEF Send
<1>6. CASE \E o \in Servers : Crash(o) \/ Expire(o) \/ Relink(o) \/ Join(o)
  BY <1>2, <1>6
<1>7. CASE \E o \in Servers : ChooseSource(o) \/ GetTable(o) \/ Size(o) \/ CopyFails(o)
  BY <1>3, <1>7
<1>8. QED
  BY <1>1, <1>4, <1>5, <1>6, <1>7 DEF Next, vars

LEMMA AwaitsOlder ==
  ASSUME Order, Upstream, Downstream, NEW f \in Senders, NEW s \in Servers, Awaits(f, s)
  PROVE  /\ f < s /\ proc[s] # "absent"
         /\ f = Client => s = 1
         /\ f # Client => /\ f \in Servers /\ Serves(f) /\ Skips(f, s)
                          /\ \E g \in Senders : /\ thread[g][f] = [pc |-> "waits", on |-> s]
                                                /\ thread[g][f] # Idle
<1> USE FailoverAssumption DEF Servers, Senders, Client
<1>1. CASE f = Client
  BY <1>1 DEF Awaits, Order
<1>2. CASE f # Client
  <2>1. f \in Servers
    BY <1>2
  <2>2. PICK g \in Senders : thread[g][f] = [pc |-> "waits", on |-> s]
    BY <1>2 DEF Awaits
  <2>3. thread[g][f] # Idle
    BY <2>2 DEF Idle
  <2>4. Serves(f)
    BY <2>1, <2>3 DEF Upstream, Working
  <2>5. f < s /\ Skips(f, s) /\ proc[s] # "absent"
    BY <2>1, <2>2 DEF Downstream
  <2>6. QED
    BY <1>2, <2>1, <2>2, <2>3, <2>4, <2>5
<1>3. QED
  BY <1>1, <1>2

\* Nobody but one has asked a server something.
LEMMA OneAsks ==
  ASSUME Order, Upstream, Downstream, OneRequest,
         NEW s \in Servers, ~Gone(s), NEW f \in Senders, NEW g \in Senders,
         ~Quiet(f, s), ~Quiet(g, s)
  PROVE  f = g
<1> USE FailoverAssumption DEF Servers, Senders, Client
<1>1. Awaits(f, s) /\ Awaits(g, s)
  BY DEF OneRequest
<1>2. ASSUME NEW a \in Senders, NEW b \in Senders, Awaits(a, s), Awaits(b, s), a < b
      PROVE  FALSE
  <2>1. b # Client /\ b < s /\ Serves(b) /\ b \in Servers
    <3>1. b # Client
      BY <1>2
    <3>2. QED
      BY ONLY <1>2, <3>1, AwaitsOlder, Order, Upstream, Downstream
  <2>2. a = Client => s = 1
    BY <1>2, AwaitsOlder
  <2>3. a # Client => Skips(a, s)
    BY <1>2, AwaitsOlder
  <2>4. QED
    BY <1>2, <2>1, <2>2, <2>3 DEF Skips, Gone, Serves
<1>3. f <= g /\ g <= f
  BY <1>1, <1>2
<1>4. QED
  BY <1>3

\* Nor does a server do two things.
LEMMA OneThread ==
  ASSUME Order, Upstream, Downstream, OneRequest, NEW s \in Servers,
         NEW f \in Senders, NEW g \in Senders, thread[f][s] # Idle, thread[g][s] # Idle
  PROVE  f = g
<1>1. Serves(s)
  BY DEF Upstream, Working
<1>2. ~Gone(s) /\ ~Quiet(f, s) /\ ~Quiet(g, s)
  BY <1>1 DEF Serves, Gone, Quiet
<1>3. QED
  BY ONLY <1>2, OneAsks, Order, Upstream, Downstream, OneRequest

LEMMA DownstreamStep ==
  ASSUME Order, Links, Downstream, [Next]_vars,
         \A g \in Senders : \A f \in Servers, s \in Servers :
           thread'[g][f] = [pc |-> "waits", on |-> s] => thread'[g][f] = thread[g][f] \/ link[f] = s
  PROVE  Downstream'
<1> SUFFICES ASSUME NEW g \in Senders, NEW f \in Servers, NEW s \in Servers,
                    thread'[g][f] = [pc |-> "waits", on |-> s]
             PROVE  f < s /\ Skips(f, s)' /\ proc'[s] # "absent"
  BY DEF Downstream
<1>1. f < s /\ Skips(f, s) /\ proc[s] # "absent"
  <2>1. CASE thread'[g][f] = thread[g][f]
    BY <2>1 DEF Downstream
  <2>2. CASE link[f] = s
    <3>1. s # 0
      BY FailoverAssumption DEF Servers
    <3>2. QED
      BY <2>2, <3>1 DEF Links
  <2>3. QED
    BY <2>1, <2>2
<1>2. \A x \in Servers : Gone(x) => Gone(x)'
  BY GoneStay
<1>3. proc'[s] # "absent"
  BY <1>1, GoneStay
<1>4. QED
  BY <1>1, <1>2, <1>3 DEF Skips

\* Where nothing is sent, done or answered, and whoever waits goes on waiting.
Same(f, s) == /\ sent'[f][s] = sent[f][s] /\ thread'[f][s] = thread[f][s]
              /\ answers'[f][s] = answers[f][s]

LEMMA SameRequest ==
  ASSUME OneRequest, NEW f \in Senders, NEW s \in Servers, ~Gone(s), Same(f, s),
         Awaits(f, s) => Awaits(f, s)'
  PROVE  \/ Quiet(f, s)'
         \/ Awaits(f, s)' /\ (Asked(f, s)' \/ Busy(f, s)' \/ Answered(f, s)')
<1>1. \/ Quiet(f, s)
      \/ Awaits(f, s) /\ (Asked(f, s) \/ Busy(f, s) \/ Answered(f, s))
  BY DEF OneRequest
<1>2. CASE Quiet(f, s)
  BY <1>2 DEF Quiet, Same
<1>3. CASE Asked(f, s)
  BY <1>1, <1>3 DEF Asked, Quiet, Same
<1>4. CASE Busy(f, s)
  BY <1>1, <1>4 DEF Busy, Quiet, Same
<1>5. CASE Answered(f, s)
  BY <1>1, <1>5 DEF Answered, Quiet, Same
<1>6. QED
  BY <1>1, <1>2, <1>3, <1>4, <1>5

\* A thread that did not wait, and a client that goes on waiting, stop nobody's wait.
LEMMA StillAwaits ==
  ASSUME Upstream, NEW f \in Senders, NEW s \in Servers, NEW t \in Threads,
         thread' = [thread EXCEPT ![f][s] = t], thread[f][s].pc # "waits",
         NEW g \in Senders, NEW x \in Servers, Awaits(g, x),
         g = Client => client' = client
  PROVE  Awaits(g, x)'
<1> USE DEF Senders, Client
<1>1. CASE g = Client
  BY <1>1 DEF Awaits
<1>2. CASE g # Client
  <2>1. g \in Servers
    BY <1>2
  <2>2. PICK h \in Senders : thread[h][g] = [pc |-> "waits", on |-> x]
    BY <1>2 DEF Awaits
  <2>3. ~(h = f /\ g = s)
    BY <2>2
  <2>4. thread'[h][g] = thread[h][g]
    BY <2>1, <2>3 DEF Upstream, Typed
  <2>5. QED
    BY <1>2, <2>2, <2>4 DEF Awaits
<1>3. QED
  BY <1>1, <1>2

LEMMA RequestSend ==
  ASSUME Order, Links, Upstream, Flags, Downstream, OneRequest, Send
  PROVE  (Downstream /\ OneRequest)'
<1> USE FailoverAssumption DEF Servers
<1>1. /\ thread' = thread /\ proc' = proc /\ answers' = answers
      /\ client = "idle" /\ client' = "waits"
  BY DEF Send
<1>2. Downstream'
  BY <1>1 DEF Downstream, Skips, Gone
<1>3. PICK u \in Updates : sent' = [sent EXCEPT ![Client][1] = Append(@, u)]
  <2>1. PICK op \in {"put", "del"}, k \in Keys :
          sent' = [sent EXCEPT ![Client][1] =
                     Append(@, [op |-> op, key |-> k, id |-> lastId + 1])]
    BY DEF Send
  <2>2. lastId + 1 \in 1..MaxId
    BY DEF Send, Upstream, Typed
  <2>3. [op |-> op, key |-> k, id |-> lastId + 1] \in Updates
    BY <2>2 DEF Updates
  <2>4. QED
    BY <2>1, <2>3
<1>4. Client \in Senders /\ 1 \in Servers
  BY DEF Senders
<1>5. OneRequest'
  <2> SUFFICES ASSUME NEW f \in Senders, NEW s \in Servers, ~Gone(s)'
               PROVE  \/ Quiet(f, s)'
                      \/ Awaits(f, s)' /\ (Asked(f, s)' \/ Busy(f, s)' \/ Answered(f, s)')
    BY DEF OneRequest
  <2>1. ~Gone(s)
    BY <1>1 DEF Gone
  <2>2. CASE f = Client /\ s = 1
    <3>1. ~Awaits(f, s)
      BY <1>1, <2>2 DEF Awaits
    <3>2. Quiet(f, s)
      BY <2>1, <3>1 DEF OneRequest
    <3>3. sent'[f][s] = <<u>>
      <4>1. sent[Client][1] = <<>> /\ Append(<<>>, u) = <<u>>
        BY <2>2, <3>2 DEF Quiet
      <4>2. sent'[Client][1] = Append(sent[Client][1], u)
        BY <1>3, <1>4 DEF Upstream, Typed
      <4>3. QED
        BY <2>2, <4>1, <4>2
    <3>4. Asked(f, s)'
      BY <1>1, <3>2, <3>3 DEF Asked, Quiet
    <3>5. Awaits(f, s)'
      BY <1>1, <2>2 DEF Awaits
    <3>6. QED
      BY <3>4, <3>5
  <2>3. CASE ~(f = Client /\ s = 1)
    <3>1. Same(f, s)
      BY <1>1, <1>3, <1>4, <2>3 DEF Same, Upstream, Typed
    <3>2. Awaits(f, s) => Awaits(f, s)'
      BY <1>1, <2>3 DEF Awaits
    <3>3. QED
      BY <2>1, <3>1, <3>2, SameRequest
  <2>4. QED
    BY <2>2, <2>3
<1>6. QED
  BY <1>2, <1>5

LEMMA RequestExecute ==
  ASSUME Order, Links, Upstream, Flags, Downstream, OneRequest,
         NEW f \in Senders, NEW s \in Servers, Execute(f, s)
  PROVE  /\ Asked(f, s) /\ Awaits(f, s) /\ Busy(f, s)'
         /\ \A g \in Senders : \A x \in Servers : ~(g = f /\ x = s) => Same(g, x)
         /\ (Downstream /\ OneRequest)'
<1>1. /\ Serves(s) /\ proc' = proc /\ answers' = answers /\ client' = client
      /\ sent' = [sent EXCEPT ![f][s] = Tail(@)] /\ sent[f][s] # <<>>
      /\ \E t \in {[pc |-> "forward", upd |-> Head(sent[f][s])], [pc |-> "answer"]} :
           thread' = [thread EXCEPT ![f][s] = t]
  BY DEF Execute
<1>2. ~Gone(s) /\ ~Quiet(f, s) /\ ~Busy(f, s) /\ ~Answered(f, s)
  BY <1>1 DEF Serves, Gone, Quiet, Busy, Answered
<1>3. Asked(f, s) /\ Awaits(f, s)
  BY <1>2 DEF OneRequest
<1>4. PICK u \in Updates : sent[f][s] = <<u>>
  BY <1>3 DEF Asked
<1>5. PICK t \in Threads : /\ t.pc # "waits" /\ t # Idle
                           /\ thread' = [thread EXCEPT ![f][s] = t]
  <2>1. Head(<<u>>) = u
    OBVIOUS
  <2>2. /\ [pc |-> "forward", upd |-> u] \in Threads /\ [pc |-> "answer"] \in Threads
        /\ [pc |-> "forward", upd |-> u] # Idle /\ [pc |-> "answer"] # Idle
    BY DEF Threads, Idle
  <2>3. QED
    BY <1>1, <1>4, <2>1, <2>2
<1>6. thread[f][s] = Idle /\ thread[f][s].pc # "waits"
  BY <1>3 DEF Asked, Idle
<1>7. Busy(f, s)'
  <2>1. sent'[f][s] = Tail(<<u>>) /\ Tail(<<u>>) = <<>>
    BY <1>1, <1>4 DEF Upstream, Typed
  <2>2. thread'[f][s] = t
    BY <1>5 DEF Upstream, Typed
  <2>3. QED
    BY <1>1, <1>3, <1>5, <2>1, <2>2 DEF Busy, Asked, Idle
<1>8. ASSUME NEW g \in Senders, NEW x \in Servers, ~(g = f /\ x = s) PROVE Same(g, x)
  BY <1>1, <1>5, <1>8 DEF Same, Upstream, Typed
<1>9. ASSUME NEW g \in Senders, NEW x \in Servers, Awaits(g, x) PROVE Awaits(g, x)'
  BY <1>1, <1>5, <1>6, <1>9, StillAwaits
<1>10. Downstream'
  <2>1. ASSUME NEW g \in Senders, NEW x \in Servers, NEW y,
               thread'[g][x] = [pc |-> "waits", on |-> y]
        PROVE  thread'[g][x] = thread[g][x]
    BY <1>5, <2>1 DEF Upstream, Typed
  <2>2. QED
    BY <1>1, <2>1 DEF Downstream, Skips, Gone
<1>11. OneRequest'
  <2> SUFFICES ASSUME NEW g \in Senders, NEW x \in Servers, ~Gone(x)'
               PROVE  \/ Quiet(g, x)'
                      \/ Awaits(g, x)' /\ (Asked(g, x)' \/ Busy(g, x)' \/ Answered(g, x)')
    BY DEF OneRequest
  <2>1. CASE g = f /\ x = s
    BY <1>3, <1>7, <1>9, <2>1
  <2>2. CASE ~(g = f /\ x = s)
    <3>1. ~Gone(x)
      BY <1>1 DEF Gone
    <3>2. QED
      BY <1>8, <1>9, <2>2, <3>1, SameRequest
  <2>3. QED
    BY <2>1, <2>2
<1>12. QED
  BY <1>3, <1>7, <1>8, <1>10, <1>11

\* The request goes to the next server, unless there is none or it is dead.
LEMMA RequestForward ==
  ASSUME Order, Links, Upstream, Flags, Downstream, OneRequest,
         NEW f \in Senders, NEW s \in Servers, Forward(f, s), [Next]_vars
  PROVE  /\ Busy(f, s) /\ Busy(f, s)' /\ thread'[f][s].pc # "forward"
         /\ \A g \in Senders : \A x \in Servers :
              ~(g = f /\ x = s) => thread'[g][x] = thread[g][x]
         /\ \A g \in Senders : \A x \in Servers :
              \/ sent'[g][x] = sent[g][x]
              \/ /\ g = s /\ x = link[s] /\ Alive(x) /\ Quiet(g, x)
                 /\ sent'[g][x] = <<thread[f][s].upd>>
         /\ link[s] # 0 /\ Alive(link[s]) =>
              Quiet(s, link[s]) /\ sent'[s][link[s]] = <<thread[f][s].upd>>
         /\ (Downstream /\ OneRequest)'
<1> USE FailoverAssumption DEF Servers
<1> DEFINE u == thread[f][s].upd
           l == link[s]
<1>1. /\ Serves(s) /\ thread[f][s].pc = "forward"
      /\ proc' = proc /\ answers' = answers /\ client' = client
  BY DEF Forward
<1>2. u \in Updates /\ thread[f][s] # Idle /\ thread[f][s].pc # "waits"
  <2>1. thread[f][s] \in Threads
    BY DEF Upstream, Typed
  <2>2. u \in Updates
    BY <1>1, <2>1 DEF Threads
  <2>3. QED
    BY <1>1, <2>2 DEF Idle
<1>3. ~Gone(s) /\ Busy(f, s) /\ Awaits(f, s)
  BY <1>1, <1>2 DEF Serves, Gone, OneRequest, Quiet, Asked, Busy, Answered
<1>4. l # 0 => l \in Servers /\ s < l /\ proc[l] # "absent"
  BY DEF Links
<1> HIDE DEF u
<1>5. PICK t \in Threads :
        /\ t # Idle /\ t.pc # "forward" /\ thread' = [thread EXCEPT ![f][s] = t]
        /\ \/ sent' = sent /\ ~(l # 0 /\ Alive(l)) /\ t.pc # "waits"
           \/ /\ l # 0 /\ Alive(l) /\ t = [pc |-> "waits", on |-> l]
              /\ sent' = [sent EXCEPT ![s][l] = Append(@, u)]
  <2> HIDE DEF l
  <2>1. /\ [pc |-> "answer"] \in Threads /\ [pc |-> "stuck"] \in Threads
        /\ l # 0 => [pc |-> "waits", on |-> l] \in Threads
        /\ [pc |-> "answer"] # Idle /\ [pc |-> "stuck"] # Idle /\ [pc |-> "waits", on |-> l] # Idle
    BY <1>4 DEF Threads, Idle
  <2>2. \/ /\ l = 0 /\ thread' = [thread EXCEPT ![f][s] = [pc |-> "answer"]] /\ sent' = sent
        \/ /\ l # 0 /\ Alive(l) /\ thread' = [thread EXCEPT ![f][s] = [pc |-> "waits", on |-> l]]
           /\ sent' = [sent EXCEPT ![s][l] = Append(@, u)]
        \/ /\ l # 0 /\ ~Alive(l) /\ sent' = sent
           /\ \/ thread' = [thread EXCEPT ![f][s] = [pc |-> "answer"]]
              \/ thread' = [thread EXCEPT ![f][s] = [pc |-> "stuck"]]
    BY DEF Forward, Goto, l, u
  <2>3. QED
    BY <2>1, <2>2
<1> HIDE DEF l
<1>6. /\ thread'[f][s] = t
      /\ \A g \in Senders : \A x \in Servers :
           ~(g = f /\ x = s) => thread'[g][x] = thread[g][x]
  BY <1>5 DEF Upstream, Typed
<1>7. ASSUME l # 0, Alive(l) PROVE Quiet(s, l)
  <2>1. ~Gone(l) /\ l \in Servers /\ s \in Senders /\ s # Client
    BY <1>4, <1>7 DEF Alive, Gone, Senders, Client
  <2>2. CASE Awaits(s, l)
    <3>1. PICK g \in Senders : thread[g][s] = [pc |-> "waits", on |-> l]
      BY <2>1, <2>2 DEF Awaits
    <3>2. thread[g][s] # Idle /\ g # f
      BY <1>1, <3>1 DEF Idle
    <3>3. QED
      BY ONLY <1>2, <3>2, OneThread, Order, Upstream, Downstream, OneRequest
  <2>3. QED
    BY <2>1, <2>2 DEF OneRequest
<1>8. /\ \A g \in Senders : \A x \in Servers :
           \/ sent'[g][x] = sent[g][x]
           \/ /\ l # 0 /\ g = s /\ x = l /\ Alive(l) /\ Quiet(g, x) /\ sent'[g][x] = <<u>>
              /\ t = [pc |-> "waits", on |-> l]
      /\ l # 0 /\ Alive(l) => sent'[s][l] = <<u>>
  <2>1. CASE ~(l # 0 /\ Alive(l))
    BY <1>5, <2>1
  <2>2. CASE l # 0 /\ Alive(l)
    <3>1. l \in Servers /\ s \in Senders /\ sent \in [Senders -> [Servers -> Seq(Updates)]]
      BY <1>4, <2>2 DEF Senders, Upstream, Typed
    <3>2. /\ sent' = [sent EXCEPT ![s][l] = Append(@, u)] /\ Quiet(s, l)
          /\ t = [pc |-> "waits", on |-> l]
      BY <1>5, <1>7, <2>2
    <3>3. sent[s][l] = <<>> /\ Append(<<>>, u) = <<u>>
      BY <3>2 DEF Quiet
    <3>4. /\ sent'[s][l] = <<u>>
          /\ \A g \in Senders : \A x \in Servers : ~(g = s /\ x = l) => sent'[g][x] = sent[g][x]
      BY <3>1, <3>2, <3>3
    <3>5. QED
      BY <2>2, <3>2, <3>4
  <2>3. QED
    BY <2>1, <2>2
<1>9. Busy(f, s)'
  <2>1. sent'[f][s] = sent[f][s]
    BY <1>3, <1>8 DEF Quiet, Busy
  <2>2. QED
    BY <1>1, <1>3, <1>5, <1>6, <2>1 DEF Busy, Idle
<1>10. ASSUME NEW g \in Senders, NEW x \in Servers, Awaits(g, x) PROVE Awaits(g, x)'
  BY <1>1, <1>2, <1>5, <1>10, StillAwaits
<1>11. Downstream'
  <2>1. ASSUME NEW g \in Senders, NEW x \in Servers, NEW y \in Servers,
               thread'[g][x] = [pc |-> "waits", on |-> y]
        PROVE  thread'[g][x] = thread[g][x] \/ link[x] = y
    <3>1. CASE g = f /\ x = s
      BY <1>5, <1>6, <2>1, <3>1 DEF l
    <3>2. CASE ~(g = f /\ x = s)
      BY <1>6, <3>2
    <3>3. QED
      BY <3>1, <3>2
  <2>2. QED
    BY ONLY <2>1, DownstreamStep, Order, Links, Downstream, [Next]_vars
<1>12. OneRequest'
  <2> SUFFICES ASSUME NEW g \in Senders, NEW x \in Servers, ~Gone(x)'
               PROVE  \/ Quiet(g, x)'
                      \/ Awaits(g, x)' /\ (Asked(g, x)' \/ Busy(g, x)' \/ Answered(g, x)')
    BY DEF OneRequest
  <2>1. CASE g = f /\ x = s
    BY <1>3, <1>9, <1>10, <2>1
  <2>2. CASE ~(g = f /\ x = s) /\ sent'[g][x] = sent[g][x]
    <3>1. ~Gone(x) /\ Same(g, x)
      BY <1>1, <1>6, <2>2 DEF Gone, Same
    <3>2. QED
      BY <1>10, <2>2, <3>1, SameRequest
  <2>3. CASE ~(g = f /\ x = s) /\ g = s /\ x = l /\ Quiet(g, x) /\ sent'[g][x] = <<u>>
             /\ t = [pc |-> "waits", on |-> l]
    <3>1. Asked(g, x)'
      BY <1>1, <1>2, <1>6, <2>3 DEF Asked, Quiet
    <3>2. Awaits(g, x)'
      <4>1. g # Client /\ thread'[f][g] = [pc |-> "waits", on |-> x]
        BY <1>6, <2>3 DEF Client
      <4>2. QED
        BY <4>1 DEF Awaits
    <3>3. QED
      BY <3>1, <3>2
  <2>4. QED
    BY <1>8, <2>1, <2>2, <2>3
<1>13. QED
  BY <1>3, <1>5, <1>6, <1>7, <1>8, <1>9, <1>11, <1>12 DEF l, u

LEMMA RequestForwarded ==
  ASSUME Order, Links, Upstream, Flags, Downstream, OneRequest,
         NEW f \in Senders, NEW s \in Servers, Forwarded(f, s)
  PROVE  (Downstream /\ OneRequest)'
<1> USE FailoverAssumption DEF Servers
<1>1. /\ Serves(s) /\ thread[f][s].pc = "waits"
      /\ proc' = proc /\ sent' = sent /\ client' = client
      /\ thread' = [thread EXCEPT ![f][s] = [pc |-> "answer"]]
  BY DEF Forwarded, Goto
<1>2. PICK l \in Servers : thread[f][s] = [pc |-> "waits", on |-> l]
  <2>1. thread[f][s] \in Threads
    BY DEF Upstream, Typed
  <2>2. thread[f][s] \in [pc : {"waits"}, on : Servers]
    BY <1>1, <2>1 DEF Threads
  <2>3. QED
    BY <2>2
<1>3. s < l /\ proc[l] # "absent"
  BY <1>2 DEF Downstream
<1>4. s \in Senders /\ s # Client
  BY DEF Senders, Client
<1>5. /\ thread'[f][s] = [pc |-> "answer"]
      /\ \A g \in Senders : \A x \in Servers :
           ~(g = f /\ x = s) => thread'[g][x] = thread[g][x]
  <2>1. thread \in [Senders -> [Servers -> Threads]]
    BY DEF Upstream, Typed
  <2>2. QED
    BY ONLY <1>1, <2>1
<1>6. /\ \A g \in Senders : \A x \in Servers : ~(g = s /\ x = l) => answers'[g][x] = answers[g][x]
      /\ \/ answers[s][l] > 0 /\ answers'[s][l] = answers[s][l] - 1
         \/ ~Alive(l) /\ answers[s][l] = 0
  <2>1. answers \in [Senders -> [Servers -> Nat]]
    BY DEF Flags
  <2>2. CASE answers[s][l] > 0 /\ answers' = [answers EXCEPT ![s][l] = answers[s][l] - 1]
    BY <1>2, <1>4, <2>1, <2>2
  <2>3. CASE ~Alive(l) /\ answers[s][l] = 0 /\ answers' = answers
    BY <2>3
  <2>4. thread[f][s].on = l
    BY <1>2
  <2>5. QED
    BY <2>2, <2>3, <2>4 DEF Forwarded
<1>7. ASSUME NEW g \in Senders, NEW x \in Servers, Awaits(g, x), ~(g = s /\ x = l)
      PROVE  Awaits(g, x)'
  <2>1. CASE g = Client
    BY <1>1, <1>7, <2>1 DEF Awaits
  <2>2. CASE g # Client
    <3>1. PICK h \in Senders : thread[h][g] = [pc |-> "waits", on |-> x]
      BY <1>7, <2>2 DEF Awaits
    <3>2. g \in Servers /\ ~(h = f /\ g = s)
      BY <1>2, <1>7, <2>2, <3>1 DEF Senders, Client
    <3>3. QED
      BY <1>5, <2>2, <3>1, <3>2 DEF Awaits
  <2>3. QED
    BY <2>1, <2>2
<1>8. Downstream'
  <2>1. ASSUME NEW g \in Senders, NEW x \in Servers, NEW y,
               thread'[g][x] = [pc |-> "waits", on |-> y]
        PROVE  thread'[g][x] = thread[g][x]
    BY <1>5, <2>1
  <2>2. QED
    BY <1>1, <2>1 DEF Downstream, Skips, Gone
<1>9. OneRequest'
  <2> SUFFICES ASSUME NEW g \in Senders, NEW x \in Servers, ~Gone(x)'
               PROVE  \/ Quiet(g, x)'
                      \/ Awaits(g, x)' /\ (Asked(g, x)' \/ Busy(g, x)' \/ Answered(g, x)')
    BY DEF OneRequest
  <2>1. ~Gone(x)
    BY <1>1 DEF Gone
  <2>2. CASE g = f /\ x = s
    <3>1. Busy(f, s)
      BY <1>2, <2>1, <2>2 DEF OneRequest, Quiet, Asked, Busy, Answered, Idle
    <3>2. ~(f = s /\ s = l)
      BY <1>3
    <3>3. Busy(f, s)'
      BY <1>1, <1>5, <1>6, <3>1, <3>2 DEF Busy, Idle
    <3>4. Awaits(f, s)
      BY <2>1, <2>2, <3>1 DEF OneRequest, Quiet, Busy
    <3>5. QED
      BY <1>7, <2>2, <3>2, <3>3, <3>4
  <2>3. CASE g = s /\ x = l
    <3>1. ~(~Alive(l) /\ answers[s][l] = 0)
      BY <1>3, <2>1, <2>3 DEF Gone, Alive, Order, Procs
    <3>2. answers[s][l] > 0 /\ answers'[s][l] = answers[s][l] - 1
      BY <1>6, <3>1
    <3>3. Answered(s, l)
      <4>1. answers[s][l] # 0
        BY <3>2
      <4>2. QED
        BY <1>4, <2>1, <2>3, <4>1 DEF OneRequest, Quiet, Asked, Busy
    <3>4. ~(s = f /\ l = s)
      BY <1>3
    <3>5. Quiet(s, l)'
      <4>1. answers'[s][l] = 0
        BY <3>2, <3>3 DEF Answered
      <4>2. thread'[s][l] = thread[s][l]
        BY ONLY <1>2, <1>4, <1>5, <3>4
      <4>3. QED
        BY ONLY <1>1, <3>3, <4>1, <4>2 DEF Answered, Quiet
    <3>6. QED
      BY <2>3, <3>5
  <2>4. CASE ~(g = f /\ x = s) /\ ~(g = s /\ x = l)
    <3>1. Same(g, x)
      BY <1>1, <1>5, <1>6, <2>4 DEF Same
    <3>2. QED
      BY <1>7, <2>1, <2>4, <3>1, SameRequest
  <2>5. QED
    BY <2>2, <2>3, <2>4
<1>10. QED
  BY <1>8, <1>9

LEMMA RequestAnswer ==
  ASSUME Order, Links, Upstream, Flags, Downstream, OneRequest,
         NEW f \in Senders, NEW s \in Servers, Answer(f, s)
  PROVE  (Downstream /\ OneRequest)'
<1> USE FailoverAssumption DEF Servers
<1>1. /\ Serves(s) /\ thread[f][s].pc = "answer" /\ proc' = proc /\ sent' = sent
      /\ thread' = [thread EXCEPT ![f][s] = Idle]
      /\ IF f = Client THEN client' = "idle" /\ answers' = answers
         ELSE /\ answers' = [answers EXCEPT ![f][s] = IF Serves(f) THEN @ + 1 ELSE @]
              /\ client' = client
  BY DEF Answer, Goto
<1>2. Idle \in Threads /\ thread[f][s].pc # "waits" /\ thread[f][s] # Idle /\ ~Gone(s)
  BY <1>1 DEF Threads, Idle, Gone, Serves
<1>3. Busy(f, s) /\ Awaits(f, s)
  BY <1>2 DEF OneRequest, Quiet, Asked, Busy, Answered
<1>4. /\ thread'[f][s] = Idle
      /\ \A g \in Senders : \A x \in Servers :
           ~(g = f /\ x = s) => /\ thread'[g][x] = thread[g][x]
                                /\ answers'[g][x] = answers[g][x]
  <2>1. thread \in [Senders -> [Servers -> Threads]] /\ answers \in [Senders -> [Servers -> Nat]]
    BY DEF Upstream, Typed, Flags
  <2>2. \A g \in Senders : \A x \in Servers :
          ~(g = f /\ x = s) => answers'[g][x] = answers[g][x]
    <3>1. CASE answers' = answers
      BY <3>1
    <3>2. ASSUME NEW n, answers' = [answers EXCEPT ![f][s] = n]
          PROVE  \A g \in Senders : \A x \in Servers :
                   ~(g = f /\ x = s) => answers'[g][x] = answers[g][x]
      BY <2>1, <3>2
    <3>3. \/ answers' = answers
          \/ answers' = [answers EXCEPT ![f][s] = IF Serves(f) THEN @ + 1 ELSE @]
      BY <1>1
    <3>4. QED
      BY <3>1, <3>2, <3>3
  <2>3. thread' = [thread EXCEPT ![f][s] = Idle]
    BY <1>1
  <2>4. QED
    BY ONLY <2>1, <2>2, <2>3
<1>5. ASSUME NEW g \in Senders, NEW x \in Servers, Awaits(g, x), ~(g = f /\ f = Client)
      PROVE  Awaits(g, x)'
  <2>1. g = Client => client' = client
    BY <1>1, <1>5
  <2>2. QED
    BY <1>1, <1>2, <1>5, <2>1, StillAwaits
<1>6. Downstream'
  <2>1. ASSUME NEW g \in Senders, NEW x \in Servers, NEW y,
               thread'[g][x] = [pc |-> "waits", on |-> y]
        PROVE  thread'[g][x] = thread[g][x]
    BY <1>4, <2>1 DEF Idle
  <2>2. QED
    BY <1>1, <2>1 DEF Downstream, Skips, Gone
<1>7. OneRequest'
  <2> SUFFICES ASSUME NEW g \in Senders, NEW x \in Servers, ~Gone(x)'
               PROVE  \/ Quiet(g, x)'
                      \/ Awaits(g, x)' /\ (Asked(g, x)' \/ Busy(g, x)' \/ Answered(g, x)')
    BY DEF OneRequest
  <2>1. ~Gone(x)
    BY <1>1 DEF Gone
  <2>2. CASE g = f /\ x = s /\ f = Client
    BY <1>1, <1>3, <1>4, <2>2 DEF Busy, Quiet
  <2>3. CASE g = f /\ x = s /\ f # Client
    <3>1. Serves(f)
      BY <1>3, <2>3, AwaitsOlder
    <3>2. answers'[f][s] = 1
      <4>1. answers[f][s] = 0 /\ answers' = [answers EXCEPT ![f][s] = @ + 1]
        BY <1>1, <1>3, <2>3, <3>1 DEF Busy
      <4>2. QED
        BY <4>1 DEF Flags
    <3>3. Answered(f, s)'
      BY <1>1, <1>3, <1>4, <3>2 DEF Busy, Answered
    <3>4. QED
      BY <1>3, <1>5, <2>3, <3>3
  <2>4. CASE ~(g = f /\ x = s)
    <3>1. Same(g, x)
      BY <1>1, <1>4, <2>4 DEF Same
    <3>2. CASE g = f /\ f = Client
      <4>1. ~Awaits(g, x)
        BY <1>3, <2>4, <3>2 DEF Awaits
      <4>2. QED
        BY <2>1, <3>1, <4>1, SameRequest
    <3>3. CASE ~(g = f /\ f = Client)
      BY <1>5, <2>1, <3>1, <3>3, SameRequest
    <3>4. QED
      BY <3>2, <3>3
  <2>5. QED
    BY <2>2, <2>3, <2>4
<1>8. QED
  BY <1>6, <1>7

\* Unless a server in the middle dies: nobody waits for a younger one that is gone.
LEMMA RequestCrash ==
  ASSUME Order, Links, Upstream, Flags, Downstream, OneRequest,
         NEW s \in Servers, Crash(s), ~inner', [Next]_vars
  PROVE  (Downstream /\ OneRequest)'
<1> USE FailoverAssumption DEF Servers
<1>1. /\ proc' = [proc EXCEPT ![s] = "down"] /\ client' = client /\ answers' = answers
      /\ sent' = [f \in Senders |-> [sent[f] EXCEPT ![s] = <<>>]]
      /\ thread' = [f \in Senders |-> [thread[f] EXCEPT ![s] = Idle]]
      /\ \A o \in Servers : s < o => proc[o] = "absent"
  <2>1. \A o \in (s + 1)..N : proc[o] = "absent"
    BY DEF Crash
  <2>2. \A o \in Servers : s < o => o \in (s + 1)..N
    OBVIOUS
  <2>3. QED
    BY <2>1, <2>2 DEF Crash
<1>2. \A g \in Senders : \A x \in Servers :
        x # s => sent'[g][x] = sent[g][x] /\ thread'[g][x] = thread[g][x]
  BY <1>1 DEF Upstream, Typed
<1>3. \A g \in Senders : thread'[g][s] = Idle
  BY <1>1 DEF Upstream, Typed
<1>4. Downstream'
  <2>1. ASSUME NEW g \in Senders, NEW x \in Servers, NEW y,
               thread'[g][x] = [pc |-> "waits", on |-> y]
        PROVE  thread'[g][x] = thread[g][x]
    BY <1>2, <1>3, <2>1 DEF Idle
  <2>2. QED
    BY ONLY <2>1, DownstreamStep, Order, Links, Downstream, [Next]_vars
<1>5. ASSUME NEW g \in Senders, NEW x \in Servers, Awaits(g, x) PROVE Awaits(g, x)'
  <2>1. CASE g = Client
    BY <1>1, <1>5, <2>1 DEF Awaits
  <2>2. CASE g # Client
    <3>1. PICK h \in Senders : thread[h][g] = [pc |-> "waits", on |-> x]
      BY <1>5, <2>2 DEF Awaits
    <3>2. g \in Servers /\ g < x /\ proc[x] # "absent"
      BY <1>5, <2>2, AwaitsOlder
    <3>3. g # s
      BY <1>1, <3>2
    <3>4. QED
      BY <1>2, <2>2, <3>1, <3>2, <3>3 DEF Awaits
  <2>3. QED
    BY <2>1, <2>2
<1>6. OneRequest'
  <2> SUFFICES ASSUME NEW g \in Senders, NEW x \in Servers, ~Gone(x)'
               PROVE  \/ Quiet(g, x)'
                      \/ Awaits(g, x)' /\ (Asked(g, x)' \/ Busy(g, x)' \/ Answered(g, x)')
    BY DEF OneRequest
  <2>1. x # s /\ ~Gone(x)
    BY <1>1 DEF Gone, Order
  <2>2. Same(g, x)
    BY <1>1, <1>2, <2>1 DEF Same
  <2>3. QED
    BY <1>5, <2>1, <2>2, SameRequest
<1>7. QED
  BY <1>4, <1>6

\* Until a server in the middle dies, there is one request between two servers.
Chained == ~inner => Downstream /\ OneRequest

LEMMA ChainedAlways == Spec => []Chained
<1> USE DEF Chained
<1>1. Init => Chained
  <2> SUFFICES ASSUME Init PROVE Downstream /\ OneRequest
    OBVIOUS
  <2>1. QED
    BY DEF Init, Downstream, OneRequest, Quiet, Idle
<1>2. Order /\ Links /\ Upstream /\ Flags /\ Chained /\ [Next]_vars => Chained'
  <2> SUFFICES ASSUME Order, Links, Upstream, Flags, Chained, [Next]_vars, ~inner'
               PROVE  (Downstream /\ OneRequest)'
    OBVIOUS
  <2>1. CASE UNCHANGED vars
    BY <2>1 DEF vars, Downstream, OneRequest, Skips, Gone, Quiet, Awaits, Asked, Busy, Answered
  <2>2. ASSUME NEW s \in Servers, Crash(s) PROVE (Downstream /\ OneRequest)'
    <3>1. ~inner
      BY <2>2 DEF Crash
    <3>2. QED
      BY <2>2, <3>1, RequestCrash
  <2>3. CASE Send
    <3>1. ~inner
      BY <2>3 DEF Send
    <3>2. QED
      BY <2>3, <3>1, RequestSend
  <2>4. ASSUME NEW f \in Senders, NEW s \in Servers,
               Execute(f, s) \/ Forward(f, s) \/ Forwarded(f, s) \/ Answer(f, s)
        PROVE  (Downstream /\ OneRequest)'
    <3>1. ~inner
      BY <2>4 DEF Execute, Forward, Forwarded, Answer
    <3>2. QED
      BY <2>4, <3>1, RequestExecute, RequestForward, RequestForwarded, RequestAnswer
  <2>5. ASSUME NEW s \in Servers,
               \/ Expire(s) \/ Relink(s) \/ Join(s) \/ ChooseSource(s)
               \/ GetTable(s) \/ Size(s) \/ CopyFails(s)
        PROVE  (Downstream /\ OneRequest)'
    <3>1. /\ sent' = sent /\ thread' = thread /\ answers' = answers /\ client' = client
          /\ inner' = inner
      BY <2>5 DEF Expire, Relink, Join, ChooseSource, GetTable, Size, CopyFails
    <3>2. Downstream /\ OneRequest
      BY <3>1
    <3>3. Downstream'
      BY ONLY <3>1, <3>2, DownstreamStep, Order, Links, [Next]_vars
    <3>4. OneRequest'
      <4> SUFFICES ASSUME NEW g \in Senders, NEW x \in Servers, ~Gone(x)'
                   PROVE  \/ Quiet(g, x)'
                          \/ Awaits(g, x)' /\ (Asked(g, x)' \/ Busy(g, x)' \/ Answered(g, x)')
        BY DEF OneRequest
      <4>1. ~Gone(x)
        BY GoneStay
      <4>2. Same(g, x) /\ (Awaits(g, x) => Awaits(g, x)')
        BY <3>1 DEF Same, Awaits
      <4>3. QED
        BY <3>2, <4>1, <4>2, SameRequest
    <3>5. QED
      BY <3>3, <3>4
  <2>6. QED
    BY <2>1, <2>2, <2>3, <2>4, <2>5 DEF Next
<1>3. QED
  BY <1>1, <1>2, LinksAlways, UpstreamAlways, FlagsAlways, PTL DEF Spec

-----------------------------------------------------------------------------
(* Updates take effect in the client's order *)

Value(u)    == IF u.op = "put" THEN u.id ELSE 0
Apply(t, u) == [t EXCEPT ![u.key] = Value(u)]

\* What is on its way is the client's last update, and no table has a later one.
Recent ==
  /\ \A f \in Senders : \A s \in Servers : ~Gone(s) => \A u \in Updates :
       sent[f][s] = <<u>> \/ thread[f][s] = [pc |-> "forward", upd |-> u] => u.id = lastId
  /\ \A s \in Servers : \A k \in Keys : table[s][k] <= lastId /\ got[s][k] <= lastId
  /\ \A s \in Servers : Coming(s) => table[s] = Empty

LEMMA IdleQuiet ==
  ASSUME Order, Upstream, Downstream, OneRequest, client # "waits",
         NEW f \in Senders, NEW s \in Servers, ~Gone(s)
  PROVE  Quiet(f, s)
<1> USE FailoverAssumption DEF Servers
<1> DEFINE T == {g \in Senders : \E x \in Servers : ~Gone(x) /\ ~Quiet(g, x)}
<1> SUFFICES ASSUME ~Quiet(f, s) PROVE FALSE
  OBVIOUS
<1>1. T \in SUBSET Nat /\ T # {}
  BY DEF Senders, Client
<1>2. PICK g \in T : \A h \in T : g <= h
  <2> HIDE DEF T
  <2>1. QED
    BY <1>1, LeastExists
<1>3. PICK x \in Servers : ~Gone(x) /\ ~Quiet(g, x)
  BY <1>2
<1>4. g \in Senders /\ Awaits(g, x)
  BY <1>2, <1>3 DEF OneRequest
<1>5. g # Client
  BY <1>4 DEF Awaits
<1>6. PICK h \in Senders : g \in Servers /\ Serves(g) /\ thread[h][g] # Idle
  BY <1>4, <1>5, AwaitsOlder
<1>7. ~Gone(g) /\ ~Quiet(h, g)
  BY <1>6 DEF Gone, Serves, Quiet
<1>8. Awaits(h, g)
  BY <1>6, <1>7 DEF OneRequest
<1>9. h < g
  BY <1>6, <1>8, AwaitsOlder
<1>10. h \in T /\ h \in Int /\ g \in Int
  BY <1>6, <1>7, <1>4 DEF Senders, Client
<1> HIDE DEF T
<1>11. QED
  BY <1>2, <1>9, <1>10

LEMMA ApplyGives ==
  ASSUME NEW t \in [Keys -> 0..MaxId], NEW u \in Updates
  PROVE  /\ Value(u) \in 0..MaxId
         /\ Apply(t, u) \in [Keys -> 0..MaxId]
         /\ \A k \in Keys : Apply(t, u)[k] = IF k = u.key THEN Value(u) ELSE t[k]
<1>1. u.key \in Keys /\ u.id \in 1..MaxId
  BY DEF Updates
<1>2. Value(u) \in 0..MaxId
  BY <1>1, FailoverAssumption DEF Value
<1>3. QED
  BY <1>1, <1>2 DEF Apply

\* What Execute does, when one request was sent.
LEMMA ExecuteApplies ==
  ASSUME Upstream, NEW f \in Senders, NEW s \in Servers, NEW u \in Updates,
         sent[f][s] = <<u>>, Execute(f, s)
  PROVE  /\ table' = [table EXCEPT ![s] = Apply(table[s], u)]
         /\ table'[s] = Apply(table[s], u)
         /\ \A x \in Servers : x # s => table'[x] = table[x]
         /\ \/ thread'[f][s] = [pc |-> "forward", upd |-> u]
            \/ thread'[f][s] = [pc |-> "answer"] /\ table'[s] = table[s]
         /\ UNCHANGED <<proc, source, znodes, watch, link, lastId, got, clean, inner>>
<1>1. Head(sent[f][s]) = u
  OBVIOUS
<1>2. u.key \in Keys /\ u.op \in {"put", "del"}
  BY DEF Updates
<1>3. table \in [Servers -> [Keys -> 0..MaxId]] /\ thread \in [Senders -> [Servers -> Threads]]
  BY DEF Upstream, Typed
<1>4. table' = [table EXCEPT ![s] = Apply(table[s], u)]
  <2>1. CASE u.op = "put"
    BY <1>1, <2>1 DEF Execute, Put, Apply, Value
  <2>2. CASE u.op # "put"
    BY <1>1, <2>2 DEF Execute, Del, Apply, Value
  <2>3. QED
    BY <2>1, <2>2
<1>5. table'[s] = Apply(table[s], u) /\ \A x \in Servers : x # s => table'[x] = table[x]
  BY <1>3, <1>4
<1>6. \/ thread'[f][s] = [pc |-> "forward", upd |-> u]
      \/ thread'[f][s] = [pc |-> "answer"] /\ ~(u.op = "put" \/ table[s][u.key] # 0)
  <2>1. thread' = [thread EXCEPT ![f][s] =
          IF u.op = "put" \/ table[s][u.key] # 0
          THEN [pc |-> "forward", upd |-> u] ELSE [pc |-> "answer"]]
    BY <1>1 DEF Execute
  <2>2. QED
    BY <1>3, <2>1
<1>7. ASSUME ~(u.op = "put" \/ table[s][u.key] # 0) PROVE Apply(table[s], u) = table[s]
  <2>1. table[s] \in [Keys -> 0..MaxId]
    BY <1>3
  <2>2. /\ Apply(table[s], u) \in [Keys -> 0..MaxId]
        /\ \A k \in Keys : Apply(table[s], u)[k] = IF k = u.key THEN Value(u) ELSE table[s][k]
    BY <2>1, ApplyGives
  <2>3. Value(u) = table[s][u.key]
    BY <1>7 DEF Value
  <2>4. \A k \in Keys : Apply(table[s], u)[k] = table[s][k]
    BY <2>2, <2>3
  <2>5. QED
    BY <2>1, <2>2, <2>4
<1>8. UNCHANGED <<proc, source, znodes, watch, link, lastId, got, clean, inner>>
  BY DEF Execute
<1>9. QED
  BY <1>4, <1>5, <1>6, <1>7, <1>8

\* What Size does.
LEMMA SizeCopies ==
  ASSUME Order, Upstream, Flags, NEW s \in Servers, Size(s)
  PROVE  /\ proc[s] = "size"
         /\ \A x \in Servers : x # s => /\ proc'[x] = proc[x] /\ table'[x] = table[x]
                                        /\ clean'[x] = clean[x]
         /\ \/ proc'[s] = "undefined" /\ table'[s] = table[s]
            \/ /\ proc'[s] = "up"
               /\ \E n : /\ table'[s] = Copied(s, n)
                         /\ clean'[s] => clean[s] /\ n = Cardinality(Present(got[s]))
         /\ UNCHANGED <<source, znodes, watch, link, sent, answers, thread, client, lastId, got, inner>>
<1> DEFINE n == Cardinality(Present(table[source[s]]))
<1>1. proc \in [Servers -> Procs] /\ table \in [Servers -> [Keys -> 0..MaxId]]
  BY DEF Order, Upstream, Typed
<1>2. /\ proc[s] = "size"
      /\ UNCHANGED <<source, znodes, watch, link, sent, answers, thread, client, lastId, got, inner>>
      /\ \/ proc' = [proc EXCEPT ![s] = "undefined"] /\ table' = table /\ clean' = clean
         \/ /\ proc' = [proc EXCEPT ![s] = "up"]
            /\ table' = [table EXCEPT ![s] = Copied(s, n)]
            /\ clean' = [clean EXCEPT ![s] = @ /\ n = Cardinality(Present(got[s]))]
  BY DEF Size
<1> HIDE DEF n
<1>3. ASSUME clean'[s], clean' = [clean EXCEPT ![s] = @ /\ n = Cardinality(Present(got[s]))]
      PROVE  clean[s] /\ n = Cardinality(Present(got[s]))
  <2>1. clean'[s] = (clean[s] /\ n = Cardinality(Present(got[s])))
    BY <1>3 DEF Flags
  <2>2. QED
    BY <1>3, <2>1
<1>4. CASE proc' = [proc EXCEPT ![s] = "undefined"] /\ table' = table /\ clean' = clean
  <2>1. \A x \in Servers : x # s => proc'[x] = proc[x]
    BY <1>1, <1>4
  <2>2. proc'[s] = "undefined"
    BY <1>1, <1>4
  <2>3. QED
    BY <1>2, <1>4, <2>1, <2>2
<1>5. CASE /\ proc' = [proc EXCEPT ![s] = "up"]
           /\ table' = [table EXCEPT ![s] = Copied(s, n)]
           /\ clean' = [clean EXCEPT ![s] = @ /\ n = Cardinality(Present(got[s]))]
  <2>1. /\ \A x \in Servers : x # s => /\ proc'[x] = proc[x] /\ table'[x] = table[x]
                                         /\ clean'[x] = clean[x]
        /\ proc'[s] = "up" /\ table'[s] = Copied(s, n)
    BY <1>1, <1>5 DEF Flags
  <2>2. clean'[s] => clean[s] /\ n = Cardinality(Present(got[s]))
    BY <1>3, <1>5
  <2>3. QED
    BY <1>2, <2>1, <2>2
<1>6. QED
  BY <1>2, <1>4, <1>5

LEMMA CopiedGives ==
  ASSUME Upstream, NEW s \in Servers, NEW n
  PROVE  /\ Copied(s, n) \in [Keys -> 0..MaxId]
         /\ \A k \in Keys : Copied(s, n)[k] \in {got[s][k], 0}
<1>1. got[s] \in [Keys -> 0..MaxId] /\ 0 \in 0..MaxId
  BY FailoverAssumption DEF Upstream, Typed
<1>2. QED
  BY <1>1 DEF Copied

\* Where no younger update is sent or taken up, and the tables are kept.
LEMMA RecentKept ==
  ASSUME Recent, lastId' = lastId, table' = table, got' = got,
         \A f \in Senders : \A s \in Servers : ~Gone(s)' => \A u \in Updates :
           sent'[f][s] = <<u>> \/ thread'[f][s] = [pc |-> "forward", upd |-> u] =>
             \E g \in Senders : \E x \in Servers : ~Gone(x) /\
               (sent[g][x] = <<u>> \/ thread[g][x] = [pc |-> "forward", upd |-> u]),
         \A s \in Servers : Coming(s)' => Coming(s)
  PROVE  Recent'
<1>1. ASSUME NEW f \in Senders, NEW s \in Servers, ~Gone(s)', NEW u \in Updates,
             sent'[f][s] = <<u>> \/ thread'[f][s] = [pc |-> "forward", upd |-> u]
      PROVE  u.id = lastId
  <2>1. PICK g \in Senders, x \in Servers : ~Gone(x) /\
               (sent[g][x] = <<u>> \/ thread[g][x] = [pc |-> "forward", upd |-> u])
    BY <1>1
  <2>2. QED
    BY <2>1 DEF Recent
<1>2. \A s \in Servers : \A k \in Keys : table'[s][k] <= lastId' /\ got'[s][k] <= lastId'
  BY DEF Recent
<1>3. \A s \in Servers : Coming(s)' => table'[s] = Empty
  BY DEF Recent
<1>4. QED
  BY <1>1, <1>2, <1>3 DEF Recent

LEMMA RecentSend ==
  ASSUME Order, Upstream, Downstream, OneRequest, Recent, Send
  PROVE  Recent'
<1> USE FailoverAssumption DEF Servers
<1>1. /\ thread' = thread /\ proc' = proc /\ table' = table /\ got' = got
      /\ client # "waits" /\ lastId' = lastId + 1 /\ lastId \in Nat
  BY DEF Send, Upstream, Typed
<1>2. PICK u \in Updates : /\ u.id = lastId + 1
                           /\ sent' = [sent EXCEPT ![Client][1] = Append(@, u)]
  <2>1. PICK op \in {"put", "del"}, k \in Keys :
          sent' = [sent EXCEPT ![Client][1] =
                     Append(@, [op |-> op, key |-> k, id |-> lastId + 1])]
    BY DEF Send
  <2>2. lastId + 1 \in 1..MaxId
    BY DEF Send, Upstream, Typed
  <2>3. [op |-> op, key |-> k, id |-> lastId + 1] \in Updates
    BY <2>2 DEF Updates
  <2>4. QED
    BY <2>1, <2>3
<1>3. \A f \in Senders : \A s \in Servers : ~Gone(s) => Quiet(f, s)
  BY <1>1, IdleQuiet
<1>4. ASSUME NEW f \in Senders, NEW s \in Servers, ~Gone(s)', NEW v \in Updates,
             sent'[f][s] = <<v>> \/ thread'[f][s] = [pc |-> "forward", upd |-> v]
      PROVE  v.id = lastId'
  <2>1. Quiet(f, s)
    BY <1>1, <1>3, <1>4 DEF Gone
  <2>2. thread'[f][s] # [pc |-> "forward", upd |-> v]
    BY <1>1, <2>1 DEF Quiet, Idle
  <2>3. f = Client /\ s = 1
    <3>1. CASE ~(f = Client /\ s = 1)
      <4>1. sent'[f][s] = sent[f][s]
        BY <1>2, <3>1 DEF Upstream, Typed, Senders
      <4>2. QED
        BY <1>4, <2>1, <2>2, <4>1 DEF Quiet
    <3>2. QED
      BY <3>1
  <2>4. sent'[f][s] = <<u>>
    <3>1. sent[f][s] = <<>> /\ Append(<<>>, u) = <<u>>
      BY <2>1 DEF Quiet
    <3>2. sent'[f][s] = Append(sent[f][s], u)
      BY <1>2, <2>3 DEF Upstream, Typed, Senders
    <3>3. QED
      BY <3>1, <3>2
  <2>5. <<u>> = <<v>>
    BY <1>4, <2>2, <2>4
  <2>6. <<u>>[1] = u /\ <<v>>[1] = v
    OBVIOUS
  <2>7. QED
    BY <1>1, <1>2, <2>5, <2>6
<1>5. \A s \in Servers : \A k \in Keys : table'[s][k] <= lastId' /\ got'[s][k] <= lastId'
  <2> SUFFICES ASSUME NEW s \in Servers, NEW k \in Keys
               PROVE  table[s][k] <= lastId + 1 /\ got[s][k] <= lastId + 1
    BY <1>1
  <2>1. table[s][k] \in 0..MaxId /\ got[s][k] \in 0..MaxId
    BY DEF Upstream, Typed
  <2>2. table[s][k] <= lastId /\ got[s][k] <= lastId
    BY DEF Recent
  <2>3. QED
    BY <1>1, <2>1, <2>2
<1>6. \A s \in Servers : Coming(s)' => table'[s] = Empty'
  BY <1>1 DEF Recent, Coming, Empty
<1>7. QED
  BY <1>4, <1>5, <1>6 DEF Recent

\* A put replaces nothing newer.
LEMMA RecentExecute ==
  ASSUME Order, Links, Upstream, Flags, Downstream, OneRequest, Recent,
         NEW f \in Senders, NEW s \in Servers, Execute(f, s)
  PROVE  Recent' /\ Newer
<1>1. PICK u \in Updates : sent[f][s] = <<u>>
  BY RequestExecute DEF Asked
<1>2. Serves(s) /\ ~Gone(s) /\ ~Coming(s)
  BY DEF Execute, Serves, Gone, Coming
<1>3. u.id = lastId
  BY <1>1, <1>2 DEF Recent
<1>4. /\ table'[s] = Apply(table[s], u) /\ \A x \in Servers : x # s => table'[x] = table[x]
      /\ thread'[f][s] = [pc |-> "forward", upd |-> u] \/ thread'[f][s] = [pc |-> "answer"]
      /\ proc' = proc /\ lastId' = lastId /\ got' = got
  BY <1>1, ExecuteApplies
<1>5. /\ Value(u) \in {0, lastId} /\ lastId \in 0..MaxId
      /\ \A k \in Keys : Apply(table[s], u)[k] = IF k = u.key THEN Value(u) ELSE table[s][k]
      /\ table \in [Servers -> [Keys -> 0..MaxId]]
  <2>1. table \in [Servers -> [Keys -> 0..MaxId]] /\ lastId \in 0..MaxId
    BY DEF Upstream, Typed
  <2>2. QED
    BY <1>3, <2>1, ApplyGives DEF Value
<1>6. \A x \in Servers : \A k \in Keys : table'[x][k] \in {table[x][k], 0, lastId}
  BY <1>4, <1>5
<1>7. \A x \in Servers : \A k \in Keys : table[x][k] <= lastId /\ table[x][k] \in 0..MaxId
  BY <1>5 DEF Recent
<1>8. Newer
  BY <1>5, <1>6, <1>7 DEF Newer
<1>9. \A x \in Servers : \A k \in Keys : table'[x][k] <= lastId' /\ got'[x][k] <= lastId'
  <2> SUFFICES ASSUME NEW x \in Servers, NEW k \in Keys
               PROVE  table'[x][k] <= lastId /\ got[x][k] <= lastId
    BY <1>4
  <2>1. QED
    BY <1>5, <1>6, <1>7 DEF Recent
<1>10. ASSUME NEW g \in Senders, NEW x \in Servers, ~Gone(x)', NEW v \in Updates,
              sent'[g][x] = <<v>> \/ thread'[g][x] = [pc |-> "forward", upd |-> v]
       PROVE  v.id = lastId'
  <2>1. CASE g = f /\ x = s
    <3>1. sent'[f][s] = <<>>
      BY RequestExecute DEF Busy
    <3>2. thread'[f][s] = [pc |-> "forward", upd |-> v]
      BY <1>10, <2>1, <3>1
    <3>3. [pc |-> "forward", upd |-> v] = [pc |-> "forward", upd |-> u]
      BY <1>4, <3>2
    <3>4. v = u
      BY <3>3
    <3>5. QED
      BY <1>3, <1>4, <3>4
  <2>2. CASE ~(g = f /\ x = s)
    <3>1. sent'[g][x] = sent[g][x] /\ thread'[g][x] = thread[g][x]
      BY <2>2, RequestExecute DEF Same
    <3>2. ~Gone(x)
      BY <1>4, <1>10 DEF Gone
    <3>3. QED
      BY <1>4, <1>10, <3>1, <3>2 DEF Recent
  <2>3. QED
    BY <2>1, <2>2
<1>11. \A x \in Servers : Coming(x)' => table'[x] = Empty'
  <2> SUFFICES ASSUME NEW x \in Servers, Coming(x)' PROVE table'[x] = Empty
    BY DEF Empty
  <2>1. Coming(x)
    BY <1>4 DEF Coming
  <2>2. QED
    BY <1>2, <1>4, <2>1 DEF Recent
<1>12. QED
  BY <1>8, <1>9, <1>10, <1>11 DEF Recent

LEMMA RecentForward ==
  ASSUME Order, Links, Upstream, Flags, Downstream, OneRequest, Recent,
         NEW f \in Senders, NEW s \in Servers, Forward(f, s), [Next]_vars
  PROVE  Recent'
<1>1. /\ thread[f][s].pc = "forward" /\ Serves(s) /\ ~Gone(s)
      /\ lastId' = lastId /\ table' = table /\ got' = got /\ proc' = proc
  BY DEF Forward, Serves, Gone
<1>2. PICK u \in Updates : thread[f][s] = [pc |-> "forward", upd |-> u]
  <2>1. thread[f][s] \in Threads
    BY DEF Upstream, Typed
  <2>2. thread[f][s] \in [pc : {"forward"}, upd : Updates]
    BY <1>1, <2>1 DEF Threads
  <2>3. QED
    BY <2>2
<1>3. ASSUME NEW g \in Senders, NEW x \in Servers, ~Gone(x)', NEW v \in Updates,
             sent'[g][x] = <<v>> \/ thread'[g][x] = [pc |-> "forward", upd |-> v]
      PROVE  \E h \in Senders : \E y \in Servers : ~Gone(y) /\
               (sent[h][y] = <<v>> \/ thread[h][y] = [pc |-> "forward", upd |-> v])
  <2>1. ~Gone(x)
    BY <1>1, <1>3 DEF Gone
  <2>2. CASE thread'[g][x] = [pc |-> "forward", upd |-> v]
    <3>1. thread'[g][x].pc = "forward"
      BY <2>2
    <3>2. ~(g = f /\ x = s)
      BY <3>1, RequestForward
    <3>3. thread'[g][x] = thread[g][x]
      BY <3>2, RequestForward
    <3>4. QED
      BY <2>1, <2>2, <3>3
  <2>3. CASE sent'[g][x] = <<v>>
    <3>1. \/ sent'[g][x] = sent[g][x]
          \/ sent'[g][x] = <<thread[f][s].upd>>
      BY RequestForward
    <3>2. CASE sent'[g][x] = sent[g][x]
      BY <2>1, <2>3, <3>2
    <3>3. CASE sent'[g][x] = <<u>>
      <4>1. <<u>>[1] = u /\ <<v>>[1] = v
        OBVIOUS
      <4>2. u = v
        BY <2>3, <3>3, <4>1
      <4>3. QED
        BY <1>1, <1>2, <4>2
    <3>4. QED
      BY <1>2, <3>1, <3>2, <3>3
  <2>4. QED
    BY <1>3, <2>2, <2>3
<1>4. \A x \in Servers : Coming(x)' => Coming(x)
  BY <1>1 DEF Coming
<1>5. QED
  BY ONLY <1>1, <1>3, <1>4, RecentKept, Recent

\* Steps that neither send nor do anything new, and change at most a copy.
LEMMA RecentMoves ==
  ASSUME Order, Links, Upstream, Flags, Recent, [Next]_vars, NEW s \in Servers,
         \/ \E f \in Senders : Forwarded(f, s) \/ Answer(f, s)
         \/ Crash(s) \/ Expire(s) \/ Relink(s) \/ Join(s) \/ ChooseSource(s) \/ CopyFails(s)
  PROVE  Recent'
<1>1. /\ table' = table /\ got' = got /\ lastId' = lastId
      /\ \A x \in Servers : Coming(x)' => Coming(x)
  <2>1. CASE \E f \in Senders : Forwarded(f, s) \/ Answer(f, s)
    BY <2>1 DEF Forwarded, Answer, Coming
  <2>2. CASE Crash(s) \/ Expire(s) \/ Relink(s) \/ Join(s) \/ ChooseSource(s) \/ CopyFails(s)
    <3>1. /\ table' = table /\ got' = got /\ lastId' = lastId
          /\ \/ proc' = proc
             \/ Coming(s) /\ \E q : proc' = [proc EXCEPT ![s] = q]
             \/ proc' = [proc EXCEPT ![s] = "down"]
      BY <2>2 DEF Crash, Expire, Relink, Join, ChooseSource, CopyFails, Coming
    <3>2. QED
      BY <3>1 DEF Order, Coming
  <2>3. QED
    BY <2>1, <2>2
<1>2. \A f \in Senders : \A x \in Servers :
        /\ sent'[f][x] \in {sent[f][x], <<>>}
        /\ thread'[f][x].pc = "forward" => thread'[f][x] = thread[f][x]
  <2>1. CASE Crash(s)
    BY <2>1 DEF Crash, Upstream, Typed, Idle
  <2>2. ASSUME NEW f \in Senders, Forwarded(f, s) \/ Answer(f, s)
        PROVE  \A g \in Senders : \A x \in Servers :
                 /\ sent'[g][x] \in {sent[g][x], <<>>}
                 /\ thread'[g][x].pc = "forward" => thread'[g][x] = thread[g][x]
    <3>1. sent' = sent /\ \E t \in {[pc |-> "answer"], Idle} : thread' = [thread EXCEPT ![f][s] = t]
      BY <2>2 DEF Forwarded, Answer, Goto
    <3>2. PICK t \in {[pc |-> "answer"], Idle} : thread' = [thread EXCEPT ![f][s] = t]
      BY <3>1
    <3>3. t.pc # "forward"
      BY <3>2 DEF Idle
    <3>4. QED
      BY <3>1, <3>2, <3>3 DEF Upstream, Typed
  <2>3. CASE Expire(s) \/ Relink(s) \/ Join(s) \/ ChooseSource(s) \/ CopyFails(s)
    BY <2>3 DEF Expire, Relink, Join, ChooseSource, CopyFails
  <2>4. QED
    BY <2>1, <2>2, <2>3
<1>3. ASSUME NEW g \in Senders, NEW x \in Servers, ~Gone(x)', NEW v \in Updates,
             sent'[g][x] = <<v>> \/ thread'[g][x] = [pc |-> "forward", upd |-> v]
      PROVE  ~Gone(x) /\ (sent[g][x] = <<v>> \/ thread[g][x] = [pc |-> "forward", upd |-> v])
  <2>1. ~Gone(x)
    BY <1>3, GoneStay
  <2>2. CASE sent'[g][x] = <<v>>
    <3>1. <<v>> # <<>>
      OBVIOUS
    <3>2. sent[g][x] = <<v>>
      BY <1>2, <2>2, <3>1
    <3>3. QED
      BY <2>1, <3>2
  <2>3. CASE thread'[g][x] = [pc |-> "forward", upd |-> v]
    BY <1>2, <2>1, <2>3
  <2>4. QED
    BY <1>3, <2>2, <2>3
<1>4. QED
  BY ONLY <1>1, <1>3, RecentKept, Recent

LEMMA RecentGetTable ==
  ASSUME Order, Links, Upstream, Recent, NEW s \in Servers, GetTable(s)
  PROVE  Recent'
<1>1. PICK p \in Servers : p = source[s]
  BY DEF GetTable, Links
<1>2. /\ proc[s] = "gettable" /\ proc' = [proc EXCEPT ![s] = "size"]
      /\ got' = [got EXCEPT ![s] = table[p]]
      /\ table' = table /\ sent' = sent /\ thread' = thread /\ lastId' = lastId
  BY <1>1 DEF GetTable
<1>3. \A x \in Servers : Gone(x)' = Gone(x) /\ Coming(x)' = Coming(x)
  BY <1>2 DEF Order, Gone, Coming
<1>4. \A x \in Servers : \A k \in Keys : got'[x][k] <= lastId
  BY <1>2 DEF Upstream, Typed, Recent
<1>5. QED
  BY <1>2, <1>3, <1>4 DEF Recent, Empty

\* The table that is copied was empty.
LEMMA RecentSize ==
  ASSUME Order, Upstream, Flags, Recent, NEW s \in Servers, Size(s)
  PROVE  Recent' /\ Newer
<1>1. /\ proc[s] = "size" /\ sent' = sent /\ thread' = thread /\ lastId' = lastId /\ got' = got
      /\ \A x \in Servers : x # s => proc'[x] = proc[x] /\ table'[x] = table[x]
      /\ \/ proc'[s] = "undefined" /\ table'[s] = table[s]
         \/ proc'[s] = "up" /\ \E n : table'[s] = Copied(s, n)
  BY SizeCopies
<1>2. table[s] = Empty
  BY <1>1 DEF Recent, Coming
<1>3. \A k \in Keys : table'[s][k] \in {0, got[s][k]}
  <2>1. CASE table'[s] = table[s]
    BY <1>2, <2>1 DEF Empty
  <2>2. ASSUME NEW n, table'[s] = Copied(s, n) PROVE \A k \in Keys : table'[s][k] \in {0, got[s][k]}
    BY <2>2, CopiedGives
  <2>3. QED
    BY <1>1, <2>1, <2>2
<1>4. Newer
  <2> SUFFICES ASSUME NEW x \in Servers, NEW k \in Keys, table[x][k] # 0
               PROVE  table'[x][k] >= table[x][k]
    BY DEF Newer
  <2>1. x # s
    BY <1>2 DEF Empty
  <2>2. table'[x][k] = table[x][k] /\ table[x][k] \in 0..MaxId
    BY <1>1, <2>1 DEF Upstream, Typed
  <2>3. QED
    BY <2>2, FailoverAssumption
<1>5. \A x \in Servers : /\ Coming(x)' => Coming(x) /\ x # s
                         /\ ~Gone(x)' => ~Gone(x)
  BY <1>1 DEF Coming, Gone
<1>6. \A x \in Servers : \A k \in Keys : table'[x][k] <= lastId' /\ got'[x][k] <= lastId'
  <2> SUFFICES ASSUME NEW x \in Servers, NEW k \in Keys
               PROVE  table'[x][k] <= lastId /\ got[x][k] <= lastId
    BY <1>1
  <2>1. table[x][k] <= lastId /\ got[x][k] <= lastId /\ 0 <= lastId
    BY FailoverAssumption DEF Recent, Upstream, Typed
  <2>2. CASE x = s
    BY <1>3, <2>1, <2>2
  <2>3. CASE x # s
    BY <1>1, <2>1, <2>3
  <2>4. QED
    BY <2>2, <2>3
<1>7. \A x \in Servers : Coming(x)' => table'[x] = Empty'
  BY <1>1, <1>5 DEF Recent, Empty
<1>8. QED
  BY <1>1, <1>4, <1>5, <1>6, <1>7 DEF Recent

RecentInv == ~inner => Recent

LEMMA RecentStep ==
  ASSUME Order, Links, Upstream, Flags, Chained, RecentInv, [Next]_vars
  PROVE  RecentInv' /\ (~inner => Newer)
<1>1. \/ inner' = inner
      \/ table' = table /\ (inner => inner')
  <2>1. ASSUME NEW s \in Servers, Crash(s) PROVE table' = table /\ (inner => inner')
    BY <2>1 DEF Crash
  <2>2. Send => inner' = inner
    BY DEF Send
  <2>3. ASSUME NEW f \in Senders, NEW s \in Servers,
               Execute(f, s) \/ Forward(f, s) \/ Forwarded(f, s) \/ Answer(f, s)
        PROVE  inner' = inner
    BY <2>3 DEF Execute, Forward, Forwarded, Answer
  <2>4. ASSUME NEW s \in Servers,
               \/ Expire(s) \/ Relink(s) \/ Join(s) \/ ChooseSource(s)
               \/ GetTable(s) \/ Size(s) \/ CopyFails(s)
        PROVE  inner' = inner
    BY <2>4 DEF Expire, Relink, Join, ChooseSource, GetTable, Size, CopyFails
  <2>5. QED
    BY <2>1, <2>2, <2>3, <2>4 DEF Next, vars
<1>2. ASSUME table' = table PROVE Newer
  <2>1. \A s \in Servers : \A k \in Keys : table[s][k] \in 0..MaxId
    BY DEF Upstream, Typed
  <2>2. QED
    BY <1>2, <2>1, FailoverAssumption DEF Newer
<1>3. ASSUME ~inner' PROVE Recent' /\ Newer
  <2>1. Recent /\ Downstream /\ OneRequest
    BY <1>1, <1>3 DEF RecentInv, Chained
  <2>2. CASE UNCHANGED vars
    BY <1>2, <2>1, <2>2 DEF vars, Recent, Gone, Coming, Empty
  <2>3. CASE Send
    <3>1. table' = table
      BY <2>3 DEF Send
    <3>2. QED
      BY <1>2, <2>1, <2>3, <3>1, RecentSend
  <2>4. ASSUME NEW f \in Senders, NEW s \in Servers, Execute(f, s) PROVE Recent' /\ Newer
    BY <2>1, <2>4, RecentExecute
  <2>5. ASSUME NEW f \in Senders, NEW s \in Servers, Forward(f, s) PROVE Recent' /\ Newer
    <3>1. table' = table
      BY <2>5 DEF Forward
    <3>2. QED
      BY <1>2, <2>1, <2>5, <3>1, RecentForward
  <2>6. ASSUME NEW s \in Servers,
               \/ \E f \in Senders : Forwarded(f, s) \/ Answer(f, s)
               \/ Crash(s) \/ Expire(s) \/ Relink(s) \/ Join(s) \/ ChooseSource(s) \/ CopyFails(s)
        PROVE  Recent' /\ Newer
    <3>1. table' = table
      BY <2>6 DEF Forwarded, Answer, Crash, Expire, Relink, Join, ChooseSource, CopyFails
    <3>2. Recent'
      BY ONLY <2>1, <2>6, RecentMoves, Order, Links, Upstream, Flags, [Next]_vars
    <3>3. QED
      BY <1>2, <3>1, <3>2
  <2>7. ASSUME NEW s \in Servers, GetTable(s) PROVE Recent' /\ Newer
    <3>1. table' = table
      BY <2>7 DEF GetTable
    <3>2. QED
      BY <1>2, <2>1, <2>7, <3>1, RecentGetTable
  <2>8. ASSUME NEW s \in Servers, Size(s) PROVE Recent' /\ Newer
    BY <2>1, <2>8, RecentSize
  <2>9. QED
    BY <2>2, <2>3, <2>4, <2>5, <2>6, <2>7, <2>8 DEF Next
<1>4. ~inner => Newer
  <2>1. CASE inner' = inner
    BY <1>3, <2>1
  <2>2. CASE table' = table
    BY <1>2, <2>2
  <2>3. QED
    BY <1>1, <2>1, <2>2
<1>5. QED
  BY <1>3, <1>4 DEF RecentInv

LEMMA RecentAlways == Spec => []RecentInv
<1>1. Init => RecentInv
  BY FailoverAssumption DEF Init, RecentInv, Recent, Empty, Idle, Servers
<1>2. Order /\ Links /\ Upstream /\ Flags /\ Chained /\ RecentInv /\ [Next]_vars => RecentInv'
  BY RecentStep
<1>3. QED
  BY <1>1, <1>2, LinksAlways, UpstreamAlways, FlagsAlways, ChainedAlways, PTL DEF Spec

\* Whoever joins, and while only last servers die, no server replaces the value of a
\* key by an older one.
THEOREM NewerUnlessInnerDiedAlways == Spec => NewerUnlessInnerDied
<1>1. Order /\ Links /\ Upstream /\ Flags /\ Chained /\ RecentInv /\ [Next]_vars
        => [~inner => Newer]_vars
  BY RecentStep
<1>2. QED
  BY <1>1, LinksAlways, UpstreamAlways, FlagsAlways, ChainedAlways, RecentAlways, PTL
     DEF Spec, NewerUnlessInnerDied

-----------------------------------------------------------------------------
(* What is forwarded was done *)

Forwards(p, u) == \E g \in Senders : thread[g][p] = [pc |-> "forward", upd |-> u]

\* What a server forwards or has sent, it has done.
Done == \A p \in Servers : \A u \in Updates :
  Forwards(p, u) \/ (\E s \in Servers : ~Gone(s) /\ sent[p][s] = <<u>>) => table[p][u.key] = Value(u)

LEMMA OneElement ==
  ASSUME NEW u, NEW v, <<u>> = <<v>>
  PROVE  u = v
OBVIOUS

\* A server that is asked something has nothing on the way.
LEMMA NothingYet ==
  ASSUME Order, Upstream, Downstream, OneRequest,
         NEW f \in Senders, NEW s \in Servers, ~Gone(s), Asked(f, s)
  PROVE  /\ \A g \in Senders : thread[g][s] = Idle
         /\ \A x \in Servers : ~Gone(x) => sent[s][x] = <<>>
<1>1. \A g \in Senders : thread[g][s] = Idle
  <2> SUFFICES ASSUME NEW g \in Senders, thread[g][s] # Idle PROVE FALSE
    OBVIOUS
  <2>1. ~Quiet(g, s) /\ ~Quiet(f, s)
    <3>1. \A u : <<u>> # <<>>
      OBVIOUS
    <3>2. QED
      BY <3>1 DEF Quiet, Asked
  <2>2. f = g
    BY ONLY <2>1, OneAsks, Order, Upstream, Downstream, OneRequest, ~Gone(s)
  <2>3. QED
    BY <2>2 DEF Asked
<1>2. ASSUME NEW x \in Servers, ~Gone(x), sent[s][x] # <<>> PROVE FALSE
  <2>1. s \in Senders /\ s # Client
    BY FailoverAssumption DEF Senders, Servers, Client
  <2>2. Awaits(s, x)
    BY <1>2, <2>1 DEF OneRequest, Quiet
  <2>3. \E g \in Senders : thread[g][s] # Idle
    BY <2>1, <2>2, AwaitsOlder
  <2>4. QED
    BY <1>1, <2>3
<1>3. QED
  BY <1>1, <1>2

\* Nor does one that waits for an answer forward anything.
LEMMA SentByOneThatWaits ==
  ASSUME Order, Upstream, Downstream, OneRequest,
         NEW p \in Servers, NEW s \in Servers, ~Gone(s), ~Quiet(p, s)
  PROVE  /\ \E g \in Senders : thread[g][p] = [pc |-> "waits", on |-> s]
         /\ Serves(p) /\ \A u \in Updates : ~Forwards(p, u)
<1>1. p \in Senders /\ p # Client
  BY FailoverAssumption DEF Senders, Servers, Client
<1>2. Awaits(p, s)
  BY <1>1 DEF OneRequest
<1>3. Serves(p)
  BY <1>1, <1>2, AwaitsOlder
<1>4. PICK g \in Senders : thread[g][p] = [pc |-> "waits", on |-> s] /\ thread[g][p] # Idle
  BY <1>1, <1>2, AwaitsOlder
<1>5. ASSUME NEW u \in Updates, Forwards(p, u) PROVE FALSE
  <2>1. PICK h \in Senders : thread[h][p] = [pc |-> "forward", upd |-> u]
    BY <1>5 DEF Forwards
  <2>2. thread[h][p].pc = "forward" /\ thread[g][p].pc = "waits" /\ thread[h][p] # Idle
    BY <1>4, <2>1 DEF Idle
  <2>3. g = h
    BY ONLY <1>4, <2>2, OneThread, Order, Upstream, Downstream, OneRequest
  <2>4. QED
    BY <2>2, <2>3
<1>6. QED
  BY <1>3, <1>4, <1>5

LEMMA DoneExecute ==
  ASSUME Order, Links, Upstream, Flags, Downstream, OneRequest, Done,
         NEW f \in Senders, NEW s \in Servers, Execute(f, s)
  PROVE  Done'
<1>1. PICK u \in Updates : sent[f][s] = <<u>>
  BY RequestExecute DEF Asked
<1>2. Asked(f, s) /\ ~Gone(s) /\ Serves(s) /\ s \in Senders
  BY RequestExecute DEF Execute, Serves, Gone, Senders
<1>3. /\ \A g \in Senders : thread[g][s] = Idle
      /\ \A x \in Servers : ~Gone(x) => sent[s][x] = <<>>
  BY ONLY <1>2, NothingYet, Order, Upstream, Downstream, OneRequest
<1>4. /\ table'[s] = Apply(table[s], u) /\ \A x \in Servers : x # s => table'[x] = table[x]
      /\ \/ thread'[f][s] = [pc |-> "forward", upd |-> u]
         \/ thread'[f][s] = [pc |-> "answer"]
      /\ proc' = proc
  BY <1>1, ExecuteApplies
<1>5. /\ sent'[f][s] = <<>>
      /\ \A g \in Senders : \A x \in Servers : ~(g = f /\ x = s) =>
           sent'[g][x] = sent[g][x] /\ thread'[g][x] = thread[g][x]
  BY RequestExecute DEF Busy, Same
<1>6. u.key \in Keys /\ Apply(table[s], u)[u.key] = Value(u)
  <2>1. u.key \in Keys /\ table[s] \in [Keys -> 0..MaxId]
    BY DEF Updates, Upstream, Typed
  <2>2. QED
    BY <2>1, ApplyGives
<1>7. ASSUME NEW p \in Servers, NEW v \in Updates,
             \/ Forwards(p, v)'
             \/ \E x \in Servers : ~Gone(x)' /\ sent'[p][x] = <<v>>
      PROVE  table'[p][v.key] = Value(v)
  <2>1. CASE p # s
    <3>1. Forwards(p, v) \/ \E x \in Servers : ~Gone(x) /\ sent[p][x] = <<v>>
      <4>1. CASE Forwards(p, v)'
        BY <1>5, <2>1, <4>1 DEF Forwards
      <4>2. ASSUME NEW x \in Servers, ~Gone(x)', sent'[p][x] = <<v>>
            PROVE  ~Gone(x) /\ sent[p][x] = <<v>>
        <5>1. ~(p = f /\ x = s)
          <6>1. <<v>> # <<>>
            OBVIOUS
          <6>2. QED
            BY <1>5, <4>2, <6>1
        <5>2. p \in Senders
          BY DEF Senders
        <5>3. QED
          BY <1>4, <1>5, <4>2, <5>1, <5>2 DEF Gone
      <4>3. QED
        BY <1>7, <4>1, <4>2
    <3>2. table[p][v.key] = Value(v)
      BY <3>1 DEF Done
    <3>3. QED
      BY <1>4, <2>1, <3>2
  <2>2. CASE p = s /\ Forwards(p, v)'
    <3>1. PICK g \in Senders : thread'[g][s] = [pc |-> "forward", upd |-> v]
      BY <2>2 DEF Forwards
    <3>2. thread'[g][s].pc = "forward" /\ thread'[g][s].upd = v
      BY <3>1
    <3>3. g = f
      BY <1>3, <1>5, <3>2 DEF Idle
    <3>4. v = u
      BY <1>4, <3>2, <3>3
    <3>5. QED
      BY <1>4, <1>6, <2>2, <3>4
  <2>3. CASE p = s /\ \E x \in Servers : ~Gone(x)' /\ sent'[p][x] = <<v>>
    <3>1. PICK x \in Servers : ~Gone(x)' /\ sent'[s][x] = <<v>>
      BY <2>3
    <3>2. sent'[s][x] \in {sent[s][x], <<>>} /\ ~Gone(x) /\ <<v>> # <<>>
      BY <1>2, <1>4, <1>5, <3>1 DEF Gone
    <3>3. QED
      BY <1>3, <3>1, <3>2
  <2>4. QED
    BY <1>7, <2>1, <2>2, <2>3
<1>8. QED
  BY <1>7 DEF Done

LEMMA DoneKept ==
  ASSUME Done, table' = table,
         \A p \in Servers : \A v \in Updates :
           Forwards(p, v)' \/ (\E x \in Servers : ~Gone(x)' /\ sent'[p][x] = <<v>>)
             => Forwards(p, v) \/ (\E x \in Servers : ~Gone(x) /\ sent[p][x] = <<v>>)
  PROVE  Done'
BY DEF Done

LEMMA DoneForward ==
  ASSUME Order, Links, Upstream, Flags, Downstream, OneRequest, Done,
         NEW f \in Senders, NEW s \in Servers, Forward(f, s), [Next]_vars
  PROVE  Done'
<1>1. thread[f][s].pc = "forward" /\ table' = table /\ proc' = proc
  BY DEF Forward
<1>2. PICK u \in Updates : thread[f][s] = [pc |-> "forward", upd |-> u]
  <2>1. thread[f][s] \in Threads
    BY DEF Upstream, Typed
  <2>2. thread[f][s] \in [pc : {"forward"}, upd : Updates]
    BY <1>1, <2>1 DEF Threads
  <2>3. QED
    BY <2>2
<1>3. Forwards(s, u) /\ thread[f][s].upd = u
  BY <1>2 DEF Forwards
<1>4. ASSUME NEW p \in Servers, NEW v \in Updates, Forwards(p, v)' PROVE Forwards(p, v)
  <2>1. PICK g \in Senders : thread'[g][p] = [pc |-> "forward", upd |-> v]
    BY <1>4 DEF Forwards
  <2>2. thread'[g][p].pc = "forward"
    BY <2>1
  <2>3. thread'[g][p] = thread[g][p]
    BY <2>2, RequestForward
  <2>4. QED
    BY <2>1, <2>3 DEF Forwards
<1>5. ASSUME NEW p \in Servers, NEW v \in Updates, NEW x \in Servers, ~Gone(x)', sent'[p][x] = <<v>>
      PROVE  \/ Forwards(p, v)
             \/ ~Gone(x) /\ sent[p][x] = <<v>>
  <2>1. p \in Senders /\ ~Gone(x)
    BY <1>1, <1>5 DEF Senders, Gone
  <2>2. \/ sent'[p][x] = sent[p][x]
        \/ p = s /\ sent'[p][x] = <<u>>
    <3>1. \/ sent'[p][x] = sent[p][x]
          \/ /\ p = s /\ x = link[s] /\ Alive(x) /\ Quiet(p, x)
             /\ sent'[p][x] = <<thread[f][s].upd>>
      BY <2>1, RequestForward
    <3>2. QED
      BY <1>3, <3>1
  <2>3. CASE sent'[p][x] = sent[p][x]
    BY <1>5, <2>1, <2>3
  <2>4. CASE p = s /\ sent'[p][x] = <<u>>
    <3>1. <<u>> = <<v>>
      BY <1>5, <2>4
    <3>2. u = v
      BY ONLY <3>1, OneElement
    <3>3. QED
      BY <1>3, <2>4, <3>2
  <2>5. QED
    BY <2>2, <2>3, <2>4
<1>6. QED
  BY ONLY <1>1, <1>4, <1>5, DoneKept, Done

LEMMA DoneMoves ==
  ASSUME Order, Links, Upstream, Flags, Done, [Next]_vars, NEW s \in Servers,
         \/ Send
         \/ \E f \in Senders : Forwarded(f, s) \/ Answer(f, s)
         \/ Crash(s) \/ Expire(s) \/ Relink(s) \/ Join(s) \/ ChooseSource(s) \/ CopyFails(s)
         \/ GetTable(s)
  PROVE  Done'
<1>1. table' = table
  BY DEF Send, Forwarded, Answer, Crash, Expire, Relink, Join, ChooseSource, CopyFails, GetTable
<1>2. /\ \A p \in Servers : \A x \in Servers : sent'[p][x] \in {sent[p][x], <<>>}
      /\ \A f \in Senders : \A x \in Servers :
           thread'[f][x].pc = "forward" => thread'[f][x] = thread[f][x]
  <2>1. CASE Crash(s)
    BY <2>1 DEF Crash, Upstream, Typed, Idle, Senders
  <2>2. CASE Send
    <3>1. thread' = thread /\ \E u : sent' = [sent EXCEPT ![Client][1] = Append(@, u)]
      BY <2>2 DEF Send
    <3>2. \A p \in Servers : p # Client
      BY FailoverAssumption DEF Servers, Client
    <3>3. QED
      BY <3>1, <3>2 DEF Upstream, Typed, Senders
  <2>3. ASSUME NEW f \in Senders, Forwarded(f, s) \/ Answer(f, s)
        PROVE  /\ sent' = sent
               /\ \A g \in Senders : \A x \in Servers :
                    thread'[g][x].pc = "forward" => thread'[g][x] = thread[g][x]
    <3>1. sent' = sent /\ \E t \in {[pc |-> "answer"], Idle} : thread' = [thread EXCEPT ![f][s] = t]
      BY <2>3 DEF Forwarded, Answer, Goto
    <3>2. PICK t \in {[pc |-> "answer"], Idle} : thread' = [thread EXCEPT ![f][s] = t]
      BY <3>1
    <3>3. t.pc # "forward"
      BY <3>2 DEF Idle
    <3>4. QED
      BY <3>1, <3>2, <3>3 DEF Upstream, Typed
  <2>4. CASE Expire(s) \/ Relink(s) \/ Join(s) \/ ChooseSource(s) \/ CopyFails(s) \/ GetTable(s)
    BY <2>4 DEF Expire, Relink, Join, ChooseSource, CopyFails, GetTable
  <2>5. QED
    BY <2>1, <2>2, <2>3, <2>4
<1>3. ASSUME NEW p \in Servers, NEW v \in Updates, Forwards(p, v)' PROVE Forwards(p, v)
  <2>1. PICK g \in Senders : thread'[g][p] = [pc |-> "forward", upd |-> v]
    BY <1>3 DEF Forwards
  <2>2. thread'[g][p].pc = "forward"
    BY <2>1
  <2>3. QED
    BY <1>2, <2>1, <2>2 DEF Forwards
<1>4. ASSUME NEW p \in Servers, NEW v \in Updates, NEW x \in Servers, ~Gone(x)', sent'[p][x] = <<v>>
      PROVE  ~Gone(x) /\ sent[p][x] = <<v>>
  <2>1. ~Gone(x)
    BY <1>4, GoneStay
  <2>2. <<v>> # <<>>
    OBVIOUS
  <2>3. QED
    BY <1>2, <1>4, <2>1, <2>2
<1>5. QED
  BY ONLY <1>1, <1>3, <1>4, DoneKept, Done

LEMMA DoneSize ==
  ASSUME Order, Links, Upstream, Flags, Downstream, OneRequest, Done, NEW s \in Servers, Size(s)
  PROVE  Done'
<1>1. /\ proc[s] = "size" /\ sent' = sent /\ thread' = thread
      /\ \A x \in Servers : x # s => proc'[x] = proc[x] /\ table'[x] = table[x]
      /\ proc'[s] = "undefined" \/ proc'[s] = "up"
  BY SizeCopies
<1>2. ~Serves(s)
  BY <1>1 DEF Serves
<1>3. ASSUME NEW v \in Updates PROVE ~Forwards(s, v)
  <2>1. \A g \in Senders : thread[g][s] = Idle
    BY <1>2 DEF Upstream, Working
  <2>2. QED
    BY <2>1 DEF Forwards, Idle
<1>4. ASSUME NEW v \in Updates, NEW x \in Servers, ~Gone(x), sent[s][x] = <<v>> PROVE FALSE
  <2>1. ~Quiet(s, x)
    <3>1. <<v>> # <<>>
      OBVIOUS
    <3>2. QED
      BY <1>4, <3>1 DEF Quiet
  <2>2. Serves(s)
    BY <1>4, <2>1, SentByOneThatWaits
  <2>3. QED
    BY <1>2, <2>2
<1>5. \A x \in Servers : ~Gone(x)' => ~Gone(x)
  BY <1>1 DEF Gone
<1>6. ASSUME NEW p \in Servers, NEW v \in Updates,
             Forwards(p, v)' \/ (\E x \in Servers : ~Gone(x)' /\ sent'[p][x] = <<v>>)
      PROVE  table'[p][v.key] = Value(v)
  <2>1. Forwards(p, v) \/ (\E x \in Servers : ~Gone(x) /\ sent[p][x] = <<v>>)
    BY <1>1, <1>5, <1>6 DEF Forwards
  <2>2. p # s
    BY <1>3, <1>4, <2>1
  <2>3. QED
    BY <1>1, <2>1, <2>2 DEF Done
<1>7. QED
  BY <1>6 DEF Done

DoneInv == ~inner => Done

LEMMA DoneAlways == Spec => []DoneInv
<1> USE DEF DoneInv
<1>1. Init => DoneInv
  <2> SUFFICES ASSUME Init PROVE Done
    OBVIOUS
  <2>1. \A p \in Servers : \A v \in Updates : ~Forwards(p, v)
    BY DEF Init, Idle, Forwards
  <2>2. \A p \in Servers : \A x \in Servers : sent[p][x] = <<>>
    BY DEF Init, Senders
  <2>3. \A v : <<v>> # <<>>
    OBVIOUS
  <2>4. QED
    BY <2>1, <2>2, <2>3 DEF Done
<1>2. Order /\ Links /\ Upstream /\ Flags /\ Chained /\ DoneInv /\ [Next]_vars => DoneInv'
  <2> SUFFICES ASSUME Order, Links, Upstream, Flags, Chained, DoneInv, [Next]_vars, ~inner'
               PROVE  Done'
    OBVIOUS
  <2>1. ASSUME ~inner, \E s \in Servers :
                 \/ Send
                 \/ \E f \in Senders : Forwarded(f, s) \/ Answer(f, s)
                 \/ Crash(s) \/ Expire(s) \/ Relink(s) \/ Join(s) \/ ChooseSource(s)
                 \/ CopyFails(s) \/ GetTable(s)
        PROVE  Done'
    BY ONLY <2>1, DoneMoves, Order, Links, Upstream, Flags, DoneInv, [Next]_vars DEF DoneInv
  <2>2. CASE UNCHANGED vars
    BY <2>2 DEF vars, Done, Forwards, Gone
  <2>3. CASE Send
    <3>1. inner' = inner /\ 1 \in Servers
      BY <2>3, FailoverAssumption DEF Send, Servers
    <3>2. QED
      BY <2>1, <2>3, <3>1
  <2>4. ASSUME NEW s \in Servers,
               \/ \E f \in Senders : Forwarded(f, s) \/ Answer(f, s)
               \/ Crash(s) \/ Expire(s) \/ Relink(s) \/ Join(s) \/ ChooseSource(s)
               \/ CopyFails(s) \/ GetTable(s)
        PROVE  Done'
    <3>1. ~inner
      BY <2>4 DEF Forwarded, Answer, Crash, Expire, Relink, Join, ChooseSource, CopyFails, GetTable
    <3>2. QED
      BY <2>1, <2>4, <3>1
  <2>5. ASSUME NEW f \in Senders, NEW s \in Servers, Execute(f, s) PROVE Done'
    <3>1. ~inner
      BY <2>5 DEF Execute
    <3>2. QED
      BY <2>5, <3>1, DoneExecute DEF Chained
  <2>6. ASSUME NEW f \in Senders, NEW s \in Servers, Forward(f, s) PROVE Done'
    <3>1. ~inner
      BY <2>6 DEF Forward
    <3>2. QED
      BY <2>6, <3>1, DoneForward DEF Chained
  <2>7. ASSUME NEW s \in Servers, Size(s) PROVE Done'
    <3>1. ~inner
      BY <2>7 DEF Size
    <3>2. QED
      BY <2>7, <3>1, DoneSize DEF Chained
  <2>8. QED
    BY <2>2, <2>3, <2>4, <2>5, <2>6, <2>7 DEF Next
<1>3. QED
  BY <1>1, <1>2, LinksAlways, UpstreamAlways, FlagsAlways, ChainedAlways, PTL DEF Spec

-----------------------------------------------------------------------------
(* What a clean server has *)

OnWay(p, s, u) == Forwards(p, u) \/ sent[p][s] = <<u>>

Clean(s) == clean[s] /\ proc[s] \in {"size", "up"}
Gets(s)  == IF proc[s] = "size" THEN got[s] ELSE table[s]

\* s has what p has, but for an update that is on its way.
Follows(s, p) ==
  /\ p < s /\ Serves(p) /\ Clean(p) /\ link[p] = s
  /\ \A u \in Updates : OnWay(p, s, u) => table[p] = Apply(Gets(s), u)
  /\ (\A u \in Updates : ~OnWay(p, s, u)) => table[p] = Gets(s)

CleanFollow == \A s \in Servers : s # 1 /\ Clean(s) => \E p \in Servers : Follows(s, p)

\* All that was received is copied when the size agrees.
LEMMA CopiedAll ==
  ASSUME Upstream, NEW s \in Servers
  PROVE  Copied(s, Cardinality(Present(got[s]))) = got[s]
<1> DEFINE P == Present(got[s])
           n == Cardinality(P)
<1>1. got[s] \in [Keys -> 0..MaxId]
  BY DEF Upstream, Typed
<1>2. P \subseteq 1..NKeys /\ IsFiniteSet(1..NKeys)
  BY FailoverAssumption, FS_Interval DEF Present, Keys
<1>3. IsFiniteSet(P)
  BY <1>2, FS_Subset
<1>4. ASSUME NEW k \in Keys PROVE Cardinality({j \in P : j <= k}) <= n
  <2>1. {j \in P : j <= k} \subseteq P
    OBVIOUS
  <2>2. QED
    BY <1>3, <2>1, FS_Subset
<1> HIDE DEF P
<1>5. \A k \in Keys : Copied(s, n)[k] = got[s][k]
  <2>1. Copied(s, n) = [k \in Keys |-> IF Cardinality({j \in P : j <= k}) <= n THEN got[s][k] ELSE 0]
    BY DEF Copied, P
  <2>2. QED
    BY <1>4, <2>1
<1>6. Copied(s, n) \in [Keys -> 0..MaxId]
  BY CopiedGives
<1>7. Copied(s, n) = got[s]
  <2> HIDE DEF n
  <2>1. QED
    BY <1>1, <1>5, <1>6
<1>8. QED
  BY <1>7 DEF P

LEMMA FollowsKept ==
  ASSUME NEW s \in Servers, NEW p \in Servers, Follows(s, p), Serves(p)', clean'[p] = clean[p],
         link'[p] = s, table'[p] = table[p], Gets(s)' = Gets(s),
         \A u \in Updates : Forwards(p, u)' = Forwards(p, u),
         sent'[p][s] = sent[p][s]
  PROVE  Follows(s, p)'
BY DEF Follows, OnWay, Clean, Serves

\* Whoever asks s is whom s follows.
LEMMA OnlyPredecessor ==
  ASSUME Order, Links, Upstream, Downstream, OneRequest,
         NEW s \in Servers, ~Gone(s), NEW p \in Servers, Follows(s, p),
         NEW f \in Senders, ~Quiet(f, s)
  PROVE  f = p
<1> USE FailoverAssumption DEF Servers
<1>1. p < s /\ Serves(p) /\ link[p] = s
  BY DEF Follows
<1>2. Skips(p, s)
  BY <1>1 DEF Links
<1>3. Awaits(f, s)
  BY DEF OneRequest
<1>4. f # Client
  <2>1. s # 1
    BY <1>1
  <2>2. QED
    BY <1>3, <2>1, AwaitsOlder
<1>5. f \in Servers /\ Serves(f) /\ Skips(f, s) /\ f < s
  BY <1>3, <1>4, AwaitsOlder
<1>6. ~(f < p) /\ ~(p < f)
  BY <1>1, <1>2, <1>5 DEF Skips, Serves, Gone
<1>7. QED
  BY <1>5, <1>6

LEMMA FollowsExecute ==
  ASSUME Order, Links, Upstream, Flags, Downstream, OneRequest,
         NEW f \in Senders, NEW x \in Servers, Execute(f, x),
         NEW s \in Servers, NEW p \in Servers, Clean(s), Follows(s, p)
  PROVE  Follows(s, p)'
<1>1. PICK u \in Updates : sent[f][x] = <<u>>
  BY RequestExecute DEF Asked
<1>2. Asked(f, x) /\ ~Gone(x) /\ Serves(x)
  BY RequestExecute DEF Execute, Serves, Gone
<1>3. /\ \A g \in Senders : thread[g][x] = Idle
      /\ \A y \in Servers : ~Gone(y) => sent[x][y] = <<>>
  BY ONLY <1>2, NothingYet, Order, Upstream, Downstream, OneRequest
<1>4. /\ table'[x] = Apply(table[x], u) /\ \A y \in Servers : y # x => table'[y] = table[y]
      /\ \/ thread'[f][x] = [pc |-> "forward", upd |-> u]
         \/ thread'[f][x] = [pc |-> "answer"] /\ table'[x] = table[x]
      /\ UNCHANGED <<proc, source, znodes, watch, link, lastId, got, clean, inner>>
  BY <1>1, ExecuteApplies
<1>5. /\ sent'[f][x] = <<>>
      /\ \A g \in Senders : \A y \in Servers : ~(g = f /\ y = x) =>
           sent'[g][y] = sent[g][y] /\ thread'[g][y] = thread[g][y]
  BY RequestExecute DEF Busy, Same
<1>6. p < s /\ p # s /\ Serves(p) /\ Clean(p) /\ link[p] = s /\ p \in Senders /\ ~Gone(s)
  BY FailoverAssumption DEF Follows, Clean, Gone, Senders, Servers
<1>7. p < s /\ Serves(p)' /\ Clean(p)' /\ link'[p] = s /\ (Clean(s))'
  BY <1>4, <1>6 DEF Serves, Clean
<1>8. CASE x = p
  <2>1. \A v \in Updates : ~OnWay(p, s, v)
    <3>1. \A v \in Updates : ~Forwards(p, v)
      BY <1>3, <1>8 DEF Forwards, Idle
    <3>2. sent[p][s] = <<>> /\ \A v : <<v>> # <<>>
      BY <1>3, <1>6, <1>8
    <3>3. QED
      BY <3>1, <3>2 DEF OnWay
  <2>2. table[p] = Gets(s)
    BY <2>1 DEF Follows
  <2>3. Gets(s)' = Gets(s)
    BY <1>4, <1>6, <1>8 DEF Gets
  <2>4. sent'[p][s] = <<>>
    BY <1>3, <1>5, <1>6, <1>8
  <2>5. CASE thread'[f][x] = [pc |-> "forward", upd |-> u]
    <3>1. Forwards(p, u)'
      BY <1>8, <2>5 DEF Forwards
    <3>2. ASSUME NEW v \in Updates, OnWay(p, s, v)' PROVE v = u
      <4>1. Forwards(p, v)'
        <5>1. <<v>> # <<>>
          OBVIOUS
        <5>2. QED
          BY <2>4, <3>2, <5>1 DEF OnWay
      <4>2. PICK g \in Senders : thread'[g][p] = [pc |-> "forward", upd |-> v]
        BY <4>1 DEF Forwards
      <4>3. thread'[g][p].pc = "forward" /\ thread'[g][p].upd = v
        BY <4>2
      <4>4. g = f
        BY <1>3, <1>5, <1>8, <4>3 DEF Idle
      <4>5. QED
        BY <1>8, <2>5, <4>3, <4>4
    <3>3. table'[p] = Apply(Gets(s), u)'
      BY <1>4, <1>8, <2>2, <2>3 DEF Apply, Value
    <3>4. OnWay(p, s, u)'
      BY <3>1 DEF OnWay
    <3>5. QED
      BY <1>7, <3>2, <3>3, <3>4 DEF Follows
  <2>6. CASE thread'[f][x] = [pc |-> "answer"] /\ table'[x] = table[x]
    <3>1. ASSUME NEW v \in Updates, OnWay(p, s, v)' PROVE FALSE
      <4>1. Forwards(p, v)'
        <5>1. <<v>> # <<>>
          OBVIOUS
        <5>2. QED
          BY <2>4, <3>1, <5>1 DEF OnWay
      <4>2. PICK g \in Senders : thread'[g][p] = [pc |-> "forward", upd |-> v]
        BY <4>1 DEF Forwards
      <4>3. thread'[g][p].pc = "forward"
        BY <4>2
      <4>4. QED
        BY <1>3, <1>5, <1>8, <2>6, <4>3 DEF Idle
    <3>2. table'[p] = Gets(s)'
      BY <1>8, <2>2, <2>3, <2>6
    <3>3. QED
      BY <1>7, <3>1, <3>2 DEF Follows
  <2>7. QED
    BY <1>4, <2>5, <2>6
<1>9. CASE x = s
  <2>1. ~Quiet(f, s)
    <3>1. <<u>> # <<>>
      OBVIOUS
    <3>2. QED
      BY <1>1, <1>9, <3>1 DEF Quiet
  <2>2. f = p
    BY ONLY <1>6, <2>1, OnlyPredecessor, Order, Links, Upstream, Downstream, OneRequest, Follows(s, p)
  <2>3. OnWay(p, s, u)
    BY <1>1, <1>9, <2>2 DEF OnWay
  <2>4. table[p] = Apply(table[s], u)
    <3>1. Gets(s) = table[s]
      BY <1>2, <1>9 DEF Gets, Serves
    <3>2. QED
      BY <2>3, <3>1 DEF Follows
  <2>5. table'[p] = Gets(s)'
    <3>1. Gets(s)' = table'[s]
      BY <1>2, <1>4, <1>9 DEF Gets, Serves
    <3>2. QED
      BY <1>4, <1>6, <1>9, <2>4, <3>1
  <2>6. ASSUME NEW v \in Updates, OnWay(p, s, v)' PROVE FALSE
    <3>1. sent'[p][s] = <<>> /\ <<v>> # <<>>
      BY <1>5, <1>9, <2>2
    <3>2. Forwards(p, v)'
      BY <2>6, <3>1 DEF OnWay
    <3>3. Forwards(p, v)
      BY <1>5, <1>6, <1>9, <3>2 DEF Forwards
    <3>4. ~Quiet(p, s)
      BY <2>1, <2>2
    <3>5. QED
      BY ONLY <1>6, <3>3, <3>4, SentByOneThatWaits, Order, Upstream, Downstream, OneRequest
  <2>7. QED
    BY <1>7, <2>5, <2>6 DEF Follows
<1>10. CASE x # p /\ x # s
  <2>1. \A v \in Updates : Forwards(p, v)' = Forwards(p, v)
    BY <1>5, <1>10 DEF Forwards
  <2>2. Gets(s)' = Gets(s) /\ table'[p] = table[p] /\ clean'[p] = clean[p] /\ sent'[p][s] = sent[p][s]
    BY <1>4, <1>5, <1>6, <1>10 DEF Gets
  <2>3. QED
    BY <1>7, <2>1, <2>2, FollowsKept
<1>11. QED
  BY <1>8, <1>9, <1>10

LEMMA FollowsForward ==
  ASSUME Order, Links, Upstream, Flags, Downstream, OneRequest,
         NEW f \in Senders, NEW x \in Servers, Forward(f, x), [Next]_vars,
         NEW s \in Servers, NEW p \in Servers, Clean(s), Follows(s, p)
  PROVE  Follows(s, p)'
<1>1. /\ thread[f][x].pc = "forward"
      /\ UNCHANGED <<proc, link, table, got, clean>>
  BY DEF Forward
<1>2. PICK u \in Updates : thread[f][x] = [pc |-> "forward", upd |-> u]
  <2>1. thread[f][x] \in Threads
    BY DEF Upstream, Typed
  <2>2. thread[f][x] \in [pc : {"forward"}, upd : Updates]
    BY <1>1, <2>1 DEF Threads
  <2>3. QED
    BY <2>2
<1>3. p < s /\ p # s /\ Serves(p) /\ Clean(p) /\ link[p] = s /\ p \in Senders /\ s # 0 /\ Alive(s)
  BY FailoverAssumption DEF Follows, Clean, Alive, Senders, Servers
<1>4. p < s /\ Serves(p)' /\ Clean(p)' /\ link'[p] = s /\ Gets(s)' = Gets(s)
  BY <1>1, <1>3 DEF Serves, Clean, Gets
<1>5. \A g \in Senders : \A y \in Servers :
        ~(g = f /\ y = x) => thread'[g][y] = thread[g][y]
  BY RequestForward
<1>6. CASE x = p
  <2>1. sent'[p][s] = <<u>>
    <3>1. thread[f][p].upd = u
      BY <1>2, <1>6
    <3>2. sent'[x][link[x]] = <<thread[f][x].upd>>
      BY <1>3, <1>6, RequestForward
    <3>3. QED
      BY <1>3, <1>6, <3>1, <3>2
  <2>2. table[p] = Apply(Gets(s), u)
    <3>1. OnWay(p, s, u)
      BY <1>2, <1>6 DEF OnWay, Forwards
    <3>2. QED
      BY <3>1 DEF Follows
  <2>3. table'[p] = Apply(Gets(s), u)'
    BY <1>1, <1>4, <2>2 DEF Apply, Value
  <2>4. ASSUME NEW v \in Updates, OnWay(p, s, v)' PROVE v = u
    <3>1. CASE sent'[p][s] = <<v>>
      <4>1. <<u>> = <<v>>
        BY <2>1, <3>1
      <4>2. QED
        BY ONLY <4>1, OneElement
    <3>2. CASE Forwards(p, v)'
      <4>1. PICK g \in Senders : thread'[g][p] = [pc |-> "forward", upd |-> v]
        BY <3>2 DEF Forwards
      <4>2. thread'[g][p].pc = "forward"
        BY <4>1
      <4>3. g # f
        BY <1>6, <4>2, RequestForward
      <4>4. thread[g][p] # Idle /\ thread[f][p] # Idle
        BY <1>1, <1>5, <1>6, <4>2, <4>3 DEF Idle
      <4>5. g = f
        BY ONLY <4>4, OneThread, Order, Upstream, Downstream, OneRequest
      <4>6. QED
        BY <4>3, <4>5
    <3>3. QED
      BY <2>4, <3>1, <3>2 DEF OnWay
  <2>5. OnWay(p, s, u)'
    BY <2>1 DEF OnWay
  <2>6. QED
    BY <1>4, <2>3, <2>4, <2>5 DEF Follows
<1>7. CASE x # p
  <2>1. sent'[p][s] = sent[p][s]
    <3>1. \/ sent'[p][s] = sent[p][s]
          \/ /\ p = x /\ s = link[x] /\ Alive(s) /\ Quiet(p, s)
             /\ sent'[p][s] = <<thread[f][x].upd>>
      BY <1>3, RequestForward
    <3>2. QED
      BY <1>7, <3>1
  <2>2. \A v \in Updates : Forwards(p, v)' = Forwards(p, v)
    BY <1>5, <1>7 DEF Forwards
  <2>3. table'[p] = table[p] /\ clean'[p] = clean[p]
    BY <1>1
  <2>4. QED
    BY <1>4, <2>1, <2>2, <2>3, FollowsKept
<1>8. QED
  BY <1>6, <1>7

\* Steps of others: the next server goes on being the next.
LEMMA FollowsMoves ==
  ASSUME Order, Links, Upstream, Flags, ~inner', [Next]_vars, NEW x \in Servers,
         \/ Send
         \/ \E f \in Senders : Forwarded(f, x) \/ Answer(f, x)
         \/ Crash(x) \/ Expire(x) \/ Relink(x) \/ Join(x) \/ ChooseSource(x) \/ CopyFails(x),
         NEW s \in Servers, Clean(s)', NEW p \in Servers, Clean(s) => Follows(s, p)
  PROVE  Follows(s, p)'
<1> USE FailoverAssumption DEF Servers
<1>1. table' = table /\ got' = got /\ clean' = clean
  BY DEF Send, Forwarded, Answer, Crash, Expire, Relink, Join, ChooseSource, CopyFails
<1>2. /\ Clean(s) /\ proc'[s] = proc[s]
      /\ Crash(x) => s < x
  <2>1. \/ proc' = proc
        \/ Crash(x) /\ proc' = [proc EXCEPT ![x] = "down"]
        \/ \E q \in {"set_table", "gettable", "down", "undefined"} : proc' = [proc EXCEPT ![x] = q]
    BY DEF Send, Forwarded, Answer, Crash, Expire, Relink, Join, ChooseSource, CopyFails
  <2>2. proc'[s] \in {"size", "up"}
    BY DEF Clean
  <2>3. proc'[s] = proc[s] /\ (proc' # proc => s # x)
    BY <2>1, <2>2 DEF Order
  <2>4. Clean(s)
    BY <1>1, <2>3 DEF Clean
  <2>5. ASSUME Crash(x) PROVE s < x
    <3>1. \A o \in (x + 1)..N : proc[o] = "absent"
      BY <2>5 DEF Crash
    <3>2. s \notin (x + 1)..N
      BY <2>2, <2>3, <3>1
    <3>3. proc'[x] = "down"
      BY <2>5 DEF Crash, Order
    <3>4. s # x
      BY <2>2, <3>3
    <3>5. QED
      BY <3>2, <3>4
  <2>6. QED
    BY <2>3, <2>4, <2>5
<1>3. Follows(s, p)
  BY <1>2
<1>4. p < s /\ Serves(p) /\ link[p] = s /\ s # 0 /\ p \in Senders
  BY <1>3 DEF Follows, Senders
<1>5. Alive(s) /\ s \in znodes
  BY <1>2 DEF Clean, Alive, Order
<1>6. ASSUME Crash(x) PROVE p # x /\ s # x
  BY <1>2, <1>4, <1>6
<1>7. Serves(p)'
  <2>1. \/ proc' = proc
        \/ Crash(x) /\ proc' = [proc EXCEPT ![x] = "down"]
        \/ proc[x] # "up" /\ \E q : proc' = [proc EXCEPT ![x] = q]
    BY DEF Send, Forwarded, Answer, Crash, Expire, Relink, Join, ChooseSource, CopyFails
  <2>2. QED
    BY <1>4, <1>6, <2>1 DEF Serves, Order
<1>8. link'[p] = s
  <2>1. CASE Relink(x)
    <3>1. CASE x = p
      <4>1. s \in Younger(p) /\ Younger(p) \in SUBSET Servers
        BY <1>4, <1>5 DEF Younger, Order
      <4>2. Min(Younger(p)) \in Younger(p) /\ Min(Younger(p)) <= s
        BY ONLY <4>1, MinIsLeast
      <4>3. Min(Younger(p)) \in znodes /\ Min(Younger(p)) > p
        BY <4>2 DEF Younger
      <4>4. \A z \in znodes : ~(p < z /\ z < s)
        BY <1>4 DEF Links
      <4>5. PICK m \in Servers : m = Min(Younger(p))
        BY <4>3 DEF Order
      <4>6. m = s
        <5>1. m \in znodes /\ p < m /\ m <= s
          BY <4>2, <4>3, <4>5
        <5>2. QED
          BY <4>4, <5>1
      <4>7. link' = [link EXCEPT ![p] = m]
        BY <1>5, <2>1, <3>1, <4>1, <4>5, <4>6 DEF Relink
      <4>8. QED
        BY <4>6, <4>7 DEF Links
    <3>2. CASE x # p
      <4>1. \E l : link' = [link EXCEPT ![x] = l]
        BY <2>1 DEF Relink
      <4>2. QED
        BY <1>4, <3>2, <4>1
    <3>3. QED
      BY <3>1, <3>2
  <2>2. CASE ~Relink(x)
    <3>1. link' = link
      BY <2>2 DEF Send, Forwarded, Answer, Crash, Expire, Join, ChooseSource, CopyFails
    <3>2. QED
      BY <1>4, <3>1
  <2>3. QED
    BY <2>1, <2>2
<1>9. /\ sent'[p][s] = sent[p][s]
      /\ \A v \in Updates : Forwards(p, v)' = Forwards(p, v)
  <2>1. CASE Crash(x)
    <3>1. p # x /\ s # x
      BY <1>6, <2>1
    <3>2. \A g \in Senders : \A y \in Servers :
            y # x => sent'[g][y] = sent[g][y] /\ thread'[g][y] = thread[g][y]
      BY <2>1 DEF Crash, Upstream, Typed
    <3>3. QED
      BY <1>4, <3>1, <3>2 DEF Forwards
  <2>2. CASE Send
    <3>1. thread' = thread /\ \E u : sent' = [sent EXCEPT ![Client][1] = Append(@, u)]
      BY <2>2 DEF Send
    <3>2. p # Client
      BY DEF Client
    <3>3. QED
      BY <1>4, <3>1, <3>2 DEF Upstream, Typed, Forwards
  <2>3. ASSUME NEW f \in Senders, Forwarded(f, x) \/ Answer(f, x)
        PROVE  /\ sent' = sent
               /\ \A v \in Updates : Forwards(p, v)' = Forwards(p, v)
    <3>1. /\ sent' = sent /\ thread[f][x].pc # "forward"
          /\ \E t \in {[pc |-> "answer"], Idle} : thread' = [thread EXCEPT ![f][x] = t]
      BY <2>3 DEF Forwarded, Answer, Goto
    <3>2. PICK t \in {[pc |-> "answer"], Idle} : thread' = [thread EXCEPT ![f][x] = t]
      BY <3>1
    <3>3. t.pc # "forward"
      BY <3>2 DEF Idle
    <3>4. /\ thread'[f][x] = t
          /\ \A g \in Senders : \A y \in Servers :
               ~(g = f /\ y = x) => thread'[g][y] = thread[g][y]
      BY <3>2 DEF Upstream, Typed
    <3>5. ASSUME NEW v \in Updates, NEW g \in Senders
          PROVE  (thread'[g][p] = [pc |-> "forward", upd |-> v])
                   <=> (thread[g][p] = [pc |-> "forward", upd |-> v])
      <4>1. CASE g = f /\ p = x
        <5>1. [pc |-> "forward", upd |-> v].pc = "forward"
          OBVIOUS
        <5>2. QED
          BY <3>1, <3>3, <3>4, <4>1, <5>1
      <4>2. CASE ~(g = f /\ p = x)
        BY <3>4, <4>2
      <4>3. QED
        BY <4>1, <4>2
    <3>6. QED
      BY <3>1, <3>5 DEF Forwards
  <2>4. CASE Expire(x) \/ Relink(x) \/ Join(x) \/ ChooseSource(x) \/ CopyFails(x)
    <3>1. sent' = sent /\ thread' = thread
      BY <2>4 DEF Expire, Relink, Join, ChooseSource, CopyFails
    <3>2. QED
      BY <3>1 DEF Forwards
  <2>5. QED
    BY <2>1, <2>2, <2>3, <2>4
<1>10. Gets(s)' = Gets(s) /\ table'[p] = table[p] /\ clean'[p] = clean[p]
  BY <1>1, <1>2 DEF Gets
<1>11. QED
  BY ONLY <1>3, <1>7, <1>8, <1>9, <1>10, FollowsKept

\* The table that is sent has what is on the way to the one that joins.
LEMMA FollowsGetTable ==
  ASSUME Order, Links, Upstream, Flags, Downstream, OneRequest, Done,
         NEW x \in Servers, GetTable(x),
         NEW s \in Servers, s # 1, Clean(s)', CleanFollow
  PROVE  \E p \in Servers : Follows(s, p)'
<1>1. PICK p \in Servers : p = source[x] /\ p < x
  BY DEF GetTable, Links
<1>2. /\ proc[x] = "gettable" /\ Serves(p) /\ proc' = [proc EXCEPT ![x] = "size"]
      /\ got' = [got EXCEPT ![x] = table[p]]
      /\ clean' = [clean EXCEPT ![x] = clean[p] /\ link[p] = x]
      /\ table' = table /\ sent' = sent /\ thread' = thread /\ link' = link
  BY <1>1 DEF GetTable
<1>3. /\ \A y \in Servers : y # x => /\ proc'[y] = proc[y] /\ clean'[y] = clean[y]
                                     /\ got'[y] = got[y]
      /\ proc'[x] = "size" /\ got'[x] = table[p] /\ p # x
      /\ clean'[x] => clean[p] /\ link[p] = x
  <2>1. clean'[x] = (clean[p] /\ link[p] = x)
    BY <1>2 DEF Flags
  <2>2. /\ \A y \in Servers : y # x => proc'[y] = proc[y]
        /\ proc'[x] = "size"
    BY <1>2 DEF Order
  <2>3. \A y \in Servers : y # x => clean'[y] = clean[y]
    BY <1>2 DEF Flags
  <2>4. /\ \A y \in Servers : y # x => got'[y] = got[y]
        /\ got'[x] = table[p]
    BY <1>2 DEF Upstream, Typed
  <2>5. p # x
    BY <1>1, FailoverAssumption DEF Servers
  <2>6. QED
    BY <2>1, <2>2, <2>3, <2>4, <2>5
<1>4. CASE s = x
  <2>1. clean'[x] /\ clean[p] /\ link[p] = x
    BY <1>3, <1>4 DEF Clean
  <2>2. p < x /\ Serves(p)' /\ Clean(p)' /\ link'[p] = x
    BY <1>1, <1>2, <1>3, <2>1 DEF Serves, Clean
  <2>3. Gets(x)' = table'[p]
    BY <1>2, <1>3 DEF Gets
  <2>4. ASSUME NEW u \in Updates, OnWay(p, x, u)' PROVE table'[p] = Apply(Gets(x), u)'
    <3>1. OnWay(p, x, u) /\ ~Gone(x)
      BY <1>2, <2>4 DEF OnWay, Forwards, Gone
    <3>2. table[p][u.key] = Value(u)
      BY <3>1 DEF Done, OnWay
    <3>3. table[p] \in [Keys -> 0..MaxId]
      BY DEF Upstream, Typed
    <3>4. Apply(table[p], u) = table[p]
      <4>1. /\ Apply(table[p], u) \in [Keys -> 0..MaxId]
            /\ \A k \in Keys : Apply(table[p], u)[k] = IF k = u.key THEN Value(u) ELSE table[p][k]
        BY <3>3, ApplyGives
      <4>2. \A k \in Keys : Apply(table[p], u)[k] = table[p][k]
        BY <3>2, <4>1
      <4>3. QED
        BY <3>3, <4>1, <4>2
    <3>5. QED
      BY <1>2, <2>3, <3>4 DEF Apply, Value
  <2>5. QED
    BY <1>4, <2>2, <2>3, <2>4 DEF Follows
<1>5. CASE s # x
  <2>1. Clean(s)
    BY <1>3, <1>5 DEF Clean
  <2>2. PICK q \in Servers : Follows(s, q)
    BY <2>1 DEF CleanFollow
  <2>3. q # x /\ Serves(q) /\ link[q] = s
    BY <1>2, <2>2 DEF Follows, Serves
  <2>4. Serves(q)' /\ clean'[q] = clean[q] /\ link'[q] = s /\ Gets(s)' = Gets(s)
    BY <1>2, <1>3, <1>5, <2>3 DEF Serves, Gets
  <2>5. /\ table'[q] = table[q] /\ sent'[q][s] = sent[q][s]
        /\ \A v \in Updates : Forwards(q, v)' = Forwards(q, v)
    BY <1>2 DEF Forwards
  <2>6. QED
    BY ONLY <2>2, <2>4, <2>5, FollowsKept
<1>6. QED
  BY <1>4, <1>5

LEMMA FollowsSize ==
  ASSUME Order, Links, Upstream, Flags, NEW x \in Servers, Size(x),
         NEW s \in Servers, Clean(s)', NEW p \in Servers, Clean(s) => Follows(s, p)
  PROVE  Follows(s, p)'
<1>1. /\ proc[x] = "size"
      /\ \A y \in Servers : y # x => /\ proc'[y] = proc[y] /\ table'[y] = table[y]
                                     /\ clean'[y] = clean[y]
      /\ \/ proc'[x] = "undefined" /\ table'[x] = table[x]
         \/ /\ proc'[x] = "up"
            /\ \E n : /\ table'[x] = Copied(x, n)
                      /\ clean'[x] => clean[x] /\ n = Cardinality(Present(got[x]))
      /\ UNCHANGED <<source, znodes, watch, link, sent, answers, thread, client, lastId, got, inner>>
  BY SizeCopies
<1>2. Clean(s) /\ Gets(s)' = Gets(s)
  <2>1. CASE s # x
    BY <1>1, <2>1 DEF Clean, Gets
  <2>2. CASE s = x
    <3>1. clean'[x] /\ proc'[x] = "up"
      BY <1>1, <2>2 DEF Clean
    <3>2. clean[x] /\ table'[x] = Copied(x, Cardinality(Present(got[x])))
      BY <1>1, <3>1
    <3>3. table'[x] = got[x]
      BY <3>2, CopiedAll
    <3>4. QED
      BY <1>1, <2>2, <3>1, <3>2, <3>3 DEF Clean, Gets
  <2>3. QED
    BY <2>1, <2>2
<1>3. Follows(s, p) /\ p # x
  BY <1>1, <1>2 DEF Follows, Serves
<1>4. Serves(p)' /\ clean'[p] = clean[p] /\ link'[p] = s /\ table'[p] = table[p]
  BY <1>1, <1>3 DEF Follows, Serves
<1>5. sent'[p][s] = sent[p][s] /\ \A v \in Updates : Forwards(p, v)' = Forwards(p, v)
  BY <1>1 DEF Forwards
<1>6. QED
  BY ONLY <1>2, <1>3, <1>4, <1>5, FollowsKept

CleanInv == ~inner => CleanFollow

LEMMA CleanAlways == Spec => []CleanInv
<1> USE DEF CleanInv
<1>1. Init => CleanInv
  <2> SUFFICES ASSUME Init, NEW s \in Servers, s # 1, Clean(s)
               PROVE  \E p \in Servers : Follows(s, p)
    BY DEF CleanFollow
  <2> USE FailoverAssumption DEF Servers
  <2>1. s <= Start
    BY DEF Init, Clean
  <2>2. PICK p \in Servers : p = s - 1 /\ p < Start /\ p < s
    BY <2>1
  <2>3. Serves(p) /\ Clean(p) /\ link[p] = s /\ proc[s] = "up"
    BY <2>1, <2>2 DEF Init, Serves, Clean
  <2>4. \A u \in Updates : ~OnWay(p, s, u)
    <3>1. \A g \in Senders : thread[g][p] = Idle
      BY DEF Init
    <3>2. sent[p][s] = <<>> /\ \A u : <<u>> # <<>>
      BY DEF Init, Senders
    <3>3. QED
      BY <3>1, <3>2 DEF OnWay, Forwards, Idle
  <2>5. table[p] = Gets(s)
    BY <2>3 DEF Init, Gets
  <2>6. QED
    BY <2>2, <2>3, <2>4, <2>5 DEF Follows
<1>2. /\ Order /\ Links /\ Upstream /\ Flags /\ Chained /\ DoneInv /\ CleanInv /\ [Next]_vars
      => CleanInv'
  <2> SUFFICES ASSUME Order, Links, Upstream, Flags, Chained, DoneInv, CleanInv, [Next]_vars, ~inner',
                      NEW s \in Servers, s # 1, Clean(s)'
               PROVE  \E p \in Servers : Follows(s, p)'
    BY DEF CleanFollow
  <2>1. CASE UNCHANGED vars
    <3>1. ~inner /\ Clean(s)
      BY <2>1 DEF vars, Clean
    <3>2. PICK p \in Servers : Follows(s, p)
      BY <3>1 DEF CleanFollow
    <3>3. /\ Serves(p)' /\ clean'[p] = clean[p] /\ link'[p] = s /\ table'[p] = table[p]
          /\ Gets(s)' = Gets(s) /\ sent'[p][s] = sent[p][s]
          /\ \A u \in Updates : Forwards(p, u)' = Forwards(p, u)
      BY <2>1, <3>2 DEF vars, Follows, Serves, Gets, Forwards
    <3>4. Follows(s, p)'
      BY ONLY <3>2, <3>3, FollowsKept
    <3>5. QED
      BY <3>4
  <2>2. ASSUME NEW x \in Servers,
               \/ Send
               \/ \E f \in Senders : Forwarded(f, x) \/ Answer(f, x)
               \/ Crash(x) \/ Expire(x) \/ Relink(x) \/ Join(x) \/ ChooseSource(x) \/ CopyFails(x)
        PROVE  \E p \in Servers : Follows(s, p)'
    <3>1. ~inner
      BY <2>2 DEF Send, Forwarded, Answer, Crash, Expire, Relink, Join, ChooseSource, CopyFails
    <3>2. Clean(s) => \E p \in Servers : Follows(s, p)
      BY <3>1 DEF CleanFollow
    <3>3. PICK p \in Servers : Clean(s) => Follows(s, p)
      BY <3>2
    <3>4. Follows(s, p)'
      BY ONLY <2>2, <3>3, FollowsMoves, Order, Links, Upstream, Flags, ~inner', [Next]_vars, Clean(s)'
    <3>5. QED
      BY <3>4
  <2>3. CASE Send
    <3>1. 1 \in Servers
      BY FailoverAssumption DEF Servers
    <3>2. QED
      BY <2>2, <2>3, <3>1
  <2>4. ASSUME NEW f \in Senders, NEW x \in Servers, Execute(f, x) \/ Forward(f, x)
        PROVE  \E p \in Servers : Follows(s, p)'
    <3>1. ~inner /\ Clean(s)
      BY <2>4 DEF Execute, Forward, Clean
    <3>2. PICK p \in Servers : Follows(s, p)
      BY <3>1 DEF CleanFollow
    <3>3. Downstream /\ OneRequest
      BY <3>1 DEF Chained
    <3>4. Follows(s, p)'
      BY ONLY <2>4, <3>1, <3>2, <3>3, FollowsExecute, FollowsForward,
              Order, Links, Upstream, Flags, [Next]_vars
    <3>5. QED
      BY <3>4
  <2>5. ASSUME NEW x \in Servers, GetTable(x) PROVE \E p \in Servers : Follows(s, p)'
    <3>1. ~inner
      BY <2>5 DEF GetTable
    <3>2. Downstream /\ OneRequest /\ Done /\ CleanFollow
      BY <3>1 DEF Chained, DoneInv
    <3>3. QED
      BY ONLY <2>5, <3>2, FollowsGetTable, Order, Links, Upstream, Flags, Clean(s)', s # 1
  <2>6. ASSUME NEW x \in Servers, Size(x) PROVE \E p \in Servers : Follows(s, p)'
    <3>1. ~inner
      BY <2>6 DEF Size
    <3>2. PICK p \in Servers : Clean(s) => Follows(s, p)
      BY <3>1 DEF CleanFollow
    <3>3. Follows(s, p)'
      BY ONLY <2>6, <3>2, FollowsSize, Order, Links, Upstream, Flags, Clean(s)'
    <3>4. QED
      BY <3>3
  <2>7. QED
    BY <2>1, <2>2, <2>3, <2>4, <2>5, <2>6 DEF Next
<1>3. QED
  BY <1>1, <1>2, LinksAlways, UpstreamAlways, FlagsAlways, ChainedAlways, DoneAlways, PTL DEF Spec

\* While only last servers die, whoever was linked before it copied, from one that was
\* too, and counted right what it was sent, misses nothing.
THEOREM CleanJoinsAgreeAlways == Spec => []CleanJoinsAgree
<1>1. CleanInv => CleanJoinsAgree
  <2> SUFFICES ASSUME CleanFollow, AtRest
               PROVE  \A s, o \in Servers :
                        Serves(s) /\ Serves(o) /\ clean[s] /\ clean[o] => table[s] = table[o]
    BY DEF CleanInv, CleanJoinsAgree
  <2> USE FailoverAssumption DEF Servers
  <2> DEFINE B == {s \in Servers : Serves(s) /\ clean[s] /\ table[s] # table[1]}
  <2>1. ASSUME B # {} PROVE FALSE
    <3>1. B \in SUBSET Nat
      OBVIOUS
    <3>2. PICK s \in B : \A m \in B : s <= m
      <4> HIDE DEF B
      <4>1. QED
        BY <2>1, <3>1, LeastExists
    <3>3. s \in Servers /\ Serves(s) /\ s # 1 /\ Clean(s) /\ table[s] # table[1]
      BY <3>2 DEF Clean, Serves
    <3>4. PICK p \in Servers : Follows(s, p)
      BY <3>3 DEF CleanFollow
    <3>5. p < s /\ Serves(p) /\ clean[p]
      BY <3>4 DEF Follows, Clean
    <3>6. table[p] = table[1]
      BY <3>2, <3>5
    <3>7. \A u \in Updates : ~OnWay(p, s, u)
      <4>1. \A g \in Senders : thread[g][p] = Idle
        BY <3>5 DEF AtRest
      <4>2. sent[p][s] = <<>> /\ \A u : <<u>> # <<>>
        BY <3>3 DEF AtRest, Senders
      <4>3. QED
        BY <4>1, <4>2 DEF OnWay, Forwards, Idle
    <3>8. table[p] = Gets(s)
      BY <3>4, <3>7 DEF Follows
    <3>9. Gets(s) = table[s]
      BY <3>3 DEF Gets, Serves
    <3>10. QED
      BY <3>3, <3>6, <3>8, <3>9
  <2>2. QED
    BY <2>1
<1>2. QED
  BY <1>1, CleanAlways, PTL
=============================================================================
