-------------------------- MODULE ClientViewProofs --------------------------
(* Theorems about ClientView: types, a head that only moves on, and the view *)
(* of a client that linked undisturbed.                                      *)
EXTENDS ClientView, NaturalsInduction, WellFoundedInduction, TLAPS

-----------------------------------------------------------------------------
(* The first and the last child *)

LEMMA LeastExists ==
  ASSUME NEW S \in SUBSET Nat, S # {}
  PROVE  \E n \in S : \A m \in S : n <= m
<1> DEFINE R == OpToRel(<, Nat)
<1>1. IsWellFoundedOn(R, Nat)
  BY NatLessThanWellFounded
<1>2. \A x, y \in Nat : y < x => <<y, x>> \in R
  BY DEF OpToRel
<1> HIDE DEF R
<1>3. \E x \in S : \A y \in S : ~ (<<y, x>> \in R)
  BY <1>1, WFMin
<1>4. PICK x \in S : \A y \in S : ~ (<<y, x>> \in R)
  BY <1>3
<1>5. \A y \in S : ~ (y < x)
  BY <1>2, <1>4
<1>6. \A y \in S : x <= y
  BY <1>5
<1>7. QED
  BY <1>6

\* End is the first or the last of the children.
LEMMA EndIs ==
  ASSUME NEW S \in SUBSET (1..N), S # {}
  PROVE  /\ End("head", S) \in S /\ \A x \in S : End("head", S) <= x
         /\ End("tail", S) \in S /\ \A x \in S : End("tail", S) >= x
<1> USE ViewAssumption
<1>1. \E n \in S : \A m \in S : n <= m
  <2>1. S \in SUBSET Nat
    OBVIOUS
  <2>2. QED
    BY <2>1, LeastExists
<1>2. \E n \in S : \A m \in S : n >= m
  <2> DEFINE T == {N - x : x \in S}
  <2>1. T \in SUBSET Nat /\ T # {}
    <3>1. PICK n : n \in S
      OBVIOUS
    <3>2. N - n \in T
      BY <3>1
    <3>3. QED
      BY <3>2
  <2> HIDE DEF T
  <2>2. PICK t \in T : \A u \in T : t <= u
    BY <2>1, LeastExists
  <2>3. PICK n \in S : t = N - n
    BY DEF T
  <2>4. \A m \in S : N - n <= N - m
    BY <2>2, <2>3 DEF T
  <2>5. \A m \in S : n >= m
    BY <2>4
  <2>6. QED
    BY <2>5
<1>3. Min(S) \in S /\ \A x \in S : Min(S) <= x
  BY <1>1 DEF Min
<1>4. Max(S) \in S /\ \A x \in S : Max(S) >= x
  BY <1>2 DEF Max
<1>5. QED
  BY <1>3, <1>4 DEF End

-----------------------------------------------------------------------------
(* Types *)

\* A watch that is set has not fired, and whoever takes the ends of its
\* children has some.
Watched ==
  /\ armed => events = 0
  /\ main = "start" => ~armed /\ events = 0 /\ watcher = "idle"
  /\ main = "paths" => snap["main"] # {}
  /\ watcher # "idle" => snap["watcher"] # {}

TInv == TypeOK /\ Watched

\* A call fails although znode and process are there.
Failing ==
  \/ LinkReadFails \/ WatcherReadFails
  \/ \E e \in Ends : LinkFails(e) \/ \E c \in {"gethead", "gettail"} : WatcherFails(e, c)

LEMMA ConnectTypes ==
  ASSUME TypeOK, NEW e \in Ends, IF HasZnode(e) THEN Connect(e) ELSE UNCHANGED <<conn, to>>
  PROVE  /\ to' \in Seq(1..N) /\ Len(to') \in Nat /\ Len(to) <= Len(to')
         /\ conn' \in [Ends -> 0..Len(to')]
<1> USE ViewAssumption DEF TypeOK
<1>1. CASE UNCHANGED <<conn, to>>
  BY <1>1
<1>2. CASE conn' = [conn EXCEPT ![e] = None] /\ UNCHANGED to
  BY <1>2 DEF None
<1>3. CASE path[e] \in procs /\ to' = Append(to, path[e]) /\ conn' = [conn EXCEPT ![e] = Len(to) + 1]
  <2>1. path[e] \in 1..N
    BY <1>3
  <2>2. to' \in Seq(1..N) /\ Len(to') = Len(to) + 1 /\ Len(to) \in Nat
    BY <1>3, <2>1
  <2>3. QED
    BY <1>3, <2>2
<1>4. QED
  BY <1>1, <1>2, <1>3 DEF Connect

LEMMA KidsTypes ==
  ASSUME TInv, NEW k, KidsBecome(k)
  PROVE  armed' = FALSE /\ events' \in 0..1
BY DEF TInv, TypeOK, Watched, KidsBecome

LEMMA InitTypes == Init => TInv
<1> SUFFICES ASSUME Init PROVE TInv
  OBVIOUS
<1>1. to = <<>> /\ to \in Seq(1..N) /\ Len(to) = 0
  BY DEF Init
<1>2. TypeOK
  <2>1. born \in 0..N /\ procs \subseteq 1..born /\ kids \subseteq 1..born
    BY ViewAssumption DEF Init
  <2>2. /\ path \in [Ends -> 0..N] /\ conn \in [Ends -> 0..Len(to)]
        /\ freed \subseteq 1..Len(to) /\ using \in 0..Len(to)
    BY <1>1, ViewAssumption DEF Init, None
  <2>3. armed \in BOOLEAN /\ clean \in BOOLEAN /\ main = "start" /\ watcher = "idle"
    BY DEF Init
  <2>4. events \in 0..1 /\ snap \in [{"main", "watcher"} -> SUBSET (1..N)]
    BY ViewAssumption DEF Init
  <2>5. QED
    BY <1>1, <2>1, <2>2, <2>3, <2>4 DEF TypeOK
<1>3. Watched
  BY DEF Init, Watched
<1>4. QED
  BY <1>2, <1>3 DEF TInv

LEMMA StepTypes == TInv /\ [Next]_vars => TInv'
<1> SUFFICES ASSUME TInv, [Next]_vars PROVE TInv'
  OBVIOUS
<1> USE ViewAssumption DEF TInv, TypeOK, Watched, Linking, None
<1>0. Len(to) \in Nat /\ \A e \in Ends : {conn[e]} \ {None} \subseteq 1..Len(to)
  <2>1. Len(to) \in Nat
    OBVIOUS
  <2>2. QED
    BY <2>1
<1>1. CASE Join
  <2>1. armed' = FALSE /\ events' \in 0..1
    BY <1>1, KidsTypes DEF Join
  <2>2. /\ born' \in 0..N /\ procs' \subseteq 1..born' /\ kids' \subseteq 1..born'
    BY <1>1 DEF Join, KidsBecome
  <2>3. main = "start" => events' = 0
    BY <1>1 DEF Join, KidsBecome
  <2>4. QED
    BY <1>1, <2>1, <2>2, <2>3 DEF Join, view
<1>2. ASSUME NEW s \in 1..N, Die(s) PROVE TInv'
  BY <1>2 DEF Die, view
<1>3. ASSUME NEW s \in 1..N, Expire(s) PROVE TInv'
  <2>1. armed' = FALSE /\ events' \in 0..1
    BY <1>3, KidsTypes DEF Expire
  <2>2. kids' \subseteq 1..born
    BY <1>3 DEF Expire, KidsBecome
  <2>3. main = "start" => events' = 0
    BY <1>3 DEF Expire, KidsBecome
  <2>4. QED
    BY <1>3, <2>1, <2>2, <2>3 DEF Expire, view
<1>4. CASE LinkRead
  BY <1>4 DEF LinkRead, zoo, view
<1>5. CASE LinkPaths
  <2>1. \A e \in Ends : End(e, snap["main"]) \in 0..N
    BY <1>5, EndIs DEF LinkPaths, Ends
  <2>2. QED
    BY <1>5, <2>1 DEF LinkPaths, zoo
<1>6. ASSUME NEW e \in Ends, NEW f \in {"tail", "command"}, Link(e, f) PROVE TInv'
  <2>1. /\ to' \in Seq(1..N) /\ Len(to') \in Nat /\ Len(to) <= Len(to')
        /\ conn' \in [Ends -> 0..Len(to')]
    BY <1>6, ConnectTypes DEF Link
  <2>2. main' \in {"tail", "command"} /\ clean' \in BOOLEAN
    BY <1>6 DEF Link
  <2>3. UNCHANGED <<zoo, armed, events, watcher, snap, path, freed, using>>
    BY <1>6 DEF Link
  <2>4. QED
    BY <2>1, <2>2, <2>3 DEF zoo
<1>7. CASE WatcherRead
  BY <1>7 DEF WatcherRead, Overlaps, Runs, zoo, view
<1>8. ASSUME NEW e \in Ends, NEW c \in {"gethead", "gettail"}, NEW f \in {"tail", "idle"},
             WatcherMove(e, c, f)
      PROVE  TInv'
  <2>1. snap["watcher"] # {} /\ End(e, snap["watcher"]) \in 0..N
    <3>1. watcher = e /\ e # "idle"
      BY <1>8 DEF WatcherMove, Ends
    <3>2. snap["watcher"] \in SUBSET (1..N) /\ snap["watcher"] # {}
      BY <3>1
    <3>3. End(e, snap["watcher"]) \in snap["watcher"]
      BY <3>2, EndIs DEF Ends
    <3>4. QED
      BY <3>2, <3>3
  <2>2. path' \in [Ends -> 0..N] /\ freed' \subseteq 1..Len(to)
    <3>1. path' \in {path, [path EXCEPT ![e] = End(e, snap["watcher"])]}
          /\ freed' \in {freed, freed \cup ({conn[e]} \ {None})}
      BY <1>8 DEF WatcherMove
    <3>2. QED
      BY <1>0, <2>1, <3>1
  <2>3. watcher' \in {watcher, c, f} /\ main' \in {main, "undefined"} /\ watcher # "idle"
    BY <1>8 DEF WatcherMove, Ends
  <2>4. UNCHANGED <<zoo, armed, events, snap, conn, to, using>> /\ clean' \in BOOLEAN
    BY <1>8 DEF WatcherMove, Overlaps
  <2>5. QED
    BY <2>1, <2>2, <2>3, <2>4 DEF zoo
<1>9. ASSUME NEW e \in Ends, NEW c \in {"gethead", "gettail"}, NEW f \in {"tail", "idle"},
             WatcherConnect(e, c, f)
      PROVE  TInv'
  <2>1. /\ to' \in Seq(1..N) /\ Len(to') \in Nat /\ Len(to) <= Len(to')
        /\ conn' \in [Ends -> 0..Len(to')]
    BY <1>9, ConnectTypes DEF WatcherConnect
  <2>2. watcher' \in {f, "idle"} /\ watcher # "idle" /\ clean' \in BOOLEAN
    BY <1>9 DEF WatcherConnect, Overlaps
  <2>3. UNCHANGED <<zoo, armed, events, main, snap, path, freed, using>>
    BY <1>9 DEF WatcherConnect
  <2>4. freed' \subseteq 1..Len(to') /\ using' \in 0..Len(to')
    BY <1>0, <2>1, <2>3
  <2>5. watcher' \in {"idle", "tail"} /\ Watched'
    BY <2>2, <2>3 DEF zoo
  <2>6. QED
    BY <2>1, <2>2, <2>3, <2>4, <2>5 DEF zoo
<1>10. CASE Undefined
  BY <1>10 DEF Undefined, zoo, view
<1>11. ASSUME NEW e \in Ends, Begin(e) PROVE TInv'
  <2>1. CASE ~Undefined
    BY <1>11, <2>1 DEF Begin, zoo, view
  <2>2. QED
    BY <1>10, <2>1
<1>12. CASE Call
  <2>1. CASE ~Undefined
    <3>1. /\ main' = "command" /\ using' = 0 /\ using' \in 0..Len(to)
          /\ UNCHANGED <<zoo, armed, events, watcher, snap, view, clean>>
      BY <1>0, <1>12, <2>1 DEF Call
    <3>2. QED
      BY <3>1 DEF zoo, view
  <2>2. QED
    BY <1>10, <2>1
<1>13. ASSUME NEW e \in Ends, NEW a \in {"command", "quit"}, NEW f \in {"quit", "closed"},
              Disconnect(e, a, f)
       PROVE  TInv'
  <2>1. CASE ~Undefined
    <3>1. freed' = freed \cup ({conn[e]} \ {None}) /\ main' = f
          /\ UNCHANGED <<zoo, armed, events, watcher, snap, path, conn, to, using, clean>>
      BY <1>13, <2>1 DEF Disconnect
    <3>2. freed' \subseteq 1..Len(to)
      BY <1>0, <3>1
    <3>3. QED
      BY <3>1, <3>2 DEF zoo
  <2>2. QED
    BY <1>10, <2>1
<1>14. CASE UNCHANGED vars
  BY <1>14 DEF vars, zoo, view
<1>15. CASE LinkReadFails
  BY <1>15 DEF LinkReadFails, zoo, view
<1>16. CASE WatcherReadFails
  <2>1. events > 0 /\ events' = events - 1 /\ clean' = FALSE
        /\ UNCHANGED <<zoo, armed, main, watcher, snap, view, using>>
    BY <1>16 DEF WatcherReadFails
  <2>2. events' = 0 /\ armed = FALSE /\ main # "start"
    BY <2>1
  <2>3. UNCHANGED <<born, procs, kids, armed, main, watcher, snap, path, conn, to, freed, using>>
    BY <2>1 DEF zoo, view
  <2>4. TypeOK'
    <3>1. TypeOK /\ events' \in 0..1
      BY <2>2
    <3>2. clean' \in BOOLEAN
      BY ONLY <2>1
    <3>3. QED
      BY ONLY <2>3, <3>1, <3>2 DEF TypeOK
  <2>5. Watched'
    BY <2>2, <2>3
  <2>6. QED
    BY <2>4, <2>5
<1>17. ASSUME NEW e \in Ends, LinkFails(e) \/ \E c \in {"gethead", "gettail"} : WatcherFails(e, c)
       PROVE  TInv'
  <2>1. conn' = conn \/ conn' = [conn EXCEPT ![e] = None]
    BY <1>17 DEF LinkFails, WatcherFails, ConnectFails
  <2>2. clean' = FALSE /\ UNCHANGED <<zoo, armed, events, snap, path, to, freed, using>>
    BY <1>17 DEF LinkFails, WatcherFails, ConnectFails
  <2>3. conn' \in [Ends -> 0..Len(to)]
    <3>1. conn \in [Ends -> 0..Len(to)] /\ None \in 0..Len(to)
      BY <1>0
    <3>2. QED
      BY ONLY <2>1, <3>1
  <2>4. main' \in {main, "command"} /\ watcher' \in {watcher, "idle"}
    BY <1>17 DEF LinkFails, WatcherFails
  <2>5. QED
    BY <2>2, <2>3, <2>4 DEF zoo
<1>18. QED
  BY <1>1, <1>2, <1>3, <1>4, <1>5, <1>6, <1>7, <1>8, <1>9, <1>11, <1>12, <1>13, <1>14,
     <1>15, <1>16, <1>17 DEF Next, Main, Watcher, Quit, Ends

\* Every variable of the client's view keeps its type: my_watcher_fn and
\* link_to_head_and_tail follow paths of servers, and structs that were made.
THEOREM TypeCorrect == Spec => []TypeOK
<1>1. TInv => TypeOK
  BY DEF TInv
<1>2. QED
  BY InitTypes, StepTypes, <1>1, PTL DEF Spec

-----------------------------------------------------------------------------
(* The head only moves on *)

\* Znodes come with greater numbers and only go, and the watcher reads after
\* main: no child that is there or was read last is before the path of the head.
Onward ==
  /\ path["head"] <= born /\ \A x \in kids : path["head"] <= x
  /\ watcher # "idle" =>
       /\ \A x \in snap["watcher"] : path["head"] <= x
       /\ End("head", snap["watcher"]) <= born
       /\ \A x \in kids : End("head", snap["watcher"]) <= x
  /\ main = "paths" =>
       /\ End("head", snap["main"]) <= born
       /\ \A x \in kids : End("head", snap["main"]) <= x
       /\ watcher # "idle" => \A x \in snap["watcher"] : End("head", snap["main"]) <= x

\* Where neither thread reads or moves the head.
LEMMA OnwardKept ==
  ASSUME TInv, TInv', Onward, path'["head"] = path["head"], snap' = snap,
         main' = "paths" => main = "paths", watcher' # "idle" => watcher # "idle",
         born' >= born, \A x \in kids' : x \in kids \/ x > born
  PROVE  Onward'
<1>1. \A x \in kids' : x \in Nat
  BY DEF TInv, TypeOK
<1>2. /\ born \in Nat /\ born' \in Nat /\ path["head"] \in Nat
      /\ \A t \in {"main", "watcher"} : snap[t] # {} => End("head", snap[t]) \in Nat
  <2>1. /\ born \in Nat /\ born' \in Nat /\ path["head"] \in Nat
    BY ViewAssumption DEF TInv, TypeOK, Ends
  <2>2. \A t \in {"main", "watcher"} : snap[t] # {} => End("head", snap[t]) \in Nat
    <3>1. ASSUME NEW t \in {"main", "watcher"}, snap[t] # {} PROVE End("head", snap[t]) \in Nat
      <4>1. snap[t] \in SUBSET (1..N)
        BY DEF TInv, TypeOK
      <4>2. End("head", snap[t]) \in 1..N
        BY <3>1, <4>1, EndIs
      <4>3. QED
        BY <4>2
    <3>2. QED
      BY <3>1
  <2>3. QED
    BY <2>1, <2>2
<1>3. \A x \in kids' : \A b \in Nat : b <= born /\ (\A y \in kids : b <= y) => b <= x
  BY <1>1, <1>2
<1>4. path["head"] <= born' /\ \A x \in kids' : path["head"] <= x
  BY <1>2, <1>3 DEF Onward
<1>5. ASSUME watcher' # "idle"
      PROVE  /\ \A x \in snap["watcher"] : path["head"] <= x
             /\ End("head", snap["watcher"]) <= born'
             /\ \A x \in kids' : End("head", snap["watcher"]) <= x
  <2>1. watcher # "idle" /\ snap["watcher"] # {}
    BY <1>5 DEF TInv, Watched
  <2>2. QED
    BY <1>2, <1>3, <2>1 DEF Onward
<1>6. ASSUME main' = "paths"
      PROVE  /\ End("head", snap["main"]) <= born'
             /\ \A x \in kids' : End("head", snap["main"]) <= x
             /\ watcher' # "idle" => \A x \in snap["watcher"] : End("head", snap["main"]) <= x
  <2>1. main = "paths" /\ snap["main"] # {}
    BY <1>6 DEF TInv, Watched
  <2>2. QED
    BY <1>2, <1>3, <2>1 DEF Onward
<1>7. QED
  BY <1>4, <1>5, <1>6 DEF Onward

LEMMA InitOnward == Init => Onward
  BY ViewAssumption DEF Init, Onward, Ends, None

LEMMA StepOnward == TInv /\ TInv' /\ Onward /\ [Next]_vars => Onward'
<1> SUFFICES ASSUME TInv, TInv', Onward, [Next]_vars PROVE Onward'
  OBVIOUS
<1>0. born \in Nat /\ "head" \in Ends
  BY ViewAssumption DEF TInv, TypeOK, Ends
<1>1. CASE Join
  <2>1. born' = born + 1 /\ kids' = kids \cup {born + 1}
        /\ UNCHANGED <<main, watcher, snap, path>>
    BY <1>1 DEF Join, KidsBecome, view
  <2>2. QED
    BY <1>0, <2>1, OnwardKept
<1>2. ASSUME NEW s \in 1..N, Die(s) \/ Expire(s) PROVE Onward'
  <2>1. born' = born /\ kids' \subseteq kids /\ UNCHANGED <<main, watcher, snap, path>>
    BY <1>2 DEF Die, Expire, KidsBecome, view
  <2>2. QED
    BY <1>0, <2>1, OnwardKept
<1>3. CASE LinkRead
  <2>1. /\ main = "start" /\ watcher = "idle" /\ UNCHANGED <<born, kids, path, watcher>>
        /\ snap'["main"] = kids /\ (main' = "paths" => kids # {})
    BY <1>3 DEF LinkRead, TInv, TypeOK, Watched, zoo, view
  <2>2. kids # {} => End("head", kids) <= born /\ \A x \in kids : End("head", kids) <= x
    <3>1. kids \in SUBSET (1..N) /\ \A x \in kids : x <= born
      BY ViewAssumption DEF TInv, TypeOK
    <3>2. QED
      BY <3>1, EndIs
  <2>3. QED
    BY <2>1, <2>2 DEF Onward
<1>4. CASE LinkPaths
  <2>1. /\ main = "paths" /\ main' = "head" /\ UNCHANGED <<born, kids, watcher, snap>>
        /\ path'["head"] = End("head", snap["main"])
    BY <1>0, <1>4 DEF LinkPaths, zoo
  <2>2. QED
    BY <2>1 DEF Onward
<1>5. ASSUME NEW e \in Ends, NEW f \in {"tail", "command"}, Link(e, f) PROVE Onward'
  <2>1. main' # "paths" /\ UNCHANGED <<born, kids, watcher, snap, path>>
    BY <1>5 DEF Link, zoo
  <2>2. QED
    BY <1>0, <2>1, OnwardKept
<1>6. CASE WatcherRead
  <2>1. /\ UNCHANGED <<born, kids, path, main>> /\ snap'["watcher"] = kids
        /\ snap'["main"] = snap["main"] /\ (watcher' # "idle" => kids # {})
    BY <1>6 DEF WatcherRead, TInv, TypeOK, zoo, view
  <2>2. kids # {} => End("head", kids) <= born /\ \A x \in kids : End("head", kids) <= x
    <3>1. kids \in SUBSET (1..N) /\ \A x \in kids : x <= born
      BY ViewAssumption DEF TInv, TypeOK
    <3>2. QED
      BY <3>1, EndIs
  <2>3. QED
    BY <2>1, <2>2 DEF Onward
<1>7. ASSUME WatcherMove("head", "gethead", "tail") PROVE Onward'
  <2>1. /\ watcher = "head" /\ UNCHANGED <<born, kids, snap>> /\ main' \in {main, "undefined"}
        /\ path'["head"] = End("head", snap["watcher"])
    BY <1>0, <1>7 DEF WatcherMove, TInv, TypeOK, zoo
  <2>2. \A x \in snap["watcher"] : End("head", snap["watcher"]) <= x
    BY EndIs, <2>1 DEF TInv, TypeOK, Watched
  <2>3. QED
    BY <2>1, <2>2 DEF Onward
<1>8. ASSUME WatcherMove("tail", "gettail", "idle") PROVE Onward'
  <2>1. /\ UNCHANGED <<born, kids, snap>> /\ main' \in {main, "undefined"} /\ watcher # "idle"
        /\ path'["head"] = path["head"]
    BY <1>8 DEF WatcherMove, TInv, TypeOK, zoo, Ends
  <2>2. QED
    BY <1>0, <2>1, OnwardKept
<1>9. ASSUME NEW e \in Ends, NEW c \in {"gethead", "gettail"}, NEW f \in {"tail", "idle"},
             WatcherConnect(e, c, f)
      PROVE  Onward'
  <2>1. UNCHANGED <<born, kids, main, snap, path>> /\ watcher # "idle"
    BY <1>9 DEF WatcherConnect, zoo
  <2>2. QED
    BY <1>0, <2>1, OnwardKept
<1>10. ASSUME Call \/ Quit \/ UNCHANGED vars \/ \E e \in Ends : Begin(e) PROVE Onward'
  <2>1. UNCHANGED <<born, kids, watcher, snap, path>> /\ (main' = "paths" => main = "paths")
    BY <1>10 DEF Call, Quit, Disconnect, Begin, Undefined, vars, zoo, view
  <2>2. QED
    BY <1>0, <2>1, OnwardKept
<1>11. ASSUME Failing PROVE Onward'
  <2>1. /\ UNCHANGED <<born, kids, snap, path>> /\ (main' = "paths" => main = "paths")
        /\ watcher' # "idle" => watcher # "idle"
    BY <1>11 DEF Failing, LinkReadFails, WatcherReadFails, LinkFails, WatcherFails, zoo, view
  <2>2. QED
    BY <1>0, <2>1, OnwardKept
<1>12. QED
  BY <1>1, <1>2, <1>3, <1>4, <1>5, <1>6, <1>7, <1>8, <1>9, <1>10, <1>11
     DEF Next, Main, Watcher, Ends, Failing

\* Once linked, the client never goes back to an older head (my_watcher_fn), so
\* its puts never go to a server that it had given up.
THEOREM HeadForwardAlways == Spec => HeadForward
<1> DEFINE Forward == main \notin {"start"} \cup Linking => path'["head"] >= path["head"]
<1>1. TInv /\ TInv' /\ Onward /\ [Next]_vars => [Forward]_vars
  <2> SUFFICES ASSUME TInv, Onward, Next, main \notin {"start"} \cup Linking
               PROVE  path'["head"] >= path["head"]
    OBVIOUS
  <2>1. path["head"] \in Nat
    BY ViewAssumption DEF TInv, TypeOK, Ends
  <2>2. CASE WatcherMove("head", "gethead", "tail")
    <3>1. /\ watcher = "head" /\ path'["head"] = End("head", snap["watcher"])
      BY <2>2 DEF WatcherMove, TInv, TypeOK, Ends
    <3>2. snap["watcher"] \in SUBSET (1..N) /\ snap["watcher"] # {}
      BY <3>1 DEF TInv, TypeOK, Watched
    <3>3. End("head", snap["watcher"]) \in snap["watcher"] /\ path["head"] <= End("head", snap["watcher"])
      BY <3>1, <3>2, EndIs DEF Onward
    <3>4. QED
      BY <2>1, <3>1, <3>2, <3>3
  <2>3. CASE ~WatcherMove("head", "gethead", "tail")
    <3>1. path'["head"] = path["head"]
      <4>1. CASE Join \/ \E s \in 1..N : Die(s) \/ Expire(s)
        BY <4>1 DEF Join, Die, Expire, view
      <4>2. CASE Link("head", "tail") \/ Link("tail", "command") \/ LinkRead \/ LinkPaths
        BY <4>2 DEF Link, LinkRead, LinkPaths, Linking
      <4>3. CASE WatcherMove("tail", "gettail", "idle")
        BY <4>3 DEF WatcherMove, TInv, TypeOK, Ends
      <4>4. CASE WatcherRead \/ WatcherConnect("head", "gethead", "tail")
                 \/ WatcherConnect("tail", "gettail", "idle")
        BY <4>4 DEF WatcherRead, WatcherConnect, view
      <4>5. CASE Call \/ Quit \/ \E e \in Ends : Begin(e)
        BY <4>5 DEF Call, Quit, Disconnect, Begin, Undefined, view
      <4>6. CASE Failing
        BY <4>6 DEF Failing, LinkReadFails, WatcherReadFails, LinkFails, WatcherFails, view
      <4>7. QED
        BY <2>3, <4>1, <4>2, <4>3, <4>4, <4>5, <4>6 DEF Next, Main, Watcher, Ends, Failing
    <3>2. QED
      BY <2>1, <3>1
  <2>4. QED
    BY <2>2, <2>3
<1>2. QED
  BY InitTypes, StepTypes, InitOnward, StepOnward, <1>1, PTL DEF Spec, HeadForward

-----------------------------------------------------------------------------
(* The view of a client that linked undisturbed *)

Good(e) == conn[e] # None /\ conn[e] \notin freed /\ to[conn[e]] = path[e]

\* A connection fails only because its server has died or lost its znode, and
\* neither comes back.
Connected(e) == path[e] \in kids \cap procs => Good(e)

Getting(e) == IF e = "head" THEN "gethead" ELSE "gettail"

\* What the threads know of /chain: no change goes unseen, and nobody has a
\* server that did not join yet. The two ends never share a struct.
Informed ==
  /\ clean /\ main # "start" => armed \/ events = 1
  /\ \A t \in {"main", "watcher"} : snap[t] \subseteq 1..born
  /\ \A e \in Ends : path[e] <= born
  /\ conn["head"] = conn["tail"] => conn["head"] = None
  /\ watcher # "idle" /\ armed => snap["watcher"] = kids

Moving == {"head", "tail", "command", "call"}

Undisturbed == clean =>
  /\ main \in Linking => watcher = "idle"
  /\ main = "paths" /\ armed => snap["main"] = kids
  /\ main = "tail" => Connected("head")
  /\ \A e \in Ends : watcher = Getting(e) => path[e] = End(e, snap["watcher"])
  /\ main \in {"command", "call"} => \A e \in Ends : watcher # Getting(e) => Connected(e)
  /\ main \in Moving /\ armed /\ kids # {} /\ kids \subseteq procs =>
       /\ watcher = "idle" => \A e \in Ends : path[e] = End(e, kids)
       /\ watcher \in {"tail", "gettail"} => path["head"] = End("head", kids)

View == TInv /\ Informed /\ Undisturbed

LEMMA Typing ==
  ASSUME TInv
  PROVE  /\ born \in Nat /\ Len(to) \in Nat /\ to \in Seq(1..N)
         /\ kids \in SUBSET (1..N) /\ \A x \in kids \cup procs : x \in Nat /\ x <= born
         /\ \A t \in {"main", "watcher"} : snap[t] \in SUBSET (1..N)
         /\ \A e \in Ends : path[e] \in Nat /\ conn[e] \in 0..Len(to)
BY ViewAssumption DEF TInv, TypeOK

\* What a zoo_get and an rtable_connect leave.
LEMMA ConnectShape ==
  ASSUME TInv, NEW e \in Ends, IF HasZnode(e) THEN Connect(e) ELSE UNCHANGED <<conn, to>>
  PROVE  /\ \A d \in Ends \ {e} : conn'[d] = conn[d]
         /\ Len(to) <= Len(to') /\ \A i \in 1..Len(to) : to'[i] = to[i]
         /\ IF path[e] \in kids \cap procs
            THEN conn'[e] = Len(to) + 1 /\ Len(to') = Len(to) + 1 /\ to'[conn'[e]] = path[e]
            ELSE conn'[e] \in {conn[e], None}
<1>1. CASE path[e] \in kids \cap procs
  <2>1. to' = Append(to, path[e]) /\ conn' = [conn EXCEPT ![e] = Len(to) + 1]
    BY <1>1 DEF HasZnode, Connect
  <2>2. path[e] \in 1..N /\ conn \in [Ends -> 0..Len(to)]
    BY <1>1, Typing DEF TInv, TypeOK
  <2>3. Len(to') = Len(to) + 1 /\ to'[Len(to) + 1] = path[e] /\ \A i \in 1..Len(to) : to'[i] = to[i]
    BY <2>1, <2>2, Typing
  <2>4. QED
    BY <1>1, <2>1, <2>2, <2>3, Typing
<1>2. CASE path[e] \notin kids \cap procs
  <2>1. to' = to /\ (conn' = conn \/ conn' = [conn EXCEPT ![e] = None])
    BY <1>2 DEF HasZnode, Connect
  <2>2. QED
    BY <1>2, <2>1, Typing DEF TInv, TypeOK
<1>3. QED
  BY <1>1, <1>2

\* A connection stays what it was while its end is not moved.
LEMMA ConnectedKept ==
  ASSUME TInv, Informed, NEW e \in Ends, Connected(e),
         path'[e] = path[e], conn'[e] = conn[e],
         \A i \in 1..Len(to) : to'[i] = to[i],
         conn[e] \in freed' => conn[e] \in freed \cup {None},
         \A x \in kids' \cap procs' : x \in kids \cap procs \/ x > born
  PROVE  Connected(e)'
<1> SUFFICES ASSUME path[e] \in kids' \cap procs' PROVE Good(e)'
  BY DEF Connected
<1>1. path[e] \in kids \cap procs
  BY Typing DEF Informed
<1>2. Good(e)
  BY <1>1 DEF Connected
<1>3. conn[e] \in 1..Len(to)
  BY <1>2, Typing DEF Good, None
<1>4. QED
  BY <1>2, <1>3 DEF Good

LEMMA InitView == Init => Informed /\ Undisturbed
  BY ViewAssumption DEF Init, Informed, Undisturbed, Ends, None, Linking, Moving, Getting

LEMMA StepInformed == TInv /\ TInv' /\ Informed /\ [Next]_vars => Informed'
<1> SUFFICES ASSUME TInv, TInv', Informed, [Next]_vars PROVE Informed'
  OBVIOUS
<1>0. "head" \in Ends /\ "tail" \in Ends /\ \A e \in Ends : e \in {"head", "tail"}
  BY DEF Ends
<1>1. CASE Join \/ \E s \in 1..N : Expire(s)
  <2>1. armed' = FALSE /\ events' = events + (IF armed THEN 1 ELSE 0) /\ born <= born'
        /\ UNCHANGED <<main, snap, path, conn, clean>>
    BY <1>1, Typing DEF Join, Expire, KidsBecome, view
  <2>2. clean /\ main # "start" => events' = 1
    BY <2>1 DEF Informed, TInv, TypeOK, Watched
  <2>3. \A t \in {"main", "watcher"} : snap'[t] \subseteq 1..born'
    BY <2>1, Typing, ViewAssumption DEF Informed, TInv, TypeOK
  <2>4. \A e \in Ends : path'[e] <= born'
    BY <2>1, Typing, ViewAssumption DEF Informed, TInv, TypeOK
  <2>5. QED
    BY <2>1, <2>2, <2>3, <2>4 DEF Informed
<1>2. ASSUME NEW s \in 1..N, Die(s) PROVE Informed'
  BY <1>2 DEF Die, view, Informed
<1>3. CASE LinkRead
  <2>1. armed' = TRUE /\ watcher' = "idle" /\ UNCHANGED <<born, path, conn>>
        /\ snap' = [snap EXCEPT !["main"] = kids]
    BY <1>3 DEF LinkRead, zoo, view, TInv, Watched
  <2>2. \A t \in {"main", "watcher"} : snap'[t] \subseteq 1..born'
    BY <2>1 DEF TInv, TypeOK, Informed
  <2>3. QED
    BY <2>1, <2>2 DEF Informed
<1>4. CASE LinkPaths
  <2>1. main = "paths" /\ path' = [e \in Ends |-> End(e, snap["main"])]
        /\ UNCHANGED <<zoo, armed, events, watcher, snap, conn, clean>>
    BY <1>4 DEF LinkPaths
  <2>2. snap["main"] # {} /\ snap["main"] \in SUBSET (1..N) /\ snap["main"] \subseteq 1..born
    BY <2>1, Typing DEF TInv, Watched, Informed
  <2>3. \A e \in Ends : path'[e] <= born
    BY <1>0, <2>1, <2>2, EndIs, Typing
  <2>4. QED
    BY <2>1, <2>3 DEF Informed, zoo
<1>5. ASSUME NEW e \in Ends, IF HasZnode(e) THEN Connect(e) ELSE UNCHANGED <<conn, to>>,
             UNCHANGED <<zoo, armed, events, snap, path>>, clean' => clean,
             watcher' # "idle" => watcher # "idle", main # "start"
      PROVE  Informed'
  <2>1. conn'["head"] = conn'["tail"] => conn'["head"] = None
    BY <1>0, <1>5, ConnectShape, Typing DEF Informed, None
  <2>2. QED
    BY <1>5, <2>1 DEF Informed, zoo
<1>6. ASSUME NEW e \in Ends, NEW f \in {"tail", "command"}, Link(e, f) PROVE Informed'
  <2>1. main # "start" /\ (clean' => clean)
    BY <1>0, <1>6 DEF Link
  <2>2. QED
    BY <1>5, <1>6, <2>1 DEF Link
<1>7. CASE WatcherRead
  <2>1. armed' = TRUE /\ UNCHANGED <<born, kids, main, path, conn>>
        /\ snap' = [snap EXCEPT !["watcher"] = kids]
    BY <1>7 DEF WatcherRead, zoo, view
  <2>2. \A t \in {"main", "watcher"} : snap'[t] \subseteq 1..born'
    BY <2>1 DEF TInv, TypeOK, Informed
  <2>3. snap'["watcher"] = kids'
    BY <2>1 DEF TInv, TypeOK
  <2>4. QED
    BY <2>1, <2>2, <2>3 DEF Informed
<1>8. ASSUME NEW e \in Ends, NEW c \in {"gethead", "gettail"}, NEW f \in {"tail", "idle"},
             WatcherMove(e, c, f)
      PROVE  Informed'
  <2>1. watcher = e /\ watcher # "idle" /\ main # "start"
    BY <1>0, <1>8 DEF WatcherMove, TInv, Watched
  <2>2. UNCHANGED <<zoo, armed, events, snap, conn>> /\ (clean' => clean)
        /\ path' \in {path, [path EXCEPT ![e] = End(e, snap["watcher"])]}
    BY <1>8 DEF WatcherMove, Overlaps
  <2>3. snap["watcher"] # {} /\ snap["watcher"] \in SUBSET (1..N) /\ snap["watcher"] \subseteq 1..born
    BY <2>1, Typing DEF TInv, Watched, Informed
  <2>4. End(e, snap["watcher"]) <= born
    BY <1>0, <2>3, EndIs, Typing
  <2>5. \A d \in Ends : path'[d] <= born
    BY <2>2, <2>4 DEF Informed, TInv, TypeOK
  <2>6. QED
    BY <2>1, <2>2, <2>5 DEF Informed, zoo
<1>9. ASSUME NEW e \in Ends, NEW c \in {"gethead", "gettail"}, NEW f \in {"tail", "idle"},
             WatcherConnect(e, c, f)
      PROVE  Informed'
  <2>1. watcher # "idle" /\ main # "start" /\ (clean' => clean)
    BY <1>9 DEF WatcherConnect, Overlaps, TInv, Watched
  <2>2. QED
    BY <1>5, <1>9, <2>1 DEF WatcherConnect
<1>10. ASSUME Call \/ Quit \/ UNCHANGED vars \/ \E e \in Ends : Begin(e) PROVE Informed'
  <2>1. UNCHANGED <<zoo, armed, events, watcher, snap, path, conn, clean>>
        /\ (main = "start" => main' = "start")
    BY <1>10 DEF Call, Quit, Disconnect, Begin, Undefined, vars, view, zoo
  <2>2. QED
    BY <2>1 DEF Informed, zoo
<1>11. ASSUME Failing PROVE Informed'
  <2>1. /\ ~clean' /\ UNCHANGED <<born, kids, armed, snap, path>>
        /\ watcher' # "idle" => watcher # "idle"
        /\ conn' = conn \/ \E e \in Ends : conn' = [conn EXCEPT ![e] = None]
    BY <1>11 DEF Failing, LinkReadFails, WatcherReadFails, LinkFails, WatcherFails,
       ConnectFails, zoo, view
  <2>2. conn'["head"] = conn'["tail"] => conn'["head"] = None
    BY <1>0, <2>1 DEF Informed, TInv, TypeOK
  <2>3. QED
    BY <2>1, <2>2 DEF Informed
<1>12. QED
  BY <1>1, <1>2, <1>3, <1>4, <1>6, <1>7, <1>8, <1>9, <1>10, <1>11
     DEF Next, Main, Watcher, Ends, Failing

\* Where no end is moved or connected.
LEMMA UndisturbedKept ==
  ASSUME TInv, Informed, Undisturbed, clean' => clean, armed' => armed /\ kids' = kids,
         watcher' = watcher, UNCHANGED <<snap, path, conn, to>>,
         main' # main => main' \notin Linking,
         main' \in {"command", "call"} => main \in {"command", "call"},
         main' \notin {"quit", "closed"} => freed' = freed,
         \A x \in kids' \cap procs' : x \in kids \cap procs \/ x > born,
         \A x \in kids : x \in procs' => x \in procs \/ x > born
  PROVE  Undisturbed'
<1> SUFFICES ASSUME clean' PROVE Undisturbed'
  BY DEF Undisturbed
<1>1. clean
  OBVIOUS
<1>2. \A e \in Ends : Connected(e) /\ main' \notin {"quit", "closed"} => Connected(e)'
  BY ConnectedKept
<1>3. main' \in Linking => watcher' = "idle"
  BY <1>1 DEF Undisturbed
<1>4. main' = "paths" /\ armed' => snap'["main"] = kids'
  BY <1>1 DEF Undisturbed, Linking
<1>5. main' = "tail" => Connected("head")'
  BY <1>1, <1>2 DEF Undisturbed, Linking, Ends
<1>6. main' \in {"command", "call"} => \A e \in Ends : watcher' # Getting(e) => Connected(e)'
  BY <1>1, <1>2 DEF Undisturbed
<1>7. main' \in Moving /\ armed' /\ kids' # {} /\ kids' \subseteq procs' =>
       /\ watcher' = "idle" => \A e \in Ends : path'[e] = End(e, kids')
       /\ watcher' \in {"tail", "gettail"} => path'["head"] = End("head", kids')
  <2> SUFFICES ASSUME main' \in Moving, armed', kids' # {}, kids' \subseteq procs'
               PROVE  main \in Moving /\ armed /\ kids' = kids /\ kids \subseteq procs
    BY <1>1 DEF Undisturbed
  <2>1. main \in Moving
    BY DEF Moving, Linking
  <2>2. kids \subseteq procs
    BY Typing
  <2>3. QED
    BY <2>1, <2>2
<1>8. \A e \in Ends : watcher' = Getting(e) => path'[e] = End(e, snap'["watcher"])
  BY <1>1 DEF Undisturbed
<1>9. QED
  BY <1>3, <1>4, <1>5, <1>6, <1>7, <1>8 DEF Undisturbed

\* my_watcher_fn looks at an end, and moves it or leaves it.
LEMMA UndisturbedMove ==
  ASSUME TInv, Informed, Undisturbed, NEW e \in Ends, NEW f,
         (e = "head" /\ f = "tail") \/ (e = "tail" /\ f = "idle"),
         WatcherMove(e, Getting(e), f)
  PROVE  Undisturbed'
<1> SUFFICES ASSUME clean' PROVE Undisturbed'
  BY DEF Undisturbed
<1>0. e \in {"head", "tail"} /\ "head" \in Ends /\ \A d \in Ends : d \in {"head", "tail"}
  BY DEF Ends
<1>1. /\ clean /\ main \notin Linking /\ watcher = e
      /\ UNCHANGED <<zoo, armed, events, snap, conn, to>>
  BY DEF WatcherMove, Overlaps
<1>2. \A d \in Ends : watcher # Getting(d)
  BY <1>0, <1>1 DEF Getting
<1>3. main \in {"command", "call"} => \A d \in Ends : Connected(d)
  BY <1>1, <1>2 DEF Undisturbed
<1> DEFINE new == End(e, snap["watcher"])
<1>4. armed => snap["watcher"] = kids
  BY <1>0, <1>1 DEF Informed
<1>5. main \in {"command", "call"} /\ armed /\ kids # {} /\ kids \subseteq procs /\ e = "tail"
        => path["head"] = End("head", kids)
  BY <1>1 DEF Undisturbed, Moving
<1>6. CASE path[e] = new
  <2>1. watcher' = f /\ UNCHANGED <<main, path, freed>>
    BY <1>6 DEF WatcherMove
  <2>2. \A d \in Ends : f # Getting(d)
    BY <1>0 DEF Getting
  <2>3. main \in {"command", "call"} => \A d \in Ends : Connected(d)'
    BY <1>1, <1>3, <2>1 DEF Connected, Good, zoo
  <2>4. main \in Moving => main \in {"command", "call"}
    BY <1>1 DEF Moving, Linking
  <2>5. main \in Moving /\ armed /\ kids # {} /\ kids \subseteq procs =>
          IF f = "idle" THEN \A d \in Ends : path[d] = End(d, kids)
                        ELSE path["head"] = End("head", kids)
    BY <1>0, <1>4, <1>5, <1>6, <2>4
  <2>6. QED
    BY <1>0, <1>1, <2>1, <2>2, <2>3, <2>5 DEF Undisturbed, zoo, Linking
<1>7. CASE path[e] # new /\ conn[e] \in freed
  <2>1. main' = "undefined" /\ watcher' = e
    BY <1>1, <1>7 DEF WatcherMove
  <2>2. \A d \in Ends : watcher' # Getting(d)
    BY <1>0, <2>1 DEF Getting
  <2>3. QED
    BY <2>1, <2>2 DEF Undisturbed, Linking, Moving
<1>8. CASE path[e] # new /\ conn[e] \notin freed
  <2>1. /\ watcher' = Getting(e) /\ main' = main /\ path' = [path EXCEPT ![e] = new]
        /\ freed' = freed \cup ({conn[e]} \ {None})
    BY <1>8 DEF WatcherMove
  <2>2. path'[e] = new /\ \A d \in Ends \ {e} : path'[d] = path[d]
    BY <2>1 DEF TInv, TypeOK
  <2>3. \A d \in Ends \ {e} : conn[d] \in freed' => conn[d] \in freed \cup {None}
    BY <1>0, <2>1 DEF Informed
  <2>4. main \in {"command", "call"} => \A d \in Ends \ {e} : Connected(d)'
    BY <1>1, <1>3, <2>2, <2>3, ConnectedKept DEF zoo
  <2>5. \A d \in Ends : watcher' = Getting(d) <=> d = e
    BY <1>0, <2>1 DEF Getting
  <2>6. main \in Moving => main \in {"command", "call"}
    BY <1>1 DEF Moving, Linking
  <2>7. watcher' # "idle" /\ (watcher' \in {"tail", "gettail"} => e = "tail")
    BY <1>0, <2>1 DEF Getting
  <2>8. main \in Moving /\ armed /\ kids # {} /\ kids \subseteq procs /\ e = "tail"
          => path'["head"] = End("head", kids)
    BY <1>0, <1>5, <2>2, <2>6
  <2>9. QED
    BY <1>1, <2>1, <2>2, <2>4, <2>5, <2>7, <2>8 DEF Undisturbed, zoo, Linking
<1>9. QED
  BY <1>6, <1>7, <1>8

\* my_watcher_fn connects to the server of a new path.
LEMMA UndisturbedConnect ==
  ASSUME TInv, Informed, Undisturbed, NEW e \in Ends, NEW f,
         (e = "head" /\ f = "tail") \/ (e = "tail" /\ f = "idle"),
         WatcherConnect(e, Getting(e), f)
  PROVE  Undisturbed'
<1> SUFFICES ASSUME clean' PROVE Undisturbed'
  BY DEF Undisturbed
<1>0. e \in {"head", "tail"} /\ "head" \in Ends /\ \A d \in Ends : d \in {"head", "tail"}
  BY DEF Ends
<1>1. /\ clean /\ main \notin Linking /\ watcher = Getting(e) /\ watcher # "idle"
      /\ UNCHANGED <<zoo, armed, events, main, snap, path, freed>>
      /\ watcher' = IF path[e] \in kids \cap procs THEN f ELSE "idle"
  BY DEF WatcherConnect, Overlaps, HasZnode, Getting
<1>2. /\ \A d \in Ends \ {e} : conn'[d] = conn[d]
      /\ Len(to) <= Len(to') /\ \A i \in 1..Len(to) : to'[i] = to[i]
      /\ IF path[e] \in kids \cap procs
         THEN conn'[e] = Len(to) + 1 /\ Len(to') = Len(to) + 1 /\ to'[conn'[e]] = path[e]
         ELSE conn'[e] \in {conn[e], None}
  BY ConnectShape DEF WatcherConnect
<1>3. Connected(e)'
  <2>1. Len(to) + 1 \notin freed /\ Len(to) + 1 # None
    BY Typing DEF TInv, TypeOK, None
  <2>2. QED
    BY <1>1, <1>2, <2>1 DEF Connected, Good, zoo
<1>4. \A d \in Ends : watcher' # Getting(d)
  BY <1>0, <1>1 DEF Getting
<1>5. main \in {"command", "call"} => \A d \in Ends \ {e} : Connected(d)'
  <2>1. \A d \in Ends \ {e} : watcher # Getting(d)
    BY <1>0, <1>1 DEF Getting
  <2>2. main \in {"command", "call"} => \A d \in Ends \ {e} : Connected(d)
    BY <1>1, <2>1 DEF Undisturbed
  <2>3. QED
    BY <1>1, <1>2, <2>2, ConnectedKept DEF zoo
<1>6. main \in Moving /\ armed /\ kids # {} /\ kids \subseteq procs =>
        /\ watcher' = "idle" => \A d \in Ends : path[d] = End(d, kids)
        /\ watcher' \in {"tail", "gettail"} => path["head"] = End("head", kids)
  <2> SUFFICES ASSUME main \in Moving, armed, kids # {}, kids \subseteq procs
               PROVE  /\ watcher' = "idle" => \A d \in Ends : path[d] = End(d, kids)
                      /\ watcher' \in {"tail", "gettail"} => path["head"] = End("head", kids)
    OBVIOUS
  <2>1. path[e] = End(e, kids)
    BY <1>1 DEF Undisturbed, Informed
  <2>2. path[e] \in kids
    BY <1>0, <2>1, EndIs, Typing
  <2>3. watcher' = f
    BY <1>1, <2>2
  <2>4. e = "tail" => path["head"] = End("head", kids)
    BY <1>1 DEF Undisturbed, Getting
  <2>5. QED
    BY <1>0, <2>1, <2>3, <2>4
<1>7. QED
  BY <1>1, <1>3, <1>4, <1>5, <1>6 DEF Undisturbed, zoo, Linking

LEMMA StepUndisturbed == TInv /\ Informed /\ Undisturbed /\ [Next]_vars => Undisturbed'
<1> SUFFICES ASSUME TInv, Informed, Undisturbed, [Next]_vars PROVE Undisturbed'
  OBVIOUS
<1>0. "head" \in Ends /\ "tail" \in Ends /\ \A e \in Ends : e \in {"head", "tail"}
  BY DEF Ends
<1>1. CASE Join
  <2>1. /\ armed' = FALSE /\ born' = born + 1 /\ kids' = kids \cup {born + 1}
        /\ procs' = procs \cup {born + 1}
        /\ UNCHANGED <<main, watcher, snap, path, conn, to, freed, clean>>
    BY <1>1 DEF Join, KidsBecome, view
  <2>2. \A x \in kids' \cap procs' : x \in kids \cap procs \/ x > born
    BY <2>1, Typing
  <2>3. \A x \in kids : x \in procs' => x \in procs \/ x > born
    BY <2>1, Typing
  <2>4. QED
    BY <2>1, <2>2, <2>3, UndisturbedKept
<1>2. ASSUME NEW s \in 1..N, Expire(s) PROVE Undisturbed'
  <2>1. /\ armed' = FALSE /\ kids' \subseteq kids
        /\ UNCHANGED <<procs, main, watcher, snap, path, conn, to, freed, clean>>
    BY <1>2 DEF Expire, KidsBecome, view
  <2>2. QED
    BY <2>1, UndisturbedKept
<1>3. ASSUME NEW s \in 1..N, Die(s) PROVE Undisturbed'
  <2>1. /\ procs' \subseteq procs
        /\ UNCHANGED <<kids, armed, main, watcher, snap, path, conn, to, freed, clean>>
    BY <1>3 DEF Die, view
  <2>2. QED
    BY <2>1, UndisturbedKept
<1>4. CASE LinkRead
  <2>1. /\ watcher' = "idle" /\ snap'["main"] = kids /\ UNCHANGED <<kids, procs, path>>
        /\ main' = IF kids = {} THEN "command" ELSE "paths"
    BY <1>4 DEF LinkRead, zoo, view, TInv, TypeOK, Watched
  <2>2. \A e \in Ends : watcher' # Getting(e)
    BY <1>0, <2>1 DEF Getting
  <2>3. main' = "command" => kids' = {} /\ \A e \in Ends : Connected(e)'
    BY <2>1 DEF Connected
  <2>4. main' # "tail" /\ (main' \in Moving => main' = "command")
    BY <2>1 DEF Moving
  <2>5. QED
    BY <2>1, <2>2, <2>3, <2>4 DEF Undisturbed
<1>5. CASE LinkPaths
  <2> SUFFICES ASSUME clean' PROVE Undisturbed'
    BY DEF Undisturbed
  <2>1. /\ main = "paths" /\ main' = "head" /\ path' = [e \in Ends |-> End(e, snap["main"])]
        /\ clean /\ UNCHANGED <<zoo, armed, watcher>>
    BY <1>5 DEF LinkPaths
  <2>2. watcher = "idle" /\ (armed => snap["main"] = kids)
    BY <2>1 DEF Undisturbed, Linking
  <2>3. \A e \in Ends : watcher' # Getting(e)
    BY <1>0, <2>1, <2>2 DEF Getting
  <2>4. armed' => \A e \in Ends : path'[e] = End(e, kids')
    BY <2>1, <2>2 DEF zoo
  <2>5. QED
    BY <2>1, <2>2, <2>3, <2>4 DEF Undisturbed
<1>6. ASSUME NEW e \in Ends, NEW f, (e = "head" /\ f = "tail") \/ (e = "tail" /\ f = "command"),
             Link(e, f)
      PROVE  Undisturbed'
  <2> SUFFICES ASSUME clean' PROVE Undisturbed'
    BY DEF Undisturbed
  <2>1. /\ main = e /\ main' = f /\ path[e] \in kids \cap procs /\ clean
        /\ UNCHANGED <<zoo, armed, watcher, snap, path, freed>>
    BY <1>6 DEF Link, HasZnode
  <2>2. watcher = "idle"
    BY <1>0, <2>1 DEF Undisturbed, Linking
  <2>3. /\ \A d \in Ends \ {e} : conn'[d] = conn[d]
        /\ \A i \in 1..Len(to) : to'[i] = to[i]
        /\ conn'[e] = Len(to) + 1 /\ to'[conn'[e]] = path[e]
    BY <1>6, <2>1, ConnectShape DEF Link
  <2>4. Connected(e)'
    <3>1. Len(to) + 1 \notin freed /\ Len(to) + 1 # None
      BY Typing DEF TInv, TypeOK, None
    <3>2. QED
      BY <2>1, <2>3, <3>1 DEF Connected, Good, zoo
  <2>5. e = "tail" => Connected("head")'
    <3> SUFFICES ASSUME e = "tail" PROVE Connected("head")'
      OBVIOUS
    <3>1. Connected("head")
      BY <2>1 DEF Undisturbed
    <3>2. conn'["head"] = conn["head"]
      BY <1>0, <2>3
    <3>3. QED
      BY <1>0, <2>1, <2>3, <3>1, <3>2, ConnectedKept DEF zoo
  <2>6. \A d \in Ends : watcher' # Getting(d)
    BY <1>0, <2>1, <2>2 DEF Getting
  <2>7. armed' /\ kids' # {} /\ kids' \subseteq procs' => \A d \in Ends : path'[d] = End(d, kids')
    BY <1>0, <2>1, <2>2 DEF Undisturbed, Moving, zoo
  <2>8. QED
    BY <1>0, <1>6, <2>1, <2>2, <2>4, <2>5, <2>6, <2>7 DEF Undisturbed, Linking
<1>7. CASE WatcherRead
  <2> SUFFICES ASSUME clean' PROVE Undisturbed'
    BY DEF Undisturbed
  <2>1. /\ clean /\ main \notin Linking /\ watcher = "idle" /\ main' = main
        /\ watcher' = IF kids = {} THEN "idle" ELSE "head"
        /\ UNCHANGED <<zoo, path, conn, to, freed>>
    BY <1>7 DEF WatcherRead, Overlaps, view
  <2>2. \A e \in Ends : watcher # Getting(e) /\ watcher' # Getting(e)
    BY <1>0, <2>1 DEF Getting
  <2>3. main \in {"command", "call"} => \A e \in Ends : Connected(e)'
    BY <2>1, <2>2 DEF Undisturbed, Connected, Good, zoo
  <2>4. QED
    BY <2>1, <2>2, <2>3 DEF Undisturbed, Linking, zoo
<1>8. CASE WatcherMove("head", "gethead", "tail") \/ WatcherMove("tail", "gettail", "idle")
  <2>1. Getting("head") = "gethead" /\ Getting("tail") = "gettail"
    BY DEF Getting
  <2>2. CASE WatcherMove("head", Getting("head"), "tail")
    BY <1>0, <2>2, UndisturbedMove
  <2>3. CASE WatcherMove("tail", Getting("tail"), "idle")
    BY <1>0, <2>3, UndisturbedMove
  <2>4. QED
    BY <1>8, <2>1, <2>2, <2>3
<1>9. CASE WatcherConnect("head", "gethead", "tail") \/ WatcherConnect("tail", "gettail", "idle")
  <2>1. Getting("head") = "gethead" /\ Getting("tail") = "gettail"
    BY DEF Getting
  <2>2. CASE WatcherConnect("head", Getting("head"), "tail")
    BY <1>0, <2>2, UndisturbedConnect
  <2>3. CASE WatcherConnect("tail", Getting("tail"), "idle")
    BY <1>0, <2>3, UndisturbedConnect
  <2>4. QED
    BY <1>9, <2>1, <2>2, <2>3
<1>10. ASSUME Call \/ Quit \/ UNCHANGED vars \/ \E e \in Ends : Begin(e) PROVE Undisturbed'
  <2>1. /\ UNCHANGED <<kids, procs, armed, watcher, snap, path, conn, to, clean>>
        /\ main' # main => main' \notin Linking
        /\ main' \in {"command", "call"} => main \in {"command", "call"}
        /\ main' \notin {"quit", "closed"} => freed' = freed
    BY <1>10 DEF Call, Quit, Disconnect, Begin, Undefined, vars, view, zoo, Linking
  <2>2. QED
    BY <2>1, UndisturbedKept
<1>11. ASSUME Failing PROVE Undisturbed'
  BY <1>11 DEF Failing, LinkReadFails, WatcherReadFails, LinkFails, WatcherFails,
     ConnectFails, Undisturbed
<1>12. CASE Main
  <2>1. Link("head", "tail") \/ Link("tail", "command") => Undisturbed'
    BY <1>0, <1>6
  <2>2. QED
    BY <1>0, <1>4, <1>5, <1>11, <1>12, <2>1 DEF Main, Failing
<1>13. CASE Watcher
  BY <1>0, <1>7, <1>8, <1>9, <1>11, <1>13 DEF Watcher, Failing
<1>14. QED
  BY <1>1, <1>2, <1>3, <1>10, <1>12, <1>13 DEF Next

\* When every change of /chain has been handled, a client whose linking no watcher
\* overtook, and whose calls failed only for want of the znode or the process, is
\* connected to the first and the last server, on structs that are not freed
\* (link_to_head_and_tail and my_watcher_fn).
THEOREM SettledFollowsAlways == Spec => []SettledFollows
<1>1. View => SettledFollows
  <2> SUFFICES ASSUME View, clean, main \in {"command", "call"}, watcher = "idle", events = 0,
                      kids = procs, kids # {}, NEW e \in Ends
               PROVE  Follows(e) /\ conn[e] \notin freed
    BY DEF SettledFollows
  <2>1. armed
    BY DEF View, Informed
  <2>2. path[e] = End(e, kids)
    BY <2>1 DEF View, Undisturbed, Moving
  <2>3. path[e] \in kids
    BY <2>2, EndIs, Typing DEF View, Ends
  <2>4. watcher # Getting(e)
    BY DEF Getting
  <2>5. Good(e)
    BY <2>3, <2>4 DEF View, Undisturbed, Connected
  <2>6. QED
    BY <2>2, <2>5 DEF Good, Follows
<1>2. Init => View
  BY InitTypes, InitView DEF View
<1>3. View /\ [Next]_vars => View'
  BY StepTypes, StepInformed, StepUndisturbed DEF View
<1>4. QED
  BY <1>1, <1>2, <1>3, PTL DEF Spec
=============================================================================
