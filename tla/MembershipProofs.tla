-------------------------- MODULE MembershipProofs --------------------------
(* Theorems about Membership: types, younger successors, and the links at rest. *)
EXTENDS Membership, FiniteSetTheorems, TLAPS

-----------------------------------------------------------------------------
(* Types *)

\* Paths and sources name servers where the code uses them.
Named(s) ==
  /\ watcher[s] \in {"get", "connect"} => sucessor_path[s] \in Servers
  /\ main[s] \in {"connect", "copy"} => source[s] \in Servers

TInv == TypeOK /\ \A s \in Servers : Named(s)

LEMMA PlaceType ==
  ASSUME NEW C \in SUBSET Servers, NEW s
  PROVE  /\ Place(C, s) \in Nat
         /\ IsFiniteSet(Older(C, s))
<1>1. Older(C, s) \subseteq Servers
  BY DEF Older
<1>2. IsFiniteSet(Older(C, s))
  BY <1>1, MembershipAssumption, FS_Subset
<1>3. QED
  BY <1>2, FS_CardinalityType DEF Place

LEMMA ChangeTypes ==
  ASSUME TypeOK, NEW C, ChildrenBecome(C)
  PROVE  watch' \in [Servers -> BOOLEAN] /\ events' \in [Servers -> Nat]
<1>1. \A s \in Servers : events[s] + (IF watch[s] /\ Up(s) THEN 1 ELSE 0) \in Nat
  BY DEF TypeOK
<1>2. QED
  BY <1>1 DEF ChildrenBecome

LEMMA InitTypes == Init => TInv
  BY MembershipAssumption DEF Init, TInv, TypeOK, Named, Mains, Watchers

LEMMA StepTypes == TInv /\ [Next]_vars => TInv'
<1> SUFFICES ASSUME TInv, [Next]_vars PROVE TInv'
  OBVIOUS
<1> USE MembershipAssumption DEF TInv, TypeOK, Named, Mains, Watchers, zkVars,
    watcherVars, mainVars, histories, Step, WatcherStep, Arm
<1>1. ASSUME NEW s \in Servers, Connect(s) PROVE TInv'
  <2>1. main[s] = "off" /\ main' = [main EXCEPT ![s] = "created"]
    BY <1>1 DEF Connect
  <2>2. /\ children' \in SUBSET Servers /\ born' \in [Servers -> Nat]
        /\ created' \in Nat
    BY <1>1 DEF Connect, ChildrenBecome
  <2>3. watch' \in [Servers -> BOOLEAN] /\ events' \in [Servers -> Nat]
    <3>1. CASE ChildrenBecome(children \cup {s})
      BY <3>1, ChangeTypes
    <3>2. CASE UNCHANGED <<events, watch>>
      BY <3>2
    <3>3. QED
      BY <1>1, <3>1, <3>2 DEF Connect
  <2>4. UNCHANGED <<snapshot, source, watcher, view, server_pos, sucessor_server,
                    sucessor_path, histories, crashes>>
    BY <1>1 DEF Connect
  <2>5. QED
    BY <2>1, <2>2, <2>3, <2>4
<1>2. ASSUME NEW s \in Servers, SetServerRead(s) PROVE TInv'
  BY <1>2 DEF SetServerRead, ReadChildren
<1>3. ASSUME NEW s \in Servers, SetServerPlace(s) PROVE TInv'
  BY <1>3, PlaceType DEF SetServerPlace, FindPosition
<1>4. ASSUME NEW s \in Servers, SetServerClear(s) PROVE TInv'
  BY <1>4 DEF SetServerClear
<1>5. ASSUME NEW s \in Servers, SetTable(s) PROVE TInv'
  BY <1>5 DEF SetTable
<1>6. ASSUME NEW s \in Servers, SetTableRead(s) PROVE TInv'
  BY <1>6 DEF SetTableRead, ReadChildren
<1>7. ASSUME NEW s \in Servers, SetTablePick(s) PROVE TInv'
  BY <1>7 DEF SetTablePick
<1>8. ASSUME NEW s \in Servers, SetTableConnect(s) PROVE TInv'
  BY <1>8 DEF SetTableConnect
<1>9. ASSUME NEW s \in Servers, SetTableCopy(s) PROVE TInv'
  BY <1>9 DEF SetTableCopy
<1>10. ASSUME NEW s \in Servers, End(s), crashes' \in Nat PROVE TInv'
  BY <1>10 DEF End
<1>11. ASSUME NEW s \in Servers, SetTableFails(s) PROVE TInv'
  BY <1>10, <1>11 DEF SetTableFails
<1>12. ASSUME NEW s \in Servers, Crash(s) PROVE TInv'
  BY <1>10, <1>12 DEF Crash
<1>13. ASSUME NEW s \in Servers, Expire(s) PROVE TInv'
  BY <1>13 DEF Expire, ChildrenBecome
<1>14. ASSUME NEW s \in Servers, WatcherRead(s) PROVE TInv'
  BY <1>14 DEF WatcherRead
<1>15. ASSUME NEW s \in Servers, WatcherPlace(s) PROVE TInv'
  BY <1>15, PlaceType DEF WatcherPlace, FindPosition
<1>16. ASSUME NEW s \in Servers, WatcherChoose(s) PROVE TInv'
  BY <1>16 DEF WatcherChoose, ChooseNext, ChooseNone
<1>17. ASSUME NEW s \in Servers, WatcherGet(s) PROVE TInv'
  BY <1>17 DEF WatcherGet
<1>18. ASSUME NEW s \in Servers, WatcherConnect(s) PROVE TInv'
  BY <1>18 DEF WatcherConnect
<1>19. ASSUME NEW s \in Servers, SetServerFails(s) PROVE TInv'
  BY <1>19 DEF SetServerFails
<1>20. ASSUME NEW s \in Servers, WatcherReadFails(s) PROVE TInv'
  <2>1. CASE End(s)
    <3>1. crashes' \in Nat
      BY <1>20 DEF WatcherReadFails
    <3>2. QED
      BY <1>10, <2>1, <3>1
  <2>2. ASSUME events[s] > 0, events' = [events EXCEPT ![s] = events[s] - 1],
               failed' = [failed EXCEPT ![s] = TRUE],
               UNCHANGED <<zkVars, watcherVars, mainVars, watch, main, server_pos,
                           sucessor_server, raced, crashes>>
        PROVE  TInv'
    BY <2>2
  <2>3. QED
    BY <1>20, <2>1, <2>2 DEF WatcherReadFails
<1>21. ASSUME NEW s \in Servers, WatcherGetFails(s) PROVE TInv'
  BY <1>21 DEF WatcherGetFails
<1>22. ASSUME NEW s \in Servers, WatcherConnectFails(s) PROVE TInv'
  BY <1>22 DEF WatcherConnectFails
<1>23. CASE UNCHANGED vars
  BY <1>23 DEF vars
<1>24. QED
  BY <1>1, <1>2, <1>3, <1>4, <1>5, <1>6, <1>7, <1>8, <1>9, <1>11, <1>12, <1>13,
     <1>14, <1>15, <1>16, <1>17, <1>18, <1>19, <1>20, <1>21, <1>22, <1>23
     DEF Next, Main, Watcher

\* Every variable of Membership keeps its type.
THEOREM TypeCorrect == Spec => []TypeOK
<1>1. TInv => TypeOK
  BY DEF TInv
<1>2. QED
  BY InitTypes, StepTypes, <1>1, PTL DEF Spec

-----------------------------------------------------------------------------
(* Successors are younger *)

\* Numbers are given in increasing order, and only to servers under /chain.
Numbered ==
  /\ \A s \in Servers : born[s] <= created
  /\ \A s \in Servers : main[s] = "off" => born[s] = 0
  /\ \A t \in children : born[t] > 0
  /\ \A s \in Servers : Up(s) /\ born[s] > 0 => s \in children

\* Before set_server nobody has reason to call the watcher.
Quiet == \A s \in Servers : main[s] \in {"off", "created", "dead"} =>
  /\ watch[s] = FALSE \/ main[s] = "dead"
  /\ events[s] = 0
  /\ watcher[s] = "idle"
  /\ sucessor_server[s] = None

\* The children s works with know of s, and of every server older than s that
\* those read later know of; so a position found in them is never too low.
Fresh(s) == Up(s) /\ born[s] > 0 =>
  /\ main[s] = "read" => /\ s \in snapshot[s]
                         /\ Older(children, s) \subseteq Older(snapshot[s], s)
  /\ watcher[s] \in {"place", "choose"} => s \in view[s]
  /\ main[s] = "read" /\ watcher[s] \in {"place", "choose"} =>
       Older(view[s], s) \subseteq Older(snapshot[s], s)
  /\ watcher[s] = "choose" => server_pos[s] >= Place(view[s], s)

\* What s reads of /chain has numbers.
Known(s) == \A t \in snapshot[s] \cup view[s] : born[t] > 0

Ahead(s) == Up(s) /\ born[s] > 0 =>
  /\ watcher[s] \in {"get", "connect"} => born[sucessor_path[s]] > born[s]
  /\ sucessor_server[s] # None => born[sucessor_server[s]] > born[s]

Younger ==
  /\ TInv /\ Numbered /\ Quiet
  /\ \A s \in Servers : Fresh(s) /\ Known(s) /\ Ahead(s)

LEMMA PlaceMonotone ==
  ASSUME NEW C \in SUBSET Servers, NEW s, NEW D \in SUBSET Servers, NEW t,
         Older(C, s) \subseteq Older(D, t)
  PROVE  Place(C, s) <= Place(D, t)
  BY PlaceType, FS_Subset DEF Place

LEMMA InitYounger == Init => Younger
<1> SUFFICES ASSUME Init PROVE Younger
  OBVIOUS
<1>1. TInv
  BY InitTypes
<1>2. Numbered /\ Quiet
  BY DEF Init, Numbered, Quiet, Up
<1>3. \A s \in Servers : Fresh(s) /\ Known(s) /\ Ahead(s)
  BY DEF Init, Fresh, Known, Ahead, Up
<1>4. QED
  BY <1>1, <1>2, <1>3 DEF Younger

LEMMA StepYounger == Younger /\ [Next]_vars => Younger'
<1> SUFFICES ASSUME Younger, [Next]_vars PROVE Younger'
  OBVIOUS
<1> DEFINE Local == Numbered /\ Quiet /\ \A u \in Servers : Fresh(u) /\ Known(u) /\ Ahead(u)
<1>0. TInv' /\ (Local' => Younger')
  BY StepTypes DEF Younger
<1> USE DEF Younger, TInv, TypeOK, zkVars, watcherVars, mainVars, Step,
    WatcherStep, Arm, Up, Numbered, Quiet, Fresh, Known, Ahead, Named, Older
<1>1. ASSUME NEW s \in Servers, Connect(s) PROVE Local'
  <2>1. /\ main[s] = "off" /\ main' = [main EXCEPT ![s] = "created"]
        /\ UNCHANGED <<watcherVars, mainVars, server_pos, sucessor_server>>
    BY <1>1 DEF Connect
  <2>2. CASE UNCHANGED <<zkVars, events, watch>>
    <3>1. Numbered' /\ Quiet' /\ \A u \in Servers : Known(u)' /\ Ahead(u)'
      BY <2>1, <2>2
    <3>2. /\ \A u \in Servers : Up(u)' /\ u # s => Up(u) /\ main'[u] = main[u]
          /\ born'[s] = 0
      BY <2>1, <2>2
    <3>3. \A u \in Servers : /\ Older(children, u)' = Older(children, u)
                             /\ Older(snapshot[u], u)' = Older(snapshot[u], u)
                             /\ Older(view[u], u)' = Older(view[u], u)
      BY <2>1, <2>2
    <3>4. \A u \in Servers : Place(view[u], u)' = Place(view[u], u)
      BY <3>3 DEF Place
    <3>5. \A u \in Servers : Fresh(u)'
      <4> HIDE DEF Older, Up
      <4>1. QED
        BY <2>1, <2>2, <3>2, <3>3, <3>4
    <3>6. QED
      BY <3>1, <3>5
  <2>3. ASSUME created' = created + 1, born' = [born EXCEPT ![s] = created + 1],
               ChildrenBecome(children \cup {s})
        PROVE  Local'
    <3>1. /\ children' = children \cup {s}
          /\ \A u \in Servers : watch'[u] = FALSE
          /\ \A u \in Servers :
               watch[u] = FALSE \/ main[u] \in {"off", "dead"} => events'[u] = events[u]
      BY <2>3 DEF ChildrenBecome
    <3>2. Numbered' /\ Quiet'
      BY <2>1, <2>3, <3>1
    <3>3. \A u \in Servers : Known(u)'
      BY <2>1, <2>3
    <3>4. \A u \in Servers : Ahead(u)'
      BY <2>1, <2>3
    <3>5. \A u \in Servers \ {s} :
            /\ Older(children, u)' = Older(children, u)
            /\ Older(snapshot[u], u)' = Older(snapshot[u], u)
            /\ Older(view[u], u)' = Older(view[u], u)
      BY <2>1, <2>3, <3>1
    <3>6. \A u \in Servers \ {s} : Place(view[u], u)' = Place(view[u], u)
      BY <3>5 DEF Place
    <3>7. \A u \in Servers \ {s} : Fresh(u)'
      <4> HIDE DEF Older
      <4>1. QED
        BY <2>1, <2>3, <3>5, <3>6
    <3>8. Fresh(s)'
      BY <2>1
    <3>9. QED
      BY <3>2, <3>3, <3>4, <3>7, <3>8
  <2>4. QED
    BY <1>1, <2>2, <2>3 DEF Connect
<1>2. ASSUME NEW s \in Servers, SetServerRead(s) PROVE Local'
  BY <1>2 DEF SetServerRead, ReadChildren, Place
<1>3. ASSUME NEW s \in Servers, SetServerPlace(s) PROVE Local'
  <2>1. /\ main[s] = "read" /\ main' = [main EXCEPT ![s] = "placed"]
        /\ snapshot' = [snapshot EXCEPT ![s] = {}]
        /\ UNCHANGED <<zkVars, watcherVars, source, watch, events, sucessor_server>>
    BY <1>3 DEF SetServerPlace
  <2>2. ASSUME NEW u \in Servers, Up(u), born[u] > 0, watcher[u] = "choose"
        PROVE  server_pos'[u] >= Place(view[u], u)
    <3>1. CASE u # s
      BY <1>3, <2>2, <3>1 DEF SetServerPlace, FindPosition
    <3>2. CASE u = s
      <4>1. s \in snapshot[s] /\ Older(view[s], s) \subseteq Older(snapshot[s], s)
        BY <2>1, <2>2, <3>2
      <4>2. server_pos'[s] = Place(snapshot[s], s)
        BY <1>3, <4>1 DEF SetServerPlace, FindPosition
      <4>3. Place(view[s], s) <= Place(snapshot[s], s)
        BY <4>1, PlaceMonotone
      <4>4. Place(view[s], s) \in Nat /\ Place(snapshot[s], s) \in Nat
        BY PlaceType
      <4>5. QED
        BY <3>2, <4>2, <4>3, <4>4
    <3>3. QED
      BY <3>1, <3>2
  <2>3. \A u \in Servers : Place(view[u], u)' = Place(view[u], u)
    BY <2>1 DEF Place
  <2>4. Numbered' /\ Quiet' /\ \A u \in Servers : Known(u)' /\ Ahead(u)'
    BY <2>1
  <2>5. \A u \in Servers : Fresh(u)'
    BY <2>1, <2>2, <2>3
  <2>6. QED
    BY <2>4, <2>5
<1>4. ASSUME NEW s \in Servers, SetServerClear(s) PROVE Local'
  BY <1>4 DEF SetServerClear, Place
<1>5. ASSUME NEW s \in Servers, SetTable(s) PROVE Local'
  BY <1>5 DEF SetTable, Place
<1>6. ASSUME NEW s \in Servers, SetTableRead(s) PROVE Local'
  BY <1>6 DEF SetTableRead, ReadChildren, Place
<1>7. ASSUME NEW s \in Servers, SetTablePick(s) PROVE Local'
  <2>1. /\ main[s] = "pick" /\ main' = [main EXCEPT ![s] = "connect"]
        /\ snapshot' = [snapshot EXCEPT ![s] = {}]
        /\ UNCHANGED <<zkVars, watcherVars, watch, events, server_pos, sucessor_server>>
    BY <1>7 DEF SetTablePick
  <2>2. QED
    BY <2>1 DEF Place
<1>8. ASSUME NEW s \in Servers, SetTableConnect(s) PROVE Local'
  BY <1>8 DEF SetTableConnect, Place
<1>9. ASSUME NEW s \in Servers, SetTableCopy(s) PROVE Local'
  BY <1>9 DEF SetTableCopy, Place
<1>10. ASSUME NEW s \in Servers, End(s) PROVE Local'
  BY <1>10 DEF End, Place
<1>11. ASSUME NEW s \in Servers, SetTableFails(s) PROVE Local'
  BY <1>10, <1>11 DEF SetTableFails
<1>12. ASSUME NEW s \in Servers, Crash(s) PROVE Local'
  BY <1>10, <1>12 DEF Crash
<1>13. ASSUME NEW s \in Servers, Expire(s) PROVE Local'
  <2>1. /\ main[s] = "dead"
        /\ children' = children \ {s}
        /\ \A u \in Servers : watch'[u] = FALSE
        /\ \A u \in Servers : watch[u] = FALSE \/ main[u] = "dead" => events'[u] = events[u]
        /\ UNCHANGED <<born, created, watcherVars, mainVars, main, server_pos, sucessor_server>>
    BY <1>13 DEF Expire, ChildrenBecome
  <2>2. Numbered' /\ Quiet'
    BY <2>1
  <2>3. \A u \in Servers : Fresh(u)' /\ Known(u)' /\ Ahead(u)'
    BY <2>1 DEF Place
  <2>4. QED
    BY <2>2, <2>3
<1>14. ASSUME NEW s \in Servers, WatcherRead(s) PROVE Local'
  <2>1. /\ main[s] \notin {"off", "dead"} /\ events[s] > 0
        /\ watcher[s] = "idle"
        /\ \E p \in {"idle", "place"} : watcher' = [watcher EXCEPT ![s] = p]
        /\ view' = [view EXCEPT ![s] = children]
        /\ events' = [events EXCEPT ![s] = events[s] - 1]
        /\ watch' = [watch EXCEPT ![s] = TRUE]
        /\ UNCHANGED <<zkVars, sucessor_path, mainVars, main, server_pos, sucessor_server>>
    BY <1>14 DEF WatcherRead
  <2>2. Numbered' /\ Quiet'
    BY <2>1
  <2>3. \A u \in Servers : Known(u)' /\ Ahead(u)'
    BY <2>1
  <2>4. ASSUME NEW u \in Servers PROVE Fresh(u)'
    <3>1. CASE u # s
      <4>1. /\ Older(children, u)' = Older(children, u)
            /\ Older(snapshot[u], u)' = Older(snapshot[u], u)
            /\ Older(view[u], u)' = Older(view[u], u)
        BY <2>1, <3>1
      <4>2. Place(view[u], u)' = Place(view[u], u)
        BY <4>1 DEF Place
      <4> HIDE DEF Older
      <4>3. QED
        BY <2>1, <3>1, <4>1, <4>2
    <3>2. CASE u = s
      BY <2>1, <3>2
    <3>3. QED
      BY <3>1, <3>2
  <2>5. QED
    BY <2>2, <2>3, <2>4
<1>15. ASSUME NEW s \in Servers, WatcherPlace(s) PROVE Local'
  <2>1. /\ main[s] \notin {"off", "dead"} /\ watcher[s] = "place"
        /\ watcher' = [watcher EXCEPT ![s] = "choose"]
        /\ UNCHANGED <<zkVars, view, sucessor_path, mainVars, watch, events, main, sucessor_server>>
    BY <1>15 DEF WatcherPlace
  <2>2. \A u \in Servers : u # s => server_pos'[u] = server_pos[u]
    BY <1>15 DEF WatcherPlace, FindPosition
  <2>3. s \in view[s] => server_pos'[s] = Place(view[s], s)
    BY <1>15 DEF WatcherPlace, FindPosition
  <2>4. \A u \in Servers : Place(view[u], u)' = Place(view[u], u) /\ Place(view[u], u) \in Nat
    <3>1. \A u \in Servers : Older(view[u], u)' = Older(view[u], u)
      BY <2>1
    <3>2. \A u \in Servers : view[u] \in SUBSET Servers
      OBVIOUS
    <3> HIDE DEF Older
    <3>3. QED
      BY <3>1, <3>2, PlaceType DEF Place
  <2>5. Numbered' /\ Quiet' /\ \A u \in Servers : Known(u)' /\ Ahead(u)'
    BY <2>1
  <2>6. \A u \in Servers : Fresh(u)'
    BY <2>1, <2>2, <2>3, <2>4
  <2>7. QED
    BY <2>5, <2>6
<1>16. ASSUME NEW s \in Servers, WatcherChoose(s) PROVE Local'
  <2>1. /\ main[s] \notin {"off", "dead"} /\ watcher[s] = "choose"
        /\ view' = [view EXCEPT ![s] = {}]
        /\ \E p \in {"get", "idle"} : watcher' = [watcher EXCEPT ![s] = p]
        /\ UNCHANGED <<zkVars, mainVars, watch, events, main, server_pos>>
    BY <1>16 DEF WatcherChoose, ChooseNext, ChooseNone
  <2>2. \/ sucessor_server' = sucessor_server
        \/ sucessor_server' = [sucessor_server EXCEPT ![s] = None]
    BY <1>16 DEF WatcherChoose, ChooseNext, ChooseNone
  <2>3. \A u \in Servers : u # s => sucessor_path'[u] = sucessor_path[u]
    BY <1>16 DEF WatcherChoose, ChooseNext, ChooseNone
  <2>4. ASSUME watcher'[s] = "get", born[s] > 0
        PROVE  born[sucessor_path'[s]] > born[s]
    <3>1. PICK t \in view[s] : /\ Place(view[s], t) = server_pos[s] + 1
                               /\ sucessor_path' = [sucessor_path EXCEPT ![s] = t]
      BY <1>16, <2>4 DEF WatcherChoose, ChooseNext, ChooseNone
    <3>2. server_pos[s] >= Place(view[s], s)
      BY <2>1, <2>4
    <3>3. Place(view[s], t) \in Nat /\ Place(view[s], s) \in Nat
      BY PlaceType
    <3>4. ~(Older(view[s], t) \subseteq Older(view[s], s))
      <4>1. ~(Place(view[s], t) <= Place(view[s], s))
        BY <3>1, <3>2, <3>3
      <4>2. QED
        BY <4>1, PlaceMonotone
    <3>5. t \in Servers /\ born[t] > born[s]
      BY <3>4
    <3>6. QED
      BY <3>1, <3>5
  <2>5. Numbered' /\ Quiet' /\ \A u \in Servers : Known(u)'
    BY <2>1, <2>2
  <2>6. \A u \in Servers : Ahead(u)'
    BY <2>1, <2>2, <2>3, <2>4
  <2>7. ASSUME NEW u \in Servers PROVE Fresh(u)'
    <3>1. CASE u # s
      <4>1. /\ Older(children, u)' = Older(children, u)
            /\ Older(snapshot[u], u)' = Older(snapshot[u], u)
            /\ Older(view[u], u)' = Older(view[u], u)
        BY <2>1, <3>1
      <4>2. Place(view[u], u)' = Place(view[u], u)
        BY <4>1 DEF Place
      <4> HIDE DEF Older
      <4>3. QED
        BY <2>1, <3>1, <4>1, <4>2
    <3>2. CASE u = s
      BY <2>1, <3>2
    <3>3. QED
      BY <3>1, <3>2
  <2>8. QED
    BY <2>5, <2>6, <2>7
<1>17. ASSUME NEW s \in Servers, WatcherGet(s) PROVE Local'
  BY <1>17 DEF WatcherGet, Place
<1>18. ASSUME NEW s \in Servers, WatcherConnect(s) PROVE Local'
  BY <1>18 DEF WatcherConnect, Place
<1>19. ASSUME NEW s \in Servers, SetServerFails(s) PROVE Local'
  BY <1>19 DEF SetServerFails, Place
<1>20. ASSUME NEW s \in Servers, WatcherReadFails(s) PROVE Local'
  <2>1. CASE End(s)
    BY <1>10, <2>1
  <2>2. ASSUME events[s] > 0, events' = [events EXCEPT ![s] = events[s] - 1],
               failed' = [failed EXCEPT ![s] = TRUE],
               UNCHANGED <<zkVars, watcherVars, mainVars, watch, main, server_pos,
                           sucessor_server, raced, crashes>>
        PROVE  Local'
    <3>1. Numbered' /\ Quiet' /\ \A u \in Servers : Known(u)' /\ Ahead(u)'
      BY <2>2
    <3>2. \A u \in Servers : Fresh(u)'
      BY <2>2 DEF Place
    <3>3. QED
      BY <3>1, <3>2
  <2>3. QED
    BY <1>20, <2>1, <2>2 DEF WatcherReadFails
<1>21. ASSUME NEW s \in Servers, WatcherGetFails(s) PROVE Local'
  BY <1>21 DEF WatcherGetFails, Place
<1>22. ASSUME NEW s \in Servers, WatcherConnectFails(s) PROVE Local'
  BY <1>22 DEF WatcherConnectFails, Place
<1>23. CASE UNCHANGED vars
  <2>1. Local'
    BY <1>23 DEF vars, Place
  <2>2. QED
    BY <1>0, <2>1
<1>24. QED
  BY <1>0, <1>1, <1>2, <1>3, <1>4, <1>5, <1>6, <1>7, <1>8, <1>9, <1>11, <1>12, <1>13,
     <1>14, <1>15, <1>16, <1>17, <1>18, <1>19, <1>20, <1>21, <1>22, <1>23
     DEF Next, Main, Watcher

\* A server forwards only to servers that joined after it (set_server and
\* my_watcher_fn, on whatever children and position they work).
THEOREM YoungerSuccessorAlways == Spec => []YoungerSuccessor
<1>1. Younger => YoungerSuccessor
  BY DEF Younger, Ahead, YoungerSuccessor
<1>2. QED
  BY InitYounger, StepYounger, <1>1, PTL DEF Spec

-----------------------------------------------------------------------------
(* The links of calm servers *)

\* No two znodes have the same number.
Distinct == \A s, t \in Servers : born[s] = born[t] /\ born[s] > 0 => s = t

\* Paths are those of servers that had a znode.
Handled(s) ==
  /\ watcher[s] \notin {"place", "choose"} => view[s] = {}
  /\ sucessor_path[s] # None => born[sucessor_path[s]] > 0

\* No server that s may still hear of is between s and t.
Nearest(s, t) == \A u \in children \cup view[s] : born[u] > born[s] => born[u] >= born[t]

\* What a calm server knows: its position is exact, what it has not read is
\* younger than what it has, and a successor that is alive is the next one.
Linked(s) == Calm(s) =>
  /\ main[s] \in {"read", "placed"} => watcher[s] = "idle" /\ sucessor_server[s] = None
  /\ watcher[s] = "choose" => server_pos[s] = Place(view[s], s)
  /\ watcher[s] \in {"place", "choose"} =>
       \A u \in children \ view[s], v \in view[s] : born[u] > born[v]
  /\ watcher[s] \in {"get", "connect"} => Nearest(s, sucessor_path[s])
  /\ sucessor_server[s] \in children =>
       /\ sucessor_path[s] = sucessor_server[s]
       /\ watcher[s] \notin {"get", "connect"}
       /\ watcher[s] \in {"place", "choose"} => sucessor_server[s] \in view[s]
       /\ Nearest(s, sucessor_server[s])
  /\ sucessor_server[s] \notin {None, sucessor_path[s]} /\ watcher[s] \notin {"get", "connect"} =>
       sucessor_path[s] \notin children \cup view[s]

\* When no event is on its way to a calm server, it has a watch, and what it has
\* read, chosen or linked is what is there now; who is next may be dead.
Current(s) == Calm(s) /\ main[s] # "created" /\ events[s] = 0 =>
  /\ watch[s]
  /\ watcher[s] \in {"place", "choose"} => view[s] = children
  /\ watcher[s] \in {"get", "connect"} => sucessor_path[s] \in children
  /\ watcher[s] = "idle" =>
       IF sucessor_server[s] = None
       THEN \A t \in children : born[t] > born[s] =>
              \E u \in children : born[u] > born[s] /\ born[u] <= born[t] /\ main[u] = "dead"
       ELSE sucessor_server[s] \in children

Links == Younger /\ Distinct /\ \A s \in Servers : Handled(s) /\ Linked(s) /\ Current(s)

LEMMA InitLinks == Init => Links
<1> SUFFICES ASSUME Init PROVE Links
  OBVIOUS
<1>1. Younger
  BY InitYounger
<1>2. Distinct
  BY DEF Init, Distinct
<1>3. \A s \in Servers : Handled(s) /\ Linked(s) /\ Current(s)
  BY DEF Init, Handled, Linked, Current, Calm, Up
<1>4. QED
  BY <1>1, <1>2, <1>3 DEF Links

\* A step that leaves alone what s knows, and what there is to know.
LEMMA Undisturbed ==
  ASSUME Links, NEW s \in Servers,
         UNCHANGED <<children, born, watcher[s], view[s], sucessor_path[s],
                     raced[s], failed[s], events[s]>>,
         Calm(s)' => /\ sucessor_server'[s] = sucessor_server[s]
                     /\ watcher[s] = "choose" => server_pos'[s] = server_pos[s],
         watch[s] => watch'[s],
         Up(s)' => Up(s) /\ (main[s] = "created" => main'[s] = "created"),
         main'[s] \in {"read", "placed"} => main[s] \in {"read", "placed"},
         \A v \in Servers : main[v] = "dead" => main'[v] = "dead"
  PROVE  Handled(s)' /\ Linked(s)' /\ Current(s)'
<1>1. Handled(s) /\ Linked(s) /\ Current(s) /\ children \subseteq Servers
  BY DEF Links, Younger, TInv, TypeOK
<1>2. Calm(s)' => Calm(s)
  BY DEF Calm
<1>3. Place(view[s], s)' = Place(view[s], s)
  BY DEF Place, Older
<1>4. Handled(s)'
  BY <1>1 DEF Handled
<1>5. Linked(s)'
  BY <1>1, <1>2, <1>3 DEF Linked, Nearest
<1>6. Current(s)'
  BY <1>1, <1>2 DEF Current, Calm
<1>7. QED
  BY <1>4, <1>5, <1>6

LEMMA TwoMore ==
  ASSUME NEW A, NEW B \in SUBSET Servers, A \subseteq B,
         NEW s \in B \ A, NEW t \in B \ A, s # t
  PROVE  Cardinality(A) + 2 <= Cardinality(B)
<1>1. IsFiniteSet(A) /\ IsFiniteSet(B) /\ IsFiniteSet(A \cup {s})
  BY MembershipAssumption, FS_Subset, FS_AddElement
<1>2. Cardinality(A \cup {s}) = Cardinality(A) + 1
  BY <1>1, FS_AddElement
<1>3. IsFiniteSet((A \cup {s}) \cup {t})
      /\ Cardinality((A \cup {s}) \cup {t}) = Cardinality(A \cup {s}) + 1
  BY <1>1, FS_AddElement
<1>4. Cardinality((A \cup {s}) \cup {t}) <= Cardinality(B)
  BY <1>1, <1>3, FS_Subset
<1>5. Cardinality(A) \in Nat /\ Cardinality(B) \in Nat
  BY <1>1, FS_CardinalityType
<1>6. QED
  BY <1>2, <1>3, <1>4, <1>5

\* my_watcher_fn finds no next server only if nobody in its list is younger ...
LEMMA ChosenNone ==
  ASSUME Links, NEW s \in Servers, Calm(s), watcher[s] = "choose",
         server_pos[s] + 1 >= Cardinality(view[s]), NEW t \in view[s]
  PROVE  born[t] <= born[s]
<1>1. /\ view[s] \in SUBSET Servers /\ s \in view[s] /\ t \in Servers
      /\ server_pos[s] = Place(view[s], s)
      /\ \A v \in Servers : born[v] \in Nat
      /\ born[s] > 0
  BY DEF Links, Younger, TInv, TypeOK, Fresh, Linked, Calm, Numbered
<1>2. SUFFICES ASSUME born[t] > born[s] PROVE FALSE
  BY <1>1
<1>3. Older(view[s], s) \subseteq view[s] /\ s \notin Older(view[s], s) /\ t \notin Older(view[s], s)
      /\ s # t
  BY <1>1, <1>2 DEF Older
<1>4. Cardinality(Older(view[s], s)) + 2 <= Cardinality(view[s])
  BY <1>1, <1>3, TwoMore
<1>5. Cardinality(view[s]) \in Nat /\ Place(view[s], s) \in Nat
  BY <1>1, PlaceType, MembershipAssumption, FS_Subset, FS_CardinalityType
<1>6. QED
  BY <1>1, <1>4, <1>5 DEF Place

\* ... and otherwise takes the one that comes next in its list.
LEMMA ChosenNext ==
  ASSUME Links, NEW s \in Servers, Calm(s), watcher[s] = "choose",
         NEW t \in view[s], Place(view[s], t) = server_pos[s] + 1
  PROVE  /\ born[t] > born[s]
         /\ \A u \in view[s] : born[u] > born[s] => born[u] >= born[t]
<1>1. /\ view[s] \in SUBSET Servers /\ s \in view[s] /\ t \in Servers
      /\ server_pos[s] = Place(view[s], s)
      /\ \A v \in Servers : born[v] \in Nat
      /\ born[s] > 0
  BY DEF Links, Younger, TInv, TypeOK, Fresh, Linked, Calm, Numbered
<1>2. Place(view[s], s) \in Nat /\ Place(view[s], t) \in Nat
  BY <1>1, PlaceType
<1>3. ~(Older(view[s], t) \subseteq Older(view[s], s))
  <2>1. ~(Place(view[s], t) <= Place(view[s], s))
    BY <1>1, <1>2
  <2>2. QED
    BY <1>1, <2>1, PlaceMonotone
<1>4. born[t] > born[s]
  BY <1>1, <1>3 DEF Older
<1>5. ASSUME NEW u \in view[s], born[u] > born[s], born[u] < born[t] PROVE FALSE
  <2>1. /\ Older(view[s], s) \subseteq Older(view[s], t)
        /\ s \in Older(view[s], t) \ Older(view[s], s)
        /\ u \in Older(view[s], t) \ Older(view[s], s)
        /\ s # u
        /\ Older(view[s], t) \in SUBSET Servers
    BY <1>1, <1>4, <1>5 DEF Older
  <2>2. Cardinality(Older(view[s], s)) + 2 <= Cardinality(Older(view[s], t))
    BY <2>1, TwoMore
  <2>3. QED
    BY <1>1, <1>2, <2>2 DEF Place
<1>6. QED
  BY <1>1, <1>4, <1>5

\* Who is calm has a number, and keeps it.
LEMMA CalmNumbered ==
  ASSUME Links, NEW s \in Servers, Calm(s)
  PROVE  /\ s \in children /\ born[s] > 0 /\ main[s] # "off"
         /\ watcher[s] \in {"place", "choose"} => s \in view[s]
         /\ sucessor_server[s] # None => born[sucessor_server[s]] > born[s]
         /\ watcher[s] \in {"get", "connect"} => born[sucessor_path[s]] > born[s]
  BY DEF Links, Younger, Fresh, Ahead, Calm, Numbered, Up

LEMMA StepLinks == Links /\ [Next]_vars => Links'
<1> SUFFICES ASSUME Links, [Next]_vars PROVE Links'
  OBVIOUS
<1> DEFINE Kept(u) == Handled(u)' /\ Linked(u)' /\ Current(u)'
           Local == Distinct' /\ \A u \in Servers : Kept(u)
<1>0. /\ Younger' /\ (Local => Links')
      /\ Younger /\ TypeOK /\ Numbered /\ Quiet
      /\ \A u \in Servers : Handled(u) /\ Linked(u) /\ Current(u) /\ Known(u) /\ Named(u)
  BY StepYounger DEF Links, Younger, TInv
<1> HIDE DEF Kept
<1> USE DEF zkVars, watcherVars, mainVars, histories
<1>1. ASSUME UNCHANGED born PROVE Distinct'
  BY <1>1, <1>0 DEF Links, Distinct
<1>2. ASSUME NEW u \in Servers,
             UNCHANGED <<children, born, watcher[u], view[u], sucessor_path[u],
                         sucessor_server[u], raced[u], failed[u], events[u], server_pos[u]>>,
             main'[u] = main[u], watch[u] => watch'[u],
             \A v \in Servers : main[v] = "dead" => main'[v] = "dead"
      PROVE  Kept(u)
  BY <1>2, Undisturbed DEF Kept, Up
<1>3. ASSUME NEW s \in Servers, Connect(s) PROVE Local
  <2>1. /\ main[s] = "off" /\ main' = [main EXCEPT ![s] = "created"]
        /\ UNCHANGED <<watcherVars, mainVars, server_pos, sucessor_server, raced, failed>>
    BY <1>3 DEF Connect, Step
  <2>2. \A u \in Servers \ {s} : main'[u] = main[u]
    BY <2>1, <1>0 DEF TypeOK
  <2>3. main'[s] = "created" /\ born[s] = 0 /\ s \notin children
    BY <2>1, <1>0 DEF TypeOK, Numbered
  <2>4. Handled(s) /\ watcher[s] = "idle" /\ sucessor_server[s] = None
    BY <2>1, <1>0 DEF Quiet
  <2>5. CASE UNCHANGED <<zkVars, events, watch>>
    <3>1. Kept(s)
      BY <2>1, <2>3, <2>4, <2>5 DEF Kept, Handled, Linked, Current, Calm
    <3>2. \A v \in Servers : main[v] = "dead" => main'[v] = "dead"
      BY <2>1, <2>2
    <3>3. ASSUME NEW u \in Servers, u # s PROVE Kept(u)
      BY <1>2, <2>1, <2>2, <2>5, <3>2, <3>3
    <3>4. QED
      BY <1>1, <2>5, <3>1, <3>3
  <2>6. ASSUME created' = created + 1, born' = [born EXCEPT ![s] = created + 1],
               ChildrenBecome(children \cup {s})
        PROVE  Local
    <3>1. /\ children' = children \cup {s}
          /\ \A u \in Servers : events'[u] = 0 => events[u] = 0 /\ ~(watch[u] /\ Up(u))
      BY <2>6, <1>0 DEF ChildrenBecome, TypeOK
    <3>2. born'[s] = created + 1 /\ \A u \in Servers \ {s} : born'[u] = born[u] /\ born'[u] < born'[s]
      BY <2>6, <1>0 DEF TypeOK, Numbered
    <3>3. Distinct'
      <4>1. \A u \in Servers : born'[u] \in Nat
        BY <2>6, <1>0 DEF TypeOK
      <4>2. ASSUME NEW x \in Servers, NEW y \in Servers, born'[x] = born'[y], born'[x] > 0
            PROVE  x = y
        <5>1. (x = s) <=> (y = s)
          BY <3>2, <4>1, <4>2
        <5>2. QED
          BY <3>2, <4>2, <5>1, <1>0 DEF Links, Distinct
      <4>3. QED
        BY <4>2 DEF Distinct
    <3>4. ASSUME NEW u \in Servers PROVE Handled(u)'
      BY <2>1, <2>3, <3>2, <3>4, <1>0 DEF Handled, TypeOK
    <3>5. Linked(s)' /\ Current(s)'
      <4>1. sucessor_server'[s] = None /\ None \notin children' /\ watcher'[s] = "idle"
            /\ view'[s] = {}
        BY <2>1, <2>4, <3>1, <1>0, MembershipAssumption DEF Handled, TypeOK
      <4>2. QED
        BY <2>3, <4>1 DEF Linked, Current
    <3>6. ASSUME NEW u \in Servers, u # s, Calm(u)' PROVE Linked(u)' /\ Current(u)'
      <4>1. Calm(u) /\ Up(u) /\ main'[u] = main[u]
        BY <2>1, <2>2, <3>1, <3>6 DEF Calm, Up
      <4>2. Current(u)'
        BY <2>1, <3>1, <4>1, <1>0 DEF Current
      <4>3. /\ view[u] \subseteq Servers \ {s}
            /\ s \notin view[u] /\ sucessor_server[u] # s
            /\ sucessor_path[u] # s
            /\ born[u] > 0
        <5>1. s # None /\ view[u] \subseteq Servers
          BY <1>0, MembershipAssumption DEF TypeOK
        <5>2. born[u] > 0 /\ (sucessor_server[u] # None => born[sucessor_server[u]] > born[u])
          BY <4>1, CalmNumbered
        <5>3. s \notin view[u]
          BY <2>3, <1>0 DEF Known
        <5>4. sucessor_path[u] # s
          BY <2>3, <5>1, <1>0 DEF Handled
        <5>5. sucessor_server[u] # s
          BY <2>3, <5>1, <5>2, <1>0 DEF TypeOK
        <5>6. QED
          BY <5>1, <5>2, <5>3, <5>4, <5>5
      <4>4. Place(view[u], u)' = Place(view[u], u)
        BY <2>1, <3>2, <3>6, <4>3 DEF Place, Older
      <4>5. ASSUME NEW t \in Servers \ {s}, Nearest(u, t) PROVE Nearest(u, t)'
        BY <2>1, <3>1, <3>2, <3>6, <4>3, <4>5, <1>0 DEF Nearest, TypeOK
      <4>6. watcher'[u] \in {"place", "choose"} =>
              \A x \in children' \ view'[u], v \in view'[u] : born'[x] > born'[v]
        BY <2>1, <3>1, <3>2, <3>6, <4>1, <4>3, <1>0 DEF Linked, TypeOK
      <4>7. /\ watcher[u] \in {"get", "connect"} => sucessor_path[u] \in Servers
            /\ sucessor_server[u] \in children' => sucessor_server[u] \in children
        BY <3>1, <4>3, <1>0 DEF Named
      <4>8. watcher'[u] \in {"get", "connect"} => Nearest(u, sucessor_path[u])'
        <5>1. watcher[u] \in {"get", "connect"} => Nearest(u, sucessor_path[u])
          BY <4>1, <1>0 DEF Linked
        <5>2. QED
          BY <2>1, <4>3, <4>5, <4>7, <5>1
      <4>9. sucessor_server'[u] \in children' => Nearest(u, sucessor_server[u])'
        <5>1. sucessor_server[u] \in children => Nearest(u, sucessor_server[u])
          BY <4>1, <1>0 DEF Linked
        <5>2. QED
          BY <2>1, <4>3, <4>5, <4>7, <5>1, <1>0 DEF TypeOK
      <4>10. sucessor_path'[u] \in children' => sucessor_path[u] \in children
        BY <2>1, <3>1, <4>3
      <4>11. Linked(u)
        BY <1>0
      <4> HIDE DEF Nearest
      <4>12. Linked(u)'
        BY ONLY <2>1, <4>1, <4>4, <4>6, <4>7, <4>8, <4>9, <4>10, <4>11 DEF Linked, watcherVars
      <4>13. QED
        BY <4>2, <4>12
    <3>7. QED
      BY <3>3, <3>4, <3>5, <3>6 DEF Kept, Linked, Current
  <2>7. QED
    BY <1>3, <2>5, <2>6 DEF Connect
<1>4. ASSUME NEW s \in Servers, SetServerRead(s) PROVE Local
  <2>1. /\ main[s] = "created" /\ main' = [main EXCEPT ![s] = "read"]
        /\ raced' = [raced EXCEPT ![s] = \E t \in children : born[t] > born[s]]
        /\ watch' = [watch EXCEPT ![s] = TRUE]
        /\ UNCHANGED <<zkVars, watcherVars, events, server_pos, sucessor_server, failed>>
    BY <1>4 DEF SetServerRead, Step, ReadChildren, Arm
  <2>2. \A v \in Servers : main[v] = "dead" => main'[v] = "dead"
    BY <2>1, <1>0 DEF TypeOK
  <2>3. \A u \in Servers \ {s} : Kept(u)
    BY <1>2, <2>1, <2>2, <1>0 DEF TypeOK
  <2>4. /\ watcher'[s] = "idle" /\ sucessor_server'[s] = None /\ view'[s] = {}
        /\ watch'[s] = TRUE
    BY <2>1, <1>0 DEF Quiet, TypeOK, Handled
  <2>5. raced'[s] = \E t \in children : born[t] > born[s]
    BY <2>1, <1>0 DEF TypeOK
  <2>6. Handled(s)'
    BY <2>1, <1>0 DEF Handled
  <2>7. Linked(s)' /\ Current(s)'
    BY <2>1, <2>4, <2>5, <1>0, MembershipAssumption DEF Linked, Current, Calm, TypeOK
  <2>8. QED
    BY <1>1, <2>1, <2>3, <2>6, <2>7 DEF Kept
<1>5. ASSUME NEW s \in Servers, SetServerPlace(s) \/ SetServerClear(s) PROVE Local
  <2>1. /\ main[s] \in {"read", "placed"}
        /\ main' = [main EXCEPT ![s] = "placed"] \/ main' = [main EXCEPT ![s] = "set"]
        /\ \A u \in Servers \ {s} : /\ server_pos'[u] = server_pos[u]
                                    /\ sucessor_server'[u] = sucessor_server[u]
        /\ sucessor_server'[s] \in {None, sucessor_server[s]}
        /\ UNCHANGED <<zkVars, watcherVars, watch, events, raced, failed>>
    BY <1>5, <1>0 DEF SetServerPlace, SetServerClear, Step, FindPosition, TypeOK
  <2>2. \A v \in Servers : main[v] = "dead" => main'[v] = "dead"
    BY <2>1, <1>0 DEF TypeOK
  <2>3. \A u \in Servers \ {s} : Kept(u)
    BY <1>2, <2>1, <2>2, <1>0 DEF TypeOK
  <2>4. Calm(s) => watcher[s] = "idle" /\ sucessor_server[s] = None
    BY <2>1, <1>0 DEF Linked
  <2>5. main'[s] \in {"placed", "set"}
    BY <2>1, <1>0 DEF TypeOK
  <2>6. Calm(s)' => Calm(s)
    BY <2>1 DEF Calm, Up
  <2>7. Kept(s)
    BY <2>1, <2>2, <2>4, <2>5, <2>6, Undisturbed DEF Kept, Up
  <2>8. QED
    BY <1>1, <2>1, <2>3, <2>7
<1>6. ASSUME NEW s \in Servers,
             SetTable(s) \/ SetTableRead(s) \/ SetTablePick(s) \/ SetTableConnect(s)
               \/ SetTableCopy(s)
      PROVE  Local
  <2>1. /\ main[s] \in {"set", "join", "pick", "connect", "copy"}
        /\ \E p \in {"join", "serving", "pick", "connect", "copy"} :
             main' = [main EXCEPT ![s] = p]
        /\ UNCHANGED <<zkVars, watcherVars, events, server_pos, sucessor_server, raced, failed>>
        /\ watch' = watch \/ watch' = [watch EXCEPT ![s] = TRUE]
    BY <1>6 DEF SetTable, SetTableRead, SetTablePick, SetTableConnect, SetTableCopy,
       Step, ReadChildren, Arm
  <2>2. /\ \A v \in Servers : main[v] = "dead" => main'[v] = "dead"
        /\ \A v \in Servers : watch[v] => watch'[v]
        /\ main'[s] \in {"join", "serving", "pick", "connect", "copy"}
    BY <2>1, <1>0 DEF TypeOK
  <2>3. \A u \in Servers \ {s} : Kept(u)
    BY <1>2, <2>1, <2>2, <1>0 DEF TypeOK
  <2>4. Kept(s)
    BY <2>1, <2>2, Undisturbed DEF Kept, Up
  <2>5. QED
    BY <1>1, <2>1, <2>3, <2>4
<1>7. ASSUME NEW s \in Servers, End(s) PROVE Local
  <2>1. /\ \A v \in Servers : main[v] = "dead" => main'[v] = "dead"
        /\ main'[s] = "dead" /\ view'[s] = {} /\ sucessor_path'[s] = None
    BY <1>7, <1>0 DEF TypeOK, End
  <2>2. \A u \in Servers \ {s} : Kept(u)
    BY <1>2, <1>7, <2>1, <1>0 DEF TypeOK, End
  <2>3. Kept(s)
    BY <2>1 DEF Kept, Handled, Linked, Current, Calm, Up
  <2>4. QED
    BY <1>1, <1>7, <2>2, <2>3 DEF End
<1>8. ASSUME NEW s \in Servers, Expire(s) PROVE Local
  <2>1. /\ main[s] = "dead"
        /\ children' = children \ {s}
        /\ \A u \in Servers : events'[u] = 0 => events[u] = 0 /\ ~(watch[u] /\ Up(u))
        /\ UNCHANGED <<born, created, watcherVars, mainVars, main, server_pos,
                       sucessor_server, raced, failed>>
    BY <1>8, <1>0 DEF Expire, ChildrenBecome, TypeOK
  <2>2. ASSUME NEW u \in Servers PROVE Kept(u)
    <3>1. Calm(u)' => Calm(u) /\ Up(u)
      BY <2>1 DEF Calm, Up
    <3>2. Place(view[u], u)' = Place(view[u], u)
      BY <2>1 DEF Place, Older
    <3>3. Handled(u)'
      BY <2>1, <1>0 DEF Handled
    <3>4. Linked(u)'
      BY <2>1, <3>1, <3>2, <1>0 DEF Linked, Nearest
    <3>5. Current(u)'
      BY <2>1, <3>1, <1>0 DEF Current
    <3>6. QED
      BY <3>3, <3>4, <3>5 DEF Kept
  <2>3. QED
    BY <1>1, <2>1, <2>2
<1>9. ASSUME NEW s \in Servers, WatcherRead(s) PROVE Local
  <2>1. /\ main[s] \notin {"off", "dead"} /\ events[s] > 0
        /\ watcher' = [watcher EXCEPT ![s] = IF children = {} THEN "idle" ELSE "place"]
        /\ watcher[s] = "idle"
        /\ view' = [view EXCEPT ![s] = children]
        /\ events' = [events EXCEPT ![s] = events[s] - 1]
        /\ watch' = [watch EXCEPT ![s] = TRUE]
        /\ raced' = [raced EXCEPT ![s] = raced[s] \/ main[s] \in {"read", "placed"}]
        /\ UNCHANGED <<zkVars, sucessor_path, main, server_pos, sucessor_server, failed>>
    BY <1>9 DEF WatcherRead, WatcherStep, Arm, Up
  <2>2. \A u \in Servers \ {s} : Kept(u)
    BY <1>2, <2>1, <1>0 DEF TypeOK
  <2>3. view'[s] = children /\ watch'[s] = TRUE /\ main[s] # "created"
    BY <2>1, <1>0 DEF TypeOK, Quiet
  <2>4. Handled(s)'
    BY <2>1, <2>3, <1>0 DEF Handled, TypeOK
  <2>5. ASSUME Calm(s)' PROVE Linked(s)' /\ Current(s)'
    <3>1. Calm(s) /\ main[s] \notin {"read", "placed"} /\ watcher'[s] = "place"
      BY <2>1, <2>5, <1>0 DEF Calm, Up, TypeOK
    <3>2. \A t : Nearest(s, t) => Nearest(s, t)'
      BY <2>1, <2>3 DEF Nearest
    <3>3. Linked(s)
      BY <1>0
    <3>4. sucessor_server[s] \in children =>
            sucessor_path'[s] = sucessor_server'[s] /\ Nearest(s, sucessor_server[s])'
      BY <2>1, <3>1, <3>2, <3>3 DEF Linked
    <3>5. sucessor_server[s] \notin {None, sucessor_path[s]} =>
            sucessor_path[s] \notin children
      BY <2>1, <3>1, <3>3 DEF Linked
    <3>6. Linked(s)'
      BY <2>1, <2>3, <3>1, <3>4, <3>5 DEF Linked
    <3>7. Current(s)'
      BY <2>1, <2>3, <3>1 DEF Current
    <3>8. QED
      BY <3>6, <3>7
  <2>6. QED
    BY <1>1, <2>1, <2>2, <2>4, <2>5 DEF Kept, Linked, Current
<1>10. ASSUME NEW s \in Servers, WatcherPlace(s) PROVE Local
  <2>1. /\ main[s] \notin {"off", "dead"} /\ watcher[s] = "place"
        /\ watcher' = [watcher EXCEPT ![s] = "choose"]
        /\ UNCHANGED <<zkVars, view, sucessor_path, watch, events, main,
                       sucessor_server, raced, failed>>
    BY <1>10 DEF WatcherPlace, WatcherStep, Up
  <2>2. \A u \in Servers \ {s} : server_pos'[u] = server_pos[u]
    BY <1>10, <1>0 DEF WatcherPlace, FindPosition, TypeOK
  <2>3. \A u \in Servers \ {s} : Kept(u)
    BY <1>2, <2>1, <2>2, <1>0 DEF TypeOK
  <2>4. watcher'[s] = "choose"
    BY <2>1, <1>0 DEF TypeOK
  <2>5. ASSUME Calm(s) PROVE server_pos'[s] = Place(view[s], s)'
    <3>1. s \in view[s]
      BY <2>1, <2>5, CalmNumbered
    <3>2. Place(view[s], s)' = Place(view[s], s)
      BY <2>1 DEF Place, Older
    <3>3. QED
      BY <1>10, <3>1, <3>2, <1>0 DEF WatcherPlace, FindPosition, TypeOK
  <2>6. Calm(s)' <=> Calm(s)
    BY <2>1 DEF Calm, Up
  <2>7. Handled(s)'
    BY <2>1, <2>4, <1>0 DEF Handled
  <2>8. Linked(s)'
    BY <2>1, <2>4, <2>5, <2>6, <1>0 DEF Linked, Nearest
  <2>9. Current(s)'
    BY <2>1, <2>4, <2>6, <1>0 DEF Current
  <2>10. QED
    BY <1>1, <2>1, <2>3, <2>7, <2>8, <2>9 DEF Kept
<1>11. ASSUME NEW s \in Servers, WatcherGet(s) PROVE Local
  <2>1. /\ main[s] \notin {"off", "dead"} /\ watcher[s] = "get"
        /\ watcher' = [watcher EXCEPT ![s] = IF sucessor_path[s] \in children
                                             THEN "connect" ELSE "idle"]
        /\ UNCHANGED <<zkVars, view, sucessor_path, watch, events, main, server_pos,
                       sucessor_server, raced, failed>>
    BY <1>11 DEF WatcherGet, WatcherStep, Up
  <2>2. \A u \in Servers \ {s} : Kept(u)
    BY <1>2, <2>1, <1>0 DEF TypeOK
  <2>3. watcher'[s] = IF sucessor_path[s] \in children THEN "connect" ELSE "idle"
    BY <2>1, <1>0 DEF TypeOK
  <2>4. Calm(s)' <=> Calm(s)
    BY <2>1 DEF Calm, Up
  <2>5. Handled(s)' /\ view[s] = {}
    BY <2>1, <2>3, <1>0 DEF Handled
  <2>6. Linked(s)'
    BY <2>1, <2>3, <2>4, <2>5, <1>0 DEF Linked, Nearest
  <2>7. Current(s)'
    BY <2>1, <2>3, <2>4, <1>0 DEF Current
  <2>8. QED
    BY <1>1, <2>1, <2>2, <2>5, <2>6, <2>7 DEF Kept
<1>12. ASSUME NEW s \in Servers, WatcherConnect(s) PROVE Local
  <2>1. /\ main[s] \notin {"off", "dead"} /\ watcher[s] = "connect"
        /\ watcher' = [watcher EXCEPT ![s] = "idle"]
        /\ sucessor_server' = [sucessor_server EXCEPT ![s] =
                                 IF Up(sucessor_path[s]) THEN sucessor_path[s] ELSE None]
        /\ UNCHANGED <<zkVars, view, sucessor_path, watch, events, main, server_pos, raced, failed>>
    BY <1>12 DEF WatcherConnect, WatcherStep, Up, Connects
  <2>2. \A u \in Servers \ {s} : Kept(u)
    BY <1>2, <2>1, <1>0 DEF TypeOK
  <2>3. /\ watcher'[s] = "idle"
        /\ sucessor_server'[s] = IF Up(sucessor_path[s]) THEN sucessor_path[s] ELSE None
    BY <2>1, <1>0 DEF TypeOK
  <2>4. Calm(s)' <=> Calm(s)
    BY <2>1 DEF Calm, Up
  <2>5. Handled(s)' /\ view[s] = {} /\ sucessor_path[s] \in Servers
    BY <2>1, <2>3, <1>0 DEF Handled, Named
  <2>6. ASSUME Calm(s) PROVE Linked(s)' /\ Current(s)'
    <3>1. /\ Nearest(s, sucessor_path[s]) /\ main[s] \notin {"read", "placed"}
          /\ events[s] = 0 /\ main[s] # "created" => watch[s] /\ sucessor_path[s] \in children
      BY <2>1, <2>6, <1>0 DEF Linked, Current
    <3>2. Nearest(s, sucessor_path[s])'
      BY <2>1, <3>1 DEF Nearest
    <3>3. None \notin children
      BY <1>0, MembershipAssumption DEF TypeOK
    <3>4. Linked(s)'
      BY <2>1, <2>3, <2>5, <3>1, <3>2, <3>3 DEF Linked
    <3>5. ASSUME sucessor_path[s] \in children, ~Up(sucessor_path[s]), NEW t \in children,
                 born[t] > born[s]
          PROVE  \E u \in children : born[u] > born[s] /\ born[u] <= born[t] /\ main[u] = "dead"
      <4>1. born[sucessor_path[s]] > born[s]
        BY <2>1, <2>6, CalmNumbered
      <4>2. main[sucessor_path[s]] = "dead"
        BY <2>5, <3>5, <1>0 DEF Up, Numbered, TypeOK
      <4>3. born[sucessor_path[s]] <= born[t]
        BY <3>1, <3>5, <2>5, <1>0 DEF Nearest, TypeOK
      <4>4. QED
        BY <3>5, <4>1, <4>2, <4>3
    <3>6. sucessor_path[s] # None
      BY <2>5, MembershipAssumption
    <3>7. Current(s)'
      BY <2>1, <2>3, <3>1, <3>5, <3>6 DEF Current
    <3>8. QED
      BY <3>4, <3>7
  <2>7. QED
    BY <1>1, <2>1, <2>2, <2>4, <2>5, <2>6 DEF Kept, Linked, Current
<1>13. ASSUME NEW s \in Servers, WatcherChoose(s) PROVE Local
  <2>1. /\ main[s] \notin {"off", "dead"} /\ watcher[s] = "choose"
        /\ view' = [view EXCEPT ![s] = {}]
        /\ UNCHANGED <<zkVars, watch, events, main, server_pos, raced, failed>>
    BY <1>13 DEF WatcherChoose, ChooseNext, ChooseNone, WatcherStep, Up
  <2>2. \A u \in Servers \ {s} : /\ watcher'[u] = watcher[u]
                                 /\ sucessor_path'[u] = sucessor_path[u]
                                 /\ sucessor_server'[u] = sucessor_server[u]
    BY <1>13, <1>0 DEF WatcherChoose, ChooseNext, ChooseNone, WatcherStep, TypeOK
  <2>3. \A u \in Servers \ {s} : Kept(u)
    BY <1>2, <2>1, <2>2, <1>0 DEF TypeOK
  <2>4. Calm(s)' <=> Calm(s)
    BY <2>1 DEF Calm, Up
  <2>5. view'[s] = {} /\ \A v \in view[s] : v \in Servers /\ born[v] > 0
    BY <2>1, <1>0 DEF TypeOK, Known
  <2>6. Handled(s)'
    BY <1>13, <2>1, <2>5, <1>0 DEF WatcherChoose, ChooseNext, ChooseNone, WatcherStep, TypeOK, Handled
  <2>7. ASSUME Calm(s), ChooseNext(s) PROVE Linked(s)' /\ Current(s)'
    <3>1. PICK t \in view[s] :
            /\ Place(view[s], t) = server_pos[s] + 1
            /\ IF sucessor_server[s] = None \/ sucessor_path[s] # t
               THEN /\ watcher' = [watcher EXCEPT ![s] = "get"]
                    /\ sucessor_path' = [sucessor_path EXCEPT ![s] = t]
               ELSE /\ watcher' = [watcher EXCEPT ![s] = "idle"]
                    /\ UNCHANGED sucessor_path
            /\ UNCHANGED sucessor_server
      BY <2>7 DEF ChooseNext, WatcherStep
    <3>2. born[t] > born[s] /\ \A u \in view[s] : born[u] > born[s] => born[u] >= born[t]
      BY <2>1, <2>7, <3>1, ChosenNext
    <3>3. \A u \in children : born[u] > born[s] => born[u] >= born[t]
      BY <2>1, <2>5, <2>7, <3>2, <1>0 DEF Linked, TypeOK
    <3>4. Nearest(s, t)'
      BY <2>1, <2>5, <3>3 DEF Nearest
    <3>5. main[s] \notin {"read", "placed"}
      BY <2>1, <2>7, <1>0 DEF Linked
    <3>6. ASSUME sucessor_server[s] \in children PROVE t = sucessor_server[s]
      <4>1. /\ sucessor_server[s] \in view[s] /\ Nearest(s, sucessor_server[s])
            /\ born[sucessor_server[s]] > born[s]
        <5>1. sucessor_server[s] # None
          BY <3>6, <1>0, MembershipAssumption DEF TypeOK
        <5>2. QED
          BY <2>1, <2>7, <3>6, <5>1, CalmNumbered, <1>0 DEF Linked
      <4>2. born[sucessor_server[s]] >= born[t] /\ born[t] >= born[sucessor_server[s]]
        BY <3>2, <4>1 DEF Nearest
      <4>3. born[sucessor_server[s]] = born[t]
        BY <2>5, <4>1, <4>2, <1>0 DEF TypeOK
      <4>4. QED
        BY <2>5, <4>1, <4>3 DEF Links, Distinct
    <3>7. sucessor_server[s] \in children => sucessor_path[s] = sucessor_server[s]
      BY <2>7, <1>0 DEF Linked
    <3>8. /\ sucessor_server[s] \notin {None, sucessor_path[s]} => sucessor_path[s] # t
          /\ events[s] = 0 /\ main[s] # "created" => watch[s] /\ t \in children
      BY <2>1, <2>7, <1>0 DEF Linked, Current
    <3>9. None \notin children
      BY <1>0, MembershipAssumption DEF TypeOK
    <3>10. CASE sucessor_server[s] = None \/ sucessor_path[s] # t
      <4>1. watcher'[s] = "get" /\ sucessor_path'[s] = t /\ sucessor_server'[s] = sucessor_server[s]
        BY <3>1, <3>10, <1>0 DEF TypeOK
      <4>2. sucessor_server[s] \notin children
        BY <3>6, <3>7, <3>9, <3>10
      <4>3. Linked(s)'
        BY <2>1, <3>4, <3>5, <4>1, <4>2 DEF Linked
      <4>4. Current(s)'
        BY <2>1, <3>8, <4>1 DEF Current
      <4>5. QED
        BY <4>3, <4>4
    <3>11. CASE ~(sucessor_server[s] = None \/ sucessor_path[s] # t)
      <4>1. /\ watcher'[s] = "idle" /\ sucessor_path'[s] = t /\ sucessor_path[s] = t
            /\ sucessor_server'[s] = t
        BY <3>1, <3>8, <3>11, <1>0 DEF TypeOK
      <4>2. Linked(s)'
        BY <2>1, <2>5, <3>4, <3>5, <4>1 DEF Linked
      <4>3. t # None
        BY <2>5, MembershipAssumption
      <4>4. Current(s)'
        BY <2>1, <3>8, <4>1, <4>3 DEF Current
      <4>5. QED
        BY <4>2, <4>4
    <3>12. QED
      BY <3>10, <3>11
  <2>8. ASSUME Calm(s), ChooseNone(s) PROVE Linked(s)' /\ Current(s)'
    <3>1. /\ server_pos[s] + 1 >= Cardinality(view[s])
          /\ watcher'[s] = "idle" /\ sucessor_server'[s] = None
          /\ UNCHANGED sucessor_path
      BY <2>8, <1>0 DEF ChooseNone, WatcherStep, TypeOK
    <3>2. \A t \in view[s] : born[t] <= born[s]
      BY <2>1, <2>8, <3>1, ChosenNone
    <3>3. None \notin children
      BY <1>0, MembershipAssumption DEF TypeOK
    <3>4. main[s] \notin {"read", "placed"}
      BY <2>1, <2>8, <1>0 DEF Linked
    <3>5. Linked(s)'
      BY <2>1, <3>1, <3>3, <3>4 DEF Linked
    <3>6. events[s] = 0 /\ main[s] # "created" => watch[s] /\ view[s] = children
      BY <2>1, <2>8, <1>0 DEF Current
    <3>7. \A t \in children : view[s] = children => ~(born[t] > born[s])
      BY <2>5, <3>2, <1>0 DEF TypeOK
    <3>8. Current(s)'
      BY <2>1, <3>1, <3>6, <3>7 DEF Current
    <3>9. QED
      BY <3>5, <3>8
  <2>9. Linked(s)' /\ Current(s)'
    BY <1>13, <2>4, <2>7, <2>8 DEF WatcherChoose, Linked, Current
  <2>10. QED
    BY <1>1, <2>1, <2>3, <2>6, <2>9 DEF Kept
<1>14. ASSUME UNCHANGED vars PROVE Local
  BY <1>1, <1>2, <1>14 DEF vars
<1>15. ASSUME NEW s \in Servers, SetTableFails(s) \/ Crash(s) PROVE Local
  <2>1. End(s)
    BY <1>15 DEF SetTableFails, Crash
  <2>2. QED
    BY <1>7, <2>1
\* A server one of whose calls failed is no longer calm.
<1>16. ASSUME NEW s \in Servers,
             SetServerFails(s) \/ (WatcherReadFails(s) /\ ~End(s)) \/ WatcherGetFails(s)
               \/ WatcherConnectFails(s)
      PROVE  Local
  <2>1. /\ failed' = [failed EXCEPT ![s] = TRUE]
        /\ UNCHANGED <<zkVars, view, sucessor_path, watch, server_pos, raced>>
        /\ main' = main \/ (main[s] = "created" /\ main' = [main EXCEPT ![s] = "set"])
        /\ watcher' = watcher
             \/ (watcher[s] \in {"get", "connect"} /\ watcher' = [watcher EXCEPT ![s] = "idle"])
        /\ events' = events \/ events' = [events EXCEPT ![s] = events[s] - 1]
        /\ sucessor_server' = sucessor_server
             \/ sucessor_server' = [sucessor_server EXCEPT ![s] = None]
    BY <1>16 DEF SetServerFails, WatcherReadFails, WatcherGetFails, WatcherConnectFails,
       Step, WatcherStep
  <2>2. \A v \in Servers : main[v] = "dead" => main'[v] = "dead"
    BY <2>1, <1>0 DEF TypeOK
  <2>3. \A u \in Servers \ {s} : Kept(u)
    BY <1>2, <2>1, <2>2, <1>0 DEF TypeOK
  <2>4. ~Calm(s)'
    BY <2>1, <1>0 DEF Calm, TypeOK
  <2>5. Handled(s)'
    BY <2>1, <1>0 DEF Handled, TypeOK
  <2>6. QED
    BY <1>1, <2>1, <2>3, <2>4, <2>5 DEF Kept, Linked, Current
<1>17. Local
  BY <1>3, <1>4, <1>5, <1>6, <1>7, <1>8, <1>9, <1>10, <1>11, <1>12, <1>13, <1>14, <1>15,
     <1>16 DEF Next, Main, Watcher
<1>18. QED
  BY <1>0, <1>17

\* When every change of /chain has been handled, a calm server is linked to the
\* znode after its own, or to nobody if it is the last (my_watcher_fn).
THEOREM SettledLinkedAlways == Spec => []SettledLinked
<1>1. Links => SettledLinked
  <2> SUFFICES ASSUME Links, AtRest, NEW s \in Servers, Calm(s)
               PROVE  IF sucessor_server[s] = None
                      THEN \A t \in children : born[t] <= born[s]
                      ELSE IsNext(s, sucessor_server[s])
    BY DEF SettledLinked
  <2>1. /\ Linked(s) /\ Current(s) /\ children \subseteq Servers /\ Up(s)
        /\ \A t \in Servers : born[t] \in Nat
    BY DEF Links, Younger, TInv, TypeOK, Calm
  <2>2. /\ main[s] # "created" /\ events[s] = 0 /\ watcher[s] = "idle"
        /\ \A u \in children : main[u] # "dead"
    BY <2>1 DEF AtRest
  <2>3. CASE sucessor_server[s] = None
    BY <2>1, <2>2, <2>3 DEF Current
  <2>4. CASE sucessor_server[s] # None
    <3>1. sucessor_server[s] \in children /\ born[sucessor_server[s]] > born[s]
      BY <2>1, <2>2, <2>4, CalmNumbered DEF Current
    <3>2. Nearest(s, sucessor_server[s])
      BY <2>1, <3>1 DEF Linked
    <3>3. QED
      BY <2>4, <3>1, <3>2 DEF IsNext, Nearest
  <2>5. QED
    BY <2>3, <2>4
<1>2. QED
  BY InitLinks, StepLinks, <1>1, PTL DEF Spec

\* my_watcher_fn gives a successor up, for another or for none, only when its
\* znode is gone.
THEOREM KeepsLiveSuccessorAlways == Spec => KeepsLiveSuccessor
<1> DEFINE Kept == \A s \in Servers :
             Calm(s)' /\ sucessor_server'[s] # sucessor_server[s] /\ sucessor_server[s] # None
               => sucessor_server[s] \notin children'
<1>1. Links /\ [Next]_vars => [Kept]_vars
  <2> SUFFICES ASSUME Links, Next PROVE Kept
    BY DEF vars
  <2>1. SUFFICES ASSUME NEW s \in Servers, Calm(s)', sucessor_server[s] # None,
                        sucessor_server'[s] # sucessor_server[s],
                        sucessor_server[s] \in children'
                 PROVE  FALSE
    OBVIOUS
  <2>2. /\ Linked(s) /\ TypeOK /\ Quiet
    BY DEF Links, Younger, TInv
  <2>3. PICK u \in Servers : Main(u) \/ Watcher(u) \/ Crash(u) \/ Expire(u)
    BY DEF Next
  <2>4. CASE End(u)
    BY <2>1, <2>2, <2>4 DEF End, Calm, Up, TypeOK
  <2>5. CASE SetServerClear(u)
    <3>1. Calm(s)
      BY <2>1, <2>5 DEF SetServerClear, Step, Calm, Up, zkVars, histories
    <3>2. u = s /\ main[s] = "placed"
      BY <2>1, <2>2, <2>5 DEF SetServerClear, Step, TypeOK
    <3>3. QED
      BY <2>1, <2>2, <3>1, <3>2 DEF Linked
  <2>6. CASE WatcherChoose(u)
    <3>1. /\ u = s /\ ChooseNone(s) /\ watcher[s] = "choose"
          /\ UNCHANGED <<children, main, raced, failed>>
      BY <2>1, <2>2, <2>6 DEF WatcherChoose, ChooseNext, ChooseNone, WatcherStep, TypeOK, zkVars, histories
    <3>2. Calm(s)
      BY <2>1, <3>1 DEF Calm, Up
    <3>3. sucessor_server[s] \in view[s] /\ born[sucessor_server[s]] > born[s]
      BY <2>1, <2>2, <3>1, <3>2, CalmNumbered DEF Linked
    <3>4. born[sucessor_server[s]] <= born[s]
      BY <3>1, <3>2, <3>3, ChosenNone DEF ChooseNone
    <3>5. QED
      BY <2>2, <3>3, <3>4, <2>1 DEF TypeOK
  <2>7. CASE WatcherConnect(u)
    <3>1. /\ u = s /\ watcher[s] = "connect" /\ UNCHANGED <<children, main, raced, failed>>
      BY <2>1, <2>2, <2>7 DEF WatcherConnect, WatcherStep, TypeOK, zkVars, histories
    <3>2. Calm(s)
      BY <2>1, <3>1 DEF Calm, Up
    <3>3. QED
      BY <2>1, <2>2, <3>1, <3>2 DEF Linked
  <2>8. CASE WatcherConnectFails(u)
    BY <2>1, <2>2, <2>8 DEF WatcherConnectFails, WatcherStep, Calm, TypeOK
  <2>9. sucessor_server' = sucessor_server \/ End(u) \/ SetServerClear(u)
          \/ WatcherChoose(u) \/ WatcherConnect(u) \/ WatcherConnectFails(u)
    BY <2>3 DEF Main, Watcher, Connect, SetServerRead, SetServerFails, ReadChildren,
       SetServerPlace, SetTable, SetTableRead, SetTablePick, SetTableConnect, SetTableCopy,
       SetTableFails, Crash, Expire, WatcherRead, WatcherReadFails, WatcherPlace,
       WatcherGet, WatcherGetFails
  <2>10. QED
    BY <2>1, <2>4, <2>5, <2>6, <2>7, <2>8, <2>9
<1>2. QED
  BY InitLinks, StepLinks, <1>1, PTL DEF Spec, KeepsLiveSuccessor
=============================================================================
