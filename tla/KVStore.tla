------------------------------ MODULE KVStore ------------------------------
(***************************************************************************)
(* What the replicated hash table promises to its clients, whatever the    *)
(* number of servers: one table, on which every put, del and get takes     *)
(* effect at one instant between the moment the client sends it and the    *)
(* moment the client reads the answer (the contracts of rtable_put,        *)
(* rtable_get and rtable_del in client_stub.h).                            *)
(***************************************************************************)
CONSTANTS Clients,   \* client processes
          Keys, Values,
          Absent,    \* what a get of a missing key finds
          None       \* no command, or no answer yet

VARIABLES store,     \* the one table
          pending,   \* the command each client waits for
          response   \* its answer, from the instant it took effect

kvVars == <<store, pending, response>>

Commands == [op : {"put"}, key : Keys, val : Values]
              \cup [op : {"del", "get"}, key : Keys, val : {Absent}]

KVInit ==
  /\ store = [k \in Keys |-> Absent]
  /\ pending = [c \in Clients |-> None]
  /\ response = [c \in Clients |-> None]

Send(c, m) ==
  /\ pending[c] = None
  /\ pending' = [pending EXCEPT ![c] = m]
  /\ UNCHANGED <<store, response>>

Respond(c, r) ==
  /\ pending[c] # None
  /\ response[c] = None
  /\ response' = [response EXCEPT ![c] = r]
  /\ UNCHANGED pending

TakesEffect(c) == LET m == pending[c] IN
  \/ /\ pending[c] # None /\ m.op = "put"
     /\ store' = [store EXCEPT ![m.key] = m.val]
     /\ Respond(c, "ok")
  \/ /\ pending[c] # None /\ m.op = "del" /\ store[m.key] # Absent
     /\ store' = [store EXCEPT ![m.key] = Absent]
     /\ Respond(c, "ok")
  \/ /\ pending[c] # None /\ m.op = "del" /\ store[m.key] = Absent
     /\ Respond(c, "error")
     /\ UNCHANGED store
  \/ /\ pending[c] # None /\ m.op = "get"
     /\ Respond(c, store[m.key])
     /\ UNCHANGED store

Return(c) ==
  /\ response[c] # None
  /\ pending' = [pending EXCEPT ![c] = None]
  /\ response' = [response EXCEPT ![c] = None]
  /\ UNCHANGED store

KVNext == \E c \in Clients :
  \/ \E m \in Commands : Send(c, m)
  \/ TakesEffect(c)
  \/ Return(c)

KVSpec == KVInit /\ [][KVNext]_kvVars
=============================================================================
