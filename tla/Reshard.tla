--------------------------------- MODULE Reshard ---------------------------------
(***************************************************************************)
(* A slot moves from one master to another while clients use its keys:     *)
(* redis-trib's move_slot, CLUSTER SETSLOT, MIGRATE and RESTORE, and the   *)
(* redirections of getNodeByQuery.  The nodes are those of Cluster: they   *)
(* exchange PONGs, and may be restarted with the keys they have.           *)
(*                                                                         *)
(* One client at a time runs a command on some keys of the slot, at any    *)
(* node, and follows MOVED and ASK until it is served.                     *)
(***************************************************************************)
EXTENDS Cluster

CONSTANTS
    Slot,           \* the slot that is moved
    Keys,           \* the keys of that slot
    Source, Target,
    ErrorLimit,     \* bound: MIGRATEs that fail
    MaxWrites       \* bound: writes, which are numbered

ASSUME ReshardAssumption ==
    /\ Slot \in Slots /\ Source \in Nodes /\ Target \in Nodes \ {Source}
    /\ IsFiniteSet(Keys) /\ {ErrorLimit, MaxWrites} \subseteq Nat

VARIABLES
    data,       \* data[n][k]: the value of k at node n, or Null
    latest,     \* latest[k]: the value of the last write that was served
    client,     \* the command that is being served, or Null
    missed,     \* history: a client has been told something else than latest
    trib,       \* where redis-trib is
    toClose,    \* the nodes that redis-trib has still to tell of the new owner
    errors,     \* number of failed MIGRATEs
    writes      \* number of writes

reshardVars == <<data, latest, client, missed, trib, toClose, errors, writes>>
allVars == <<vars, reshardVars>>

KeysAt(n) == {k \in Keys : data[n][k] # Null}

-----------------------------------------------------------------------------
\* CLUSTER SETSLOT.

\* SETSLOT Slot MIGRATING x | IMPORTING x at node n.
SetslotFlag(st, n, x, how) ==
    CASE how = "migrating" /\ st.slots[Slot] = n -> [st EXCEPT !.migrating[Slot] = x]
      [] how = "importing" /\ st.slots[Slot] # n -> [st EXCEPT !.importing[Slot] = x]
      [] OTHER -> st

\* SETSLOT Slot NODE x at node n, which has keys of the slot or is empty.  The
\* new owner starts an epoch on its own.
SetslotNode(st, n, x, empty) ==
    LET closed == IF empty THEN [st EXCEPT !.migrating[Slot] = Null] ELSE st
        imported == x = n /\ st.importing[Slot] # Null
        bump == imported /\ (\/ st.known[n].configEpoch = 0
                             \/ st.known[n].configEpoch # clusterGetMaxEpoch(st))
        e == st.currentEpoch + 1
        bumped == IF bump THEN [closed EXCEPT !.currentEpoch = e, !.known[n].configEpoch = e]
                  ELSE closed
    IN IF st.slots[Slot] = n /\ x # n /\ ~empty THEN st
       ELSE SetSlots(IF imported THEN [bumped EXCEPT !.importing[Slot] = Null] ELSE bumped,
                     {Slot}, x)

\* A command of CLUSTER takes node n to st.
ClusterCommand(n, st) ==
    /\ Step(n, Result(Todo(st, {"save", "update"})), "wait", net)
    /\ UNCHANGED <<layout, forgot, events>>

-----------------------------------------------------------------------------
\* redis-trib.

\* The slot is importing at the target before it is migrating at the source.
TribOpen ==
    /\ \/ /\ trib = "import" /\ trib' = "migrate"
          /\ ClusterCommand(Target, SetslotFlag(cn[Target], Target, Source, "importing"))
       \/ /\ trib = "migrate" /\ trib' = "keys"
          /\ ClusterCommand(Source, SetslotFlag(cn[Source], Source, Target, "migrating"))
    /\ UNCHANGED <<data, latest, client, missed, toClose, errors, writes>>

\* RESTORE-ASKING of a value, without REPLACE or with it.
restoreCommand(there, k, v, replace) ==
    IF there[k] # Null /\ ~replace THEN there ELSE [there EXCEPT ![k] = v]

\* Wrong: the key is deleted although the target did not answer.
migrateDeletes(k, replace, error) ==
    LET restored == restoreCommand(data[Target], k, data[Source][k], replace)
    IN [data EXCEPT ![Target] = IF error = "write" THEN @ ELSE restored, ![Source][k] = Null]

\* MIGRATE of one key.  error: the target was not reached ("write"), or it has
\* restored the key and its answer did not arrive ("read").  A socket that was
\* closed is retried once and finds the key busy: the same as "read".
migrateCommand(k, replace, error) ==
    LET restored == restoreCommand(data[Target], k, data[Source][k], replace)
        busy == data[Target][k] # Null /\ ~replace
    IN CASE error = "write" -> data
         [] error = "read" -> [data EXCEPT ![Target] = restored]
         [] error = "no" /\ busy -> data
         [] OTHER -> [data EXCEPT ![Target] = restored, ![Source][k] = Null]

\* redis-trib ends at an error, unless it was told to fix a busy key.
TribMigrate(k, error) ==
    LET busy == data[Target][k] # Null
        to == cn[Source].migrating[Slot]
    IN /\ trib \in {"keys", "fix"} /\ k \in KeysAt(Source) /\ to = Target
       /\ errors + (IF error = "no" THEN 0 ELSE 1) <= ErrorLimit
       /\ data' = migrateCommand(k, trib = "fix", error)
       /\ trib' = IF error = "no" /\ (~busy \/ trib = "fix") THEN trib ELSE "dead"
       /\ errors' = errors + IF error = "no" THEN 0 ELSE 1
       /\ UNCHANGED <<vars, latest, client, missed, toClose, writes>>

\* The administrator runs redis-trib fix.
TribFix ==
    /\ trib = "dead" /\ trib' = "fix"
    /\ UNCHANGED <<vars, data, latest, client, missed, toClose, errors, writes>>

\* SETSLOT NODE at every node, in any order, once the source has no key left.
TribClose(n) ==
    /\ trib \in {"keys", "fix", "close"} /\ n \in toClose
    /\ trib = "close" \/ KeysAt(Source) = {}
    /\ trib' = "close" /\ toClose' = toClose \ {n}
    /\ ClusterCommand(n, SetslotNode(cn[n], n, Target, KeysAt(n) = {}))
    /\ UNCHANGED <<data, latest, client, missed, errors, writes>>

-----------------------------------------------------------------------------
\* Clients.

\* Wrong: a node that imports the slot serves every client.
QueryServesImported(n, keys, asking) ==
    LET st == cn[n]
        missing == keys \ KeysAt(n)
    IN IF st.slots[Slot] = n /\ st.migrating[Slot] # Null /\ missing # {}
       THEN [code |-> "ASK", node |-> st.migrating[Slot]]
       ELSE IF st.importing[Slot] # Null THEN [code |-> "NONE", node |-> n]
       ELSE [code |-> IF st.slots[Slot] = n THEN "NONE" ELSE "MOVED", node |-> st.slots[Slot]]

\* The node that serves a command on these keys, as node n sees it.
getNodeByQuery(n, keys, asking) ==
    LET st == cn[n]
        missing == keys \ KeysAt(n)
        mine == st.slots[Slot] = n
        migrating == mine /\ st.migrating[Slot] # Null
        importing == ~migrating /\ st.importing[Slot] # Null
    IN IF st.slots[Slot] = Null THEN [code |-> "DOWN", node |-> n]
       ELSE IF migrating /\ missing # {} THEN [code |-> "ASK", node |-> st.migrating[Slot]]
       ELSE IF importing /\ asking
       THEN [code |-> IF Cardinality(keys) > 1 /\ missing # {} THEN "UNSTABLE" ELSE "NONE",
             node |-> n]
       ELSE [code |-> IF mine THEN "NONE" ELSE "MOVED", node |-> st.slots[Slot]]

Ask(op, keys, n) ==
    /\ client = Null
    /\ op # "get" => Cardinality(keys) = 1 /\ writes < MaxWrites
    /\ client' = [op |-> op, keys |-> keys, at |-> n, asking |-> FALSE]
    /\ writes' = writes + IF op = "get" THEN 0 ELSE 1
    /\ UNCHANGED <<vars, data, latest, missed, trib, toClose, errors>>

\* The client is redirected, or told to try again (UNSTABLE, DOWN).
Redirect ==
    /\ client # Null
    /\ LET q == getNodeByQuery(client.at, client.keys, client.asking)
       IN /\ q.code # "NONE"
          /\ client' = [client EXCEPT !.at = q.node,
                                      !.asking = q.code = "ASK"]
    /\ UNCHANGED <<vars, data, latest, missed, trib, toClose, errors, writes>>

\* The command runs here.  writes is the value of a SET, Null that of a DEL.
Serve ==
    /\ client # Null
    /\ getNodeByQuery(client.at, client.keys, client.asking).code = "NONE"
    /\ LET n == client.at
           new == IF client.op = "set" THEN writes ELSE Null
           put(f) == [k \in Keys |-> IF k \in client.keys THEN new ELSE f[k]]
       IN IF client.op = "get"
          THEN /\ missed' = (missed \/ \E k \in client.keys :
                               /\ data[n][k] # latest[k]
                               /\ errors = 0 \/ (latest[k] # Null /\ client.keys = {k}))
               /\ UNCHANGED <<data, latest>>
          ELSE /\ data' = [data EXCEPT ![n] = put(@)]
               /\ latest' = put(latest)
               /\ UNCHANGED missed
    /\ client' = Null
    /\ UNCHANGED <<vars, trib, toClose, errors, writes>>

-----------------------------------------------------------------------------
\* A master that starts with keys of a slot of which it is not the owner.
verifyClusterConfigWithData(st, n) ==
    LET stray == IsMaster(st, n) /\ KeysAt(n) # {} /\ st.slots[Slot] # n
                 /\ st.importing[Slot] = Null
    IN IF ~stray THEN st
       ELSE IF st.slots[Slot] = Null THEN clusterSaveConfig(SetSlots(st, {Slot}, n))
       ELSE clusterSaveConfig([st EXCEPT !.importing[Slot] = st.slots[Slot]])

RestartWithData(n) ==
    /\ Event("restart", n)
    /\ cn' = [cn EXCEPT ![n] = verifyClusterConfigWithData(clusterLoadConfig(@.disk), n)]
    /\ UNCHANGED <<layout, net, wins, forgot, reshardVars>>

\* A master that has lost the slot in this step deletes its keys of the slot
\* (clusterUpdateSlotsConfigWith), or becomes a slave and gets other ones.
DirtySlot(n) ==
    /\ data' = IF cn[n].slots[Slot] = n /\ cn'[n].slots[Slot] # n
               THEN [data EXCEPT ![n] = [k \in Keys |-> Null]] ELSE data
    /\ UNCHANGED <<latest, client, missed, trib, toClose, errors, writes>>

PongStep(n, s) == ReadPingStep(n, s, FALSE, FALSE, Null, FALSE) /\ DirtySlot(n)

UpdateStep(n, p) == ReadPacketStep(n, p, FALSE, "wait") /\ DirtySlot(n)

ReshardInit ==
    /\ Init
    /\ data = [n \in Nodes |-> [k \in Keys |-> IF n = Source THEN 0 ELSE Null]]
    /\ latest = [k \in Keys |-> 0]
    /\ client = Null /\ missed = FALSE /\ trib = "import"
    /\ toClose = layout.running /\ errors = 0 /\ writes = 0

ReshardNext ==
    \/ TribOpen
    \/ \E k \in Keys, error \in {"no", "read", "write"} : TribMigrate(k, error)
    \/ TribFix
    \/ \E op \in {"get", "set", "del"}, keys \in SUBSET Keys \ {{}}, n \in layout.running :
          Ask(op, keys, n)
    \/ Redirect
    \/ Serve
    \/ \E n \in layout.running :
          \/ TribClose(n)
          \/ RestartWithData(n)
          \/ \E s \in layout.running : PongStep(n, s)
          \/ \E p \in net : UpdateStep(n, p)

ReshardSpec == ReshardInit /\ [][ReshardNext]_allVars

-----------------------------------------------------------------------------
\* Properties.

\* A client that follows the redirections gets the last write of every key, at each
\* moment of the migration and after restarts.  After a MIGRATE that failed a key
\* may be at both nodes: then only a command on one key that exists is safe
\* (getNodeByQuery, migrateCommand, SETSLOT).
ReadsLatest == ~missed

\* No write that was served is lost: some node has it, even if MIGRATEs fail and
\* nodes restart (migrateCommand, clusterUpdateSlotsConfigWith).
NothingLost ==
    \A k \in Keys : latest[k] # Null => \E n \in layout.running : data[n][k] = latest[k]

=================================================================================
