--------------------------------- MODULE Cluster ---------------------------------
(***************************************************************************)
(* The nodes of a Redis Cluster (cluster.c): epochs, the owners of the     *)
(* slots, failure detection, the election of a slave, manual failover, the *)
(* administrator's commands, nodes.conf and restarts.                      *)
(*                                                                         *)
(* cn[n] is what node n knows: known[x] is its clusterNode for x, slots    *)
(* its slot table (a node's own bitmap is the inverse of it), auth and mf  *)
(* its automatic and manual failover, disk its file.  All nodes have met.  *)
(* A PING or PONG is read as it is sent; another packet is lost, or is in  *)
(* net for any time and read in any order.  A step is an                   *)
(* iteration of the event loop: one event, then clusterBeforeSleep.  Time, *)
(* offsets and the keys of a slot are free choices of the step that asks.  *)
(***************************************************************************)
EXTENDS Integers, FiniteSets

CONSTANTS
    Nodes, Slots,
    Null,               \* NULL
    Name,               \* Name[n]: the order of the node names
    Layouts,            \* the clusters that are looked at
    LateVotes,          \* whether a vote may be under way for auth_retry_time
    MaxEvents,          \* bound: restarts and commands
    MaxInFlight         \* bound: packets under way at a time

Kinds == {"failover", "force", "replicate", "restart"}

\* A cluster: the nodes that run (the others have no link), the master of each
\* node, the owner of each slot (a master) and the epochs at first, the nodes whose
\* pings may time out, the restarts and commands that happen, to which node, and a
\* bound for the epochs that are started.
ASSUME ClusterAssumption ==
    /\ IsFiniteSet(Nodes) /\ IsFiniteSet(Slots) /\ Null \notin Nodes
    /\ Name \in [Nodes -> Nat] /\ \A n, x \in Nodes : Name[n] = Name[x] => n = x
    /\ \A l \in Layouts :
         /\ l.running \subseteq Nodes /\ l.faulty \subseteq Nodes
         /\ l.master \in [Nodes -> Nodes \cup {Null}]
         /\ l.owner \in [Slots -> Nodes \cup {Null}] /\ l.epoch \in [Nodes -> Nat]
         /\ \A j \in Slots : l.owner[j] # Null => l.master[l.owner[j]] = Null
         /\ l.admin \subseteq Kinds \X Nodes /\ l.epochs \in Nat
    /\ LateVotes \in BOOLEAN /\ {MaxEvents, MaxInFlight} \subseteq Nat

VARIABLES
    layout,     \* the cluster, which does not change
    cn,         \* the nodes
    net,        \* packets under way
    wins,       \* history: every election won
    forgot,     \* history: a restart has lost a vote
    events      \* number of restarts and commands so far

vars == <<layout, cn, net, wins, forgot, events>>

-----------------------------------------------------------------------------
\* What a node knows.

IsMaster(st, x) == st.known[x].slaveof = Null
SlotsOf(st, x) == {j \in Slots : st.slots[j] = x}
Voters(st) == {x \in Nodes : IsMaster(st, x) /\ SlotsOf(st, x) # {}}
NeededQuorum(st) == (st.size \div 2) + 1
Larger(a, b) == IF a > b THEN a ELSE b

Todo(st, what) == [st EXCEPT !.todo = @ \cup what]

clusterGetMaxEpoch(st) ==
    CHOOSE e \in {st.currentEpoch} \cup {st.known[x].configEpoch : x \in Nodes} :
        /\ e >= st.currentEpoch
        /\ \A x \in Nodes : st.known[x].configEpoch <= e

\* Gives the slots in js to x (DelSlot and AddSlot).
SetSlots(st, js, x) == [st EXCEPT !.slots = [j \in Slots |-> IF j \in js THEN x ELSE @[j]]]

clusterCloseAllSlots(st) ==
    [st EXCEPT !.importing = [j \in Slots |-> Null], !.migrating = [j \in Slots |-> Null]]

NoManualFailover == [end |-> FALSE, can |-> FALSE, offset |-> FALSE, slave |-> Null]
resetManualFailover(st) == [st EXCEPT !.mf = NoManualFailover]

clusterSetNodeAsMaster(st, x) ==
    IF IsMaster(st, x) THEN st
    ELSE Todo([st EXCEPT !.known[x].slaveof = Null], {"save", "update"})

\* Makes this node a slave of x.
clusterSetMaster(st, n, x) ==
    resetManualFailover(
        [(IF IsMaster(st, n) THEN clusterCloseAllSlots(st) ELSE st)
            EXCEPT !.known[n].slaveof = x])

\* A master that was just started leaves its idea of the cluster as it is.
clusterUpdateState(st, n) ==
    IF IsMaster(st, n) /\ st.young THEN st
    ELSE [st EXCEPT !.size = Cardinality(Voters(st))]

clusterSaveConfig(st) ==
    [st EXCEPT !.disk = [currentEpoch |-> st.currentEpoch,
                         lastVoteEpoch |-> st.lastVoteEpoch, known |-> st.known,
                         slots |-> st.slots, importing |-> st.importing,
                         migrating |-> st.migrating]]

\* A node that has read its file.
clusterLoadConfig(disk) ==
    LET st == [currentEpoch |-> disk.currentEpoch, lastVoteEpoch |-> disk.lastVoteEpoch,
               known |-> disk.known, reports |-> [x \in Nodes |-> {}],
               slots |-> disk.slots, importing |-> disk.importing,
               migrating |-> disk.migrating,
               auth |-> [sent |-> "no", epoch |-> 0, count |-> 0],
               mf |-> NoManualFailover, size |-> 1, young |-> TRUE,
               todo |-> {}, disk |-> disk]
    IN [st EXCEPT !.currentEpoch = clusterGetMaxEpoch(st)]

-----------------------------------------------------------------------------
\* Packets.  A result of a handler is the node afterwards, the packets it
\* sends and whether it won an election.

Result(st) == [st |-> st, send |-> {}, win |-> FALSE]

clusterBuildMessageHdr(st, n) ==
    LET master == IF IsMaster(st, n) THEN n ELSE st.known[n].slaveof
    IN [sender |-> n, slaveof |-> st.known[n].slaveof, slots |-> SlotsOf(st, master),
        currentEpoch |-> st.currentEpoch, configEpoch |-> st.known[master].configEpoch,
        paused |-> IsMaster(st, n) /\ st.mf.end]

Packet(type, to, hdr, data) == [type |-> type, to |-> to, hdr |-> hdr, data |-> data]

clusterSendFail(st, n, about) ==
    {Packet("FAIL", x, clusterBuildMessageHdr(st, n), about) : x \in layout.running \ {n}}

clusterSendUpdate(st, n, to, x) ==
    Packet("UPDATE", to, clusterBuildMessageHdr(st, n),
           [node |-> x, configEpoch |-> st.known[x].configEpoch, slots |-> SlotsOf(st, x)])

\* A slave reads nothing but the epochs of this packet: a PING tells it as much.
clusterRequestFailoverAuth(st, n) ==
    {Packet("AUTH_REQUEST", x, clusterBuildMessageHdr(st, n), st.mf.end) :
        x \in {y \in layout.running \ {n} : IsMaster(st, y)}}

\* Epochs, and the offset of a paused master, which every packet carries.
ReadHeader(st, n, hdr) ==
    LET newer == hdr.configEpoch > st.known[hdr.sender].configEpoch
        paused == /\ st.mf.end /\ st.known[n].slaveof = hdr.sender /\ hdr.paused
        seen == [st EXCEPT !.currentEpoch = Larger(@, hdr.currentEpoch),
                           !.known[hdr.sender].configEpoch = Larger(@, hdr.configEpoch),
                           !.mf.offset = @ \/ paused]
    IN IF newer THEN Todo(seen, {"save"}) ELSE seen

\* Wrong: a slot that has no owner is not taken over.
StaleSlotsOwned(st, epoch, slots) ==
    {j \in slots : /\ st.importing[j] = Null
                   /\ st.slots[j] # Null /\ st.known[st.slots[j]].configEpoch < epoch}

\* The slots that a claim with this epoch takes over.
StaleSlots(st, epoch, slots) ==
    {j \in slots : /\ st.importing[j] = Null
                   /\ st.slots[j] # Null => st.known[st.slots[j]].configEpoch < epoch}

\* sender claims slots with this epoch.  A node whose master, or which itself,
\* loses its last slot in this way becomes a slave of the sender.
clusterUpdateSlotsConfigWith(st, n, sender, epoch, slots) ==
    LET curmaster == IF IsMaster(st, n) THEN n ELSE st.known[n].slaveof
        moved == {j \in StaleSlots(st, epoch, slots) : st.slots[j] # sender}
        lost == \E j \in moved : st.slots[j] = curmaster
        set == IF moved = {} THEN st
               ELSE Todo(SetSlots(st, moved, sender), {"save", "update"})
    IN IF sender = n THEN st
       ELSE IF lost /\ SlotsOf(set, curmaster) = {}
       THEN Todo(clusterSetMaster(set, n, sender), {"save", "update"})
       ELSE set

\* Two masters have the same epoch: the one with the smaller name takes a new one.
clusterHandleConfigEpochCollision(st, n, sender) ==
    IF /\ IsMaster(st, n) /\ IsMaster(st, sender)
       /\ st.known[sender].configEpoch = st.known[n].configEpoch
       /\ Name[sender] > Name[n]
    THEN clusterSaveConfig([st EXCEPT !.currentEpoch = @ + 1,
                                      !.known[n].configEpoch = st.currentEpoch + 1])
    ELSE st

\* The masters that report x as failing.
clusterNodeAddFailureReport(st, x, sender) == [st EXCEPT !.reports[x] = @ \cup {sender}]
clusterNodeDelFailureReport(st, x, sender) == [st EXCEPT !.reports[x] = @ \ {sender}]

\* late: whether all reports but the sender's, which is new, have expired.
clusterNodeCleanupFailureReports(st, x, sender, late) == IF late THEN {sender} ELSE st.reports[x]

markNodeAsFailingIfNeeded(st, n, sender, x, late) ==
    LET reports == clusterNodeCleanupFailureReports(st, x, sender, late)
        failures == Cardinality(reports) + IF IsMaster(st, n) THEN 1 ELSE 0
        failed == [st EXCEPT !.known[x].fail = "FAIL", !.reports[x] = reports]
    IN IF st.known[x].fail # "PFAIL" THEN Result(st)
       ELSE IF failures < NeededQuorum(st) THEN Result([st EXCEPT !.reports[x] = reports])
       ELSE [Result(Todo(failed, {"save", "update"})) EXCEPT
                !.send = IF IsMaster(st, n) THEN clusterSendFail(failed, n, x) ELSE {}]

\* The entry about x of a gossip section: the sender thinks it down, or not.
clusterProcessGossipSection(st, n, sender, x, down, late) ==
    IF ~IsMaster(st, sender) \/ x = n THEN Result(st)
    ELSE IF down
    THEN markNodeAsFailingIfNeeded(clusterNodeAddFailureReport(st, x, sender), n, sender, x, late)
    ELSE Result(clusterNodeDelFailureReport(st, x, sender))

\* A PONG answers a ping.  long: a master was down for long enough.
clearNodeFailureIfNeeded(st, x, long) ==
    IF \/ st.known[x].fail = "PFAIL"
       \/ /\ st.known[x].fail = "FAIL"
          /\ ~IsMaster(st, x) \/ SlotsOf(st, x) = {} \/ long
    THEN Todo([st EXCEPT !.known[x].fail = "NO"], {"save", "update"})
    ELSE st

\* Wrong: a master that became a slave keeps its slots in this node's view.
UpdateRoleKeepsSlots(st, hdr) ==
    LET s == hdr.sender
    IN IF hdr.slaveof = Null THEN clusterSetNodeAsMaster(st, s)
       ELSE IF st.known[s].slaveof = hdr.slaveof THEN st
       ELSE Todo([st EXCEPT !.known[s].slaveof = hdr.slaveof], {"save"})

\* What a PING or PONG says of its sender's role.
UpdateRole(st, hdr) ==
    LET s == hdr.sender
        asSlave == IF IsMaster(st, s)
                   THEN Todo(SetSlots(st, SlotsOf(st, s), Null), {"save", "update"})
                   ELSE st
    IN IF hdr.slaveof = Null THEN clusterSetNodeAsMaster(st, s)
       ELSE IF st.known[s].slaveof = hdr.slaveof THEN st
       ELSE Todo([asSlave EXCEPT !.known[s].slaveof = hdr.slaveof], {"save"})

\* A PING or PONG of hdr.sender.
ReadPing(st0, n, hdr, pong, long) ==
    LET s == hdr.sender
        st == UpdateRole(IF pong THEN clearNodeFailureIfNeeded(ReadHeader(st0, n, hdr), s, long)
                         ELSE ReadHeader(st0, n, hdr), hdr)
        master == IF IsMaster(st, s) THEN s ELSE st.known[s].slaveof
        dirty == SlotsOf(st, master) # hdr.slots
        set == IF IsMaster(st, s) /\ dirty
               THEN clusterUpdateSlotsConfigWith(st, n, s, hdr.configEpoch, hdr.slots)
               ELSE st
        newer == {j \in hdr.slots : /\ set.slots[j] \notin {s, Null}
                                    /\ set.known[set.slots[j]].configEpoch > hdr.configEpoch}
    IN [Result(IF set.known[n].configEpoch = hdr.configEpoch
               THEN clusterHandleConfigEpochCollision(set, n, s) ELSE set)
          EXCEPT !.send = IF dirty /\ newer # {}
                          THEN {clusterSendUpdate(set, n, s, set.slots[j]) :
                                  j \in {i \in newer : \A k \in newer : i <= k}}
                          ELSE {}]

\* Wrong: a master that has voted in this epoch may vote again.
VotesTwice(st, n, hdr, forced) ==
    LET master == st.known[hdr.sender].slaveof
    IN /\ IsMaster(st, n) /\ SlotsOf(st, n) # {}
       /\ hdr.currentEpoch >= st.currentEpoch
       /\ master # Null /\ (st.known[master].fail = "FAIL" \/ forced)
       /\ \A j \in hdr.slots : \/ st.slots[j] = Null
                               \/ st.known[st.slots[j]].configEpoch <= hdr.configEpoch

\* Whether node n grants a vote to the sender of this request.
MayVote(st, n, hdr, forced) ==
    LET master == st.known[hdr.sender].slaveof
    IN /\ IsMaster(st, n) /\ SlotsOf(st, n) # {}
       /\ hdr.currentEpoch >= st.currentEpoch
       /\ st.lastVoteEpoch # st.currentEpoch
       /\ master # Null /\ (st.known[master].fail = "FAIL" \/ forced)
       /\ \A j \in hdr.slots : \/ st.slots[j] = Null
                               \/ st.known[st.slots[j]].configEpoch <= hdr.configEpoch

\* lately: the node voted for a slave of the same master a short time ago.
clusterSendFailoverAuthIfNeeded(st, n, hdr, forced, lately) ==
    IF ~MayVote(st, n, hdr, forced) \/ lately THEN Result(st)
    ELSE [Result([st EXCEPT !.lastVoteEpoch = st.currentEpoch]) EXCEPT
             !.send = {Packet("AUTH_ACK", hdr.sender, clusterBuildMessageHdr(st, n), Null)}]

ReadAuthAck(st, hdr) ==
    IF /\ IsMaster(st, hdr.sender) /\ SlotsOf(st, hdr.sender) # {}
       /\ hdr.currentEpoch >= st.auth.epoch
    THEN Todo([st EXCEPT !.auth.count = @ + 1], {"failover"})
    ELSE st

ReadFail(st, n, x) ==
    IF x = n \/ st.known[x].fail = "FAIL" THEN st
    ELSE Todo([st EXCEPT !.known[x].fail = "FAIL"], {"save", "update"})

\* The clients of this master are paused until the manual failover ends.
ReadMFStart(st, n, s) ==
    IF st.known[s].slaveof # n THEN st
    ELSE [st EXCEPT !.mf = [NoManualFailover EXCEPT !.end = TRUE, !.slave = s]]

ReadUpdate(st, n, data) ==
    LET x == data.node
        newer == [clusterSetNodeAsMaster(st, x) EXCEPT !.known[x].configEpoch = data.configEpoch]
    IN IF st.known[x].configEpoch >= data.configEpoch THEN st
       ELSE clusterUpdateSlotsConfigWith(Todo(newer, {"save"}), n, x, data.configEpoch,
                                         data.slots)

\* Everything but a PING or PONG.
clusterProcessPacket(st0, n, p, lately) ==
    LET st == ReadHeader(st0, n, p.hdr)
    IN CASE p.type = "FAIL" -> Result(ReadFail(st, n, p.data))
         [] p.type = "AUTH_REQUEST" ->
              clusterSendFailoverAuthIfNeeded(st, n, p.hdr, p.data, lately)
         [] p.type = "AUTH_ACK" -> Result(ReadAuthAck(st, p.hdr))
         [] p.type = "MFSTART" -> Result(ReadMFStart(st, n, p.hdr.sender))
         [] p.type = "UPDATE" -> Result(ReadUpdate(st, n, p.data))

-----------------------------------------------------------------------------
\* A slave's failover.

\* Wrong: the winner keeps the epoch it had as a slave.
WinWithOldEpoch(st, n) ==
    LET old == st.known[n].slaveof
        new == SetSlots(clusterSetNodeAsMaster(st, n), SlotsOf(st, old), n)
    IN resetManualFailover(clusterSaveConfig(clusterUpdateState(new, n)))

\* The election is won: the slave takes its master's slots.
FailoverReplaceMaster(st, n) ==
    LET old == st.known[n].slaveof
        new == [SetSlots(clusterSetNodeAsMaster(st, n), SlotsOf(st, old), n)
                  EXCEPT !.known[n].configEpoch = Larger(@, st.auth.epoch)]
    IN resetManualFailover(clusterSaveConfig(clusterUpdateState(new, n)))

\* when: "wait" if the data is too old, the delay runs or the election expired;
\* "retry" if the last attempt is old; "go" otherwise.
clusterHandleSlaveFailover(st, n, when) ==
    LET master == st.known[n].slaveof
        manual == st.mf.end /\ st.mf.can
    IN IF \/ master = Null \/ when = "wait"
          \/ (st.known[master].fail # "FAIL" /\ ~manual)
          \/ SlotsOf(st, master) = {}
       THEN Result(st)
       ELSE IF when = "retry" \/ st.auth.sent = "no"
       THEN Result([st EXCEPT !.auth.sent = "due", !.auth.count = 0])
       ELSE IF st.auth.sent = "due"
       THEN LET e == st.currentEpoch + 1
                started == [st EXCEPT !.currentEpoch = e, !.auth.epoch = e,
                                      !.auth.sent = "sent"]
            IN [Result(Todo(started, {"save", "update"})) EXCEPT
                  !.send = clusterRequestFailoverAuth(started, n)]
       ELSE IF st.auth.count >= NeededQuorum(st)
       THEN [Result(FailoverReplaceMaster(st, n)) EXCEPT !.win = TRUE]
       ELSE Result(st)

\* same: the slave has processed all that its paused master wrote.
clusterHandleManualFailover(st, same) ==
    [st EXCEPT !.mf.can = @ \/ (st.mf.end /\ st.mf.offset /\ same)]

manualFailoverCheckTimeout(st, timeout) == IF timeout THEN resetManualFailover(st) ELSE st

\* Runs g after f, keeping what both sent.
Then(r, g) == [g EXCEPT !.send = @ \cup r.send, !.win = @ \/ r.win]

clusterBeforeSleep(r, n, when) ==
    LET f == IF "failover" \in r.st.todo
             THEN Then(r, clusterHandleSlaveFailover(r.st, n, when)) ELSE r
        u == IF "update" \in f.st.todo THEN clusterUpdateState(f.st, n) ELSE f.st
        s == IF "save" \in u.todo THEN clusterSaveConfig(u) ELSE u
    IN [f EXCEPT !.st = [s EXCEPT !.todo = {}]]

\* down: the nodes whose ping timed out; timeout: of the manual failover; old:
\* the node has been up for a while.
clusterCron(st, n, down, timeout, old, same, when) ==
    LET new == {x \in down : st.known[x].fail = "NO"}
        seen == manualFailoverCheckTimeout(
                  [st EXCEPT !.known = [x \in Nodes |->
                     IF x \in new THEN [@[x] EXCEPT !.fail = "PFAIL"] ELSE @[x]]], timeout)
        r == IF IsMaster(seen, n) THEN Result(seen)
             ELSE clusterHandleSlaveFailover(clusterHandleManualFailover(seen, same), n, when)
        aged == [r.st EXCEPT !.young = @ /\ ~old]
    IN IF new # {} \/ st.young THEN [r EXCEPT !.st = clusterUpdateState(aged, n)]
       ELSE r

-----------------------------------------------------------------------------
\* The steps of the system.

\* Node n goes from cn[n] through r to the end of the iteration.
Step(n, r0, when, netRest) ==
    LET r == clusterBeforeSleep(r0, n, when)
    IN /\ r.st.currentEpoch <= layout.epochs
       /\ cn' = [cn EXCEPT ![n] = r.st]
       /\ \E kept \in SUBSET r.send : net' = netRest \cup kept
       /\ Cardinality(net') <= MaxInFlight
       /\ wins' = wins \cup (IF r.win THEN {<<n, r.st.known[n].configEpoch>>} ELSE {})

Times == {"wait", "retry", "go"}

ReadPingStep(n, s, pong, long, x, late) ==
    LET r == ReadPing(cn[n], n, clusterBuildMessageHdr(cn[s], s), pong, long)
    IN /\ s # n /\ x # s
       /\ (pong => cn[n].known[s].fail # "NO") /\ (long => pong) /\ (late => x # Null)
       /\ Step(n, IF x = Null THEN r
                  ELSE Then(r, clusterProcessGossipSection(r.st, n, s, x,
                                 cn[s].known[x].fail # "NO", late)), "wait", net)
       /\ UNCHANGED <<layout, forgot, events>>

ReadPacketStep(n, p, lately, when) ==
    /\ p.to = n /\ (lately => p.type = "AUTH_REQUEST")
    /\ when \in (IF p.type = "AUTH_ACK" THEN {"wait", "go"} ELSE {"wait"})
    /\ Step(n, clusterProcessPacket(cn[n], n, p, lately), when, net \ {p})
    /\ UNCHANGED <<layout, forgot, events>>

\* A request for votes by node n, or an answer to one, that is under way.
Asking(n) == {p \in net : \/ p.type = "AUTH_REQUEST" /\ p.hdr.sender = n
                          \/ p.type = "AUTH_ACK" /\ p.to = n}

CronStep(n, down, timeout, old, same, when) ==
    /\ (timeout => cn[n].mf.end) /\ (old => cn[n].young) /\ (same => cn[n].mf.offset)
    /\ IsMaster(cn[n], n) => when = "wait"
    /\ when = "retry" => LateVotes \/ Asking(n) = {}
    /\ Step(n, clusterCron(cn[n], n, down, timeout, old, same, when), "wait", net)
    /\ UNCHANGED <<layout, forgot, events>>

Event(kind, n) ==
    /\ <<kind, n>> \in layout.admin /\ events < MaxEvents
    /\ events' = events + 1

\* CLUSTER FAILOVER, with FORCE or not, to a slave.
FailoverCommand(n, force) ==
    LET st == cn[n]
        mf == [NoManualFailover EXCEPT !.end = TRUE, !.can = force]
        start == Packet("MFSTART", st.known[n].slaveof, clusterBuildMessageHdr(st, n), Null)
    IN /\ Event(IF force THEN "force" ELSE "failover", n)
       /\ ~IsMaster(st, n)
       /\ force \/ st.known[st.known[n].slaveof].fail # "FAIL"
       /\ Step(n, [Result([st EXCEPT !.mf = mf]) EXCEPT !.send = IF force THEN {} ELSE {start}],
               "wait", net)
       /\ UNCHANGED <<layout, forgot>>

\* CLUSTER REPLICATE x.
ReplicateCommand(n, x) ==
    LET st == cn[n]
    IN /\ Event("replicate", n)
       /\ x # n /\ IsMaster(st, x)
       /\ IsMaster(st, n) => SlotsOf(st, n) = {}
       /\ Step(n, Result(Todo(clusterSetMaster(st, n, x), {"save", "update"})), "wait", net)
       /\ UNCHANGED <<layout, forgot>>

\* The process ends and is started again.
Restart(n) ==
    /\ Event("restart", n)
    /\ cn' = [cn EXCEPT ![n] = clusterLoadConfig(@.disk)]
    /\ forgot' = (forgot \/ cn[n].lastVoteEpoch # cn[n].disk.lastVoteEpoch)
    /\ UNCHANGED <<layout, net, wins>>

\* A cluster that was set up: every node knows the same.
Init ==
    /\ layout \in Layouts
    /\ cn = [n \in Nodes |->
               LET disk == [currentEpoch |-> 0, lastVoteEpoch |-> 0,
                            known |-> [x \in Nodes |-> [slaveof |-> layout.master[x],
                                                       configEpoch |-> layout.epoch[x], fail |-> "NO"]],
                            slots |-> layout.owner,
                            importing |-> [j \in Slots |-> Null],
                            migrating |-> [j \in Slots |-> Null]]
                   st == clusterLoadConfig(disk)
               IN [st EXCEPT !.young = FALSE, !.size = Cardinality(Voters(st))]]
    /\ net = {} /\ wins = {} /\ forgot = FALSE /\ events = 0

Next ==
    \E n \in layout.running :
        \/ \E s \in layout.running, pong, long, late \in BOOLEAN, x \in layout.faulty \cup {Null} :
              ReadPingStep(n, s, pong, long, x, late)
        \/ \E p \in net, lately \in BOOLEAN, when \in Times : ReadPacketStep(n, p, lately, when)
        \/ \E down \in SUBSET (layout.faulty \ {n}), timeout, old, same \in BOOLEAN, when \in Times :
              CronStep(n, down, timeout, old, same, when)
        \/ \E force \in BOOLEAN : FailoverCommand(n, force)
        \/ \E x \in Nodes : ReplicateCommand(n, x)
        \/ Restart(n)

Spec == Init /\ [][Next]_vars

-----------------------------------------------------------------------------
\* Properties.

\* No two slaves win an election in the same epoch, whatever was retried, lost or
\* reordered, as long as no master has restarted without a vote it gave: the
\* vote is not saved (clusterSendFailoverAuthIfNeeded, clusterHandleSlaveFailover).
ElectionSafety ==
    forgot \/ \A v, w \in wins : v[2] = w[2] => v[1] = w[1]

\* Node n believes that it serves slot j.
Serves(n, j) == cn[n].slots[j] = n /\ IsMaster(cn[n], n)

\* Two nodes that both believe that they serve a slot have different epochs, so that
\* every third node can tell whose claim is stale (clusterUpdateSlotsConfigWith).
SlotEpochUnique ==
    forgot \/ \A n, m \in Nodes, j \in Slots :
        Serves(n, j) /\ Serves(m, j) /\ n # m =>
            cn[n].known[n].configEpoch # cn[m].known[m].configEpoch

\* In no view does a slave own a slot: what clusterSetMaster asserts of this node,
\* and what UPDATE, PONG and an election won must keep of the others.
SlaveHasNoSlots ==
    \A n, x \in Nodes : IsMaster(cn[n], x) \/ SlotsOf(cn[n], x) = {}

\* No PONG of any node would tell another anything.
Settled ==
    \A n, s \in layout.running : n # s =>
        LET r == ReadPing(cn[n], n, clusterBuildMessageHdr(cn[s], s), TRUE, TRUE)
        IN r.st = cn[n] /\ r.send = {}

\* PONGs do not stop teaching before all the nodes agree on the owner of every
\* slot, even after two slaves won the same epoch (ReadPing,
\* clusterHandleConfigEpochCollision).
SettledAgree ==
    Settled => \A n, m \in layout.running : cn[n].slots = cn[m].slots

=============================================================================
