----------------------------- MODULE ClusterProofs -----------------------------
(***************************************************************************)
(* Proofs about Cluster, for every set of nodes and slots and every layout *)
(* of the cluster: in no node's view does a slave own a slot, whatever is  *)
(* claimed, lost, reordered or restarted.                                  *)
(*                                                                         *)
(* What a node knows and what its file says are views: both have a table   *)
(* of the nodes and one of the slots.  The file is part of the invariant   *)
(* because a restart makes it the node's view again.                       *)
(***************************************************************************)
EXTENDS Cluster, TLAPS

(***************************************************************************)
(* The inductive invariant.                                                *)
(***************************************************************************)

\* The tables are there, and have an entry for every node.
View(v) ==
    /\ {"known", "slots"} \subseteq DOMAIN v
    /\ DOMAIN v.known = Nodes
    /\ \A x \in Nodes : "slaveof" \in DOMAIN v.known[x]

\* The owner of a slot is a master in this view.
OwnersAreMasters(v) ==
    \A j \in Slots, x \in Nodes : v.slots[j] = x => v.known[x].slaveof = Null

\* A node whose view, and whose file, are in order.
Good(st) ==
    /\ "disk" \in DOMAIN st
    /\ View(st) /\ OwnersAreMasters(st)
    /\ View(st.disk) /\ OwnersAreMasters(st.disk)

\* The types of packets the bus carries besides PING and PONG.
PacketTypes == {"FAIL", "AUTH_REQUEST", "AUTH_ACK", "MFSTART", "UPDATE"}

Typed(packets) == \A p \in packets : p.type \in PacketTypes

\* What a handler leaves behind: a node in order, and packets of these types.
Done(r) == DOMAIN r = {"st", "send", "win"} /\ Good(r.st) /\ Typed(r.send)

\* The cluster is one of those that are looked at.
LayoutOK == layout \in Layouts

\* Inductive strengthening of SlaveHasNoSlots.
ClusterInv ==
    /\ DOMAIN cn = Nodes /\ \A n \in Nodes : Good(cn[n])
    /\ Typed(net)

(***************************************************************************)
(* Handlers that change no role and no slot.                               *)
(***************************************************************************)

\* r has the roles, the slots and the file that st has.
Keeps(st, r) ==
    /\ DOMAIN r = DOMAIN st
    /\ r.slots = st.slots /\ r.disk = st.disk
    /\ DOMAIN r.known = DOMAIN st.known
    /\ \A x \in Nodes : /\ DOMAIN r.known[x] = DOMAIN st.known[x]
                        /\ r.known[x].slaveof = st.known[x].slaveof

\* Such a step keeps a node in order.
LEMMA KeepsGood ==
    ASSUME NEW st, Good(st), NEW r, Keeps(st, r)
    PROVE  Good(r)
  BY DEF Good, Keeps, View, OwnersAreMasters

\* One such step after another.
LEMMA KeepsThen ==
    ASSUME NEW st, NEW r, NEW q, Keeps(st, r), Keeps(r, q)
    PROVE  Keeps(st, q)
  BY DEF Keeps

\* And none at all.
LEMMA KeepsSame == ASSUME NEW st PROVE Keeps(st, st)
  BY DEF Keeps

\* CLUSTER_TODO_... flags.
LEMMA TodoKeeps ==
    ASSUME NEW st, Good(st), NEW what
    PROVE  Keeps(st, Todo(st, what))
  BY DEF Keeps, Todo, Good, View

\* A new epoch of one of the nodes.
LEMMA EpochKeeps ==
    ASSUME NEW st, Good(st), NEW x, NEW e
    PROVE  Keeps(st, [st EXCEPT !.known[x].configEpoch = e])
  BY DEF Keeps, Good, View

\* A failure flag of one of the nodes.
LEMMA FailKeeps ==
    ASSUME NEW st, Good(st), NEW x, NEW f
    PROVE  Keeps(st, [st EXCEPT !.known[x].fail = f])
  BY DEF Keeps, Good, View

\* The header of a packet.
LEMMA HeaderKeeps ==
    ASSUME NEW st, Good(st), NEW n, NEW hdr
    PROVE  Keeps(st, ReadHeader(st, n, hdr))
  <1> DEFINE paused == /\ st.mf.end /\ st.known[n].slaveof = hdr.sender /\ hdr.paused
             seen == [st EXCEPT !.currentEpoch = Larger(@, hdr.currentEpoch),
                           !.known[hdr.sender].configEpoch = Larger(@, hdr.configEpoch),
                           !.mf.offset = @ \/ paused]
  <1>1. Keeps(st, seen) BY DEF Keeps, Good, View
  <1>2. ReadHeader(st, n, hdr) = seen \/ ReadHeader(st, n, hdr) = Todo(seen, {"save"})
    BY DEF ReadHeader
  <1> HIDE DEF seen
  <1>3. Good(seen) BY <1>1, KeepsGood
  <1>4. Keeps(seen, Todo(seen, {"save"})) BY <1>3, TodoKeeps
  <1> QED BY <1>1, <1>2, <1>4, KeepsThen

\* A PONG that ends a failure.
LEMMA ClearKeeps ==
    ASSUME NEW st, Good(st), NEW x, NEW long
    PROVE  Keeps(st, clearNodeFailureIfNeeded(st, x, long))
  <1> DEFINE r == [st EXCEPT !.known[x].fail = "NO"]
  <1>1. Keeps(st, r) BY FailKeeps
  <1>2. \/ clearNodeFailureIfNeeded(st, x, long) = st
        \/ clearNodeFailureIfNeeded(st, x, long) = Todo(r, {"save", "update"})
    BY DEF clearNodeFailureIfNeeded
  <1> HIDE DEF r
  <1>3. Keeps(r, Todo(r, {"save", "update"})) BY <1>1, KeepsGood, TodoKeeps
  <1> QED BY <1>1, <1>2, <1>3, KeepsThen, KeepsSame

\* A gossip section.
LEMMA GossipKeeps ==
    ASSUME NEW st, Good(st), NEW n, NEW sender, NEW x, NEW down, NEW late
    PROVE  Keeps(st, clusterProcessGossipSection(st, n, sender, x, down, late).st)
  <1> DEFINE r == clusterProcessGossipSection(st, n, sender, x, down, late)
             add == clusterNodeAddFailureReport(st, x, sender)
             m == markNodeAsFailingIfNeeded(add, n, sender, x, late)
             del == clusterNodeDelFailureReport(st, x, sender)
  <1>1. Keeps(st, add) BY DEF clusterNodeAddFailureReport, Keeps, Good, View
  <1>2. Keeps(st, del) BY DEF clusterNodeDelFailureReport, Keeps, Good, View
  <1>3. r = Result(st) \/ r = m \/ r = Result(del) BY DEF clusterProcessGossipSection
  <1> HIDE DEF add, del
  <1>4. Good(add) BY <1>1, KeepsGood
  <1>5. Keeps(add, m.st)
    <2> DEFINE reports == clusterNodeCleanupFailureReports(add, x, sender, late)
               failed == [add EXCEPT !.known[x].fail = "FAIL", !.reports[x] = reports]
               noted == [add EXCEPT !.reports[x] = reports]
    <2>1. Keeps(add, failed) BY <1>4 DEF Keeps, Good, View
    <2>2. Keeps(add, noted) BY <1>4 DEF Keeps, Good, View
    <2>3. m.st = add \/ m.st = noted \/ m.st = Todo(failed, {"save", "update"})
      BY DEF markNodeAsFailingIfNeeded, Result
    <2> HIDE DEF failed, noted
    <2>4. Keeps(failed, Todo(failed, {"save", "update"})) BY <1>4, <2>1, KeepsGood, TodoKeeps
    <2> QED BY <2>1, <2>2, <2>3, <2>4, KeepsThen, KeepsSame
  <1> HIDE DEF m
  <1>6. r.st = st \/ r.st = m.st \/ r.st = del BY <1>3 DEF Result
  <1> QED BY <1>1, <1>2, <1>5, <1>6, KeepsThen, KeepsSame

\* A request for a vote.
LEMMA VoteKeeps ==
    ASSUME NEW st, Good(st), NEW n, NEW hdr, NEW forced, NEW lately
    PROVE  Keeps(st, clusterSendFailoverAuthIfNeeded(st, n, hdr, forced, lately).st)
  <1> DEFINE v == [st EXCEPT !.lastVoteEpoch = st.currentEpoch]
             r == clusterSendFailoverAuthIfNeeded(st, n, hdr, forced, lately)
  <1>1. Keeps(st, v) BY DEF Keeps, Good, View
  <1>2. r.st = st \/ r.st = v BY DEF clusterSendFailoverAuthIfNeeded, Result
  <1> QED BY <1>1, <1>2, KeepsSame

\* A vote that arrives.
LEMMA AckKeeps ==
    ASSUME NEW st, Good(st), NEW hdr
    PROVE  Keeps(st, ReadAuthAck(st, hdr))
  <1> DEFINE v == [st EXCEPT !.auth.count = @ + 1]
  <1>1. Keeps(st, v) BY DEF Keeps, Good, View
  <1>2. ReadAuthAck(st, hdr) = st \/ ReadAuthAck(st, hdr) = Todo(v, {"failover"})
    BY DEF ReadAuthAck
  <1> HIDE DEF v
  <1>3. Keeps(v, Todo(v, {"failover"})) BY <1>1, KeepsGood, TodoKeeps
  <1> QED BY <1>1, <1>2, <1>3, KeepsThen, KeepsSame

\* FAIL and MFSTART.
LEMMA FailMFStartKeeps ==
    ASSUME NEW st, Good(st), NEW n, NEW x
    PROVE  Keeps(st, ReadFail(st, n, x)) /\ Keeps(st, ReadMFStart(st, n, x))
  <1> DEFINE v == [st EXCEPT !.known[x].fail = "FAIL"]
             w == [st EXCEPT !.mf = [NoManualFailover EXCEPT !.end = TRUE, !.slave = x]]
  <1>1. Keeps(st, v) /\ Keeps(st, w) BY FailKeeps DEF Keeps, Good, View
  <1>2. /\ ReadFail(st, n, x) = st \/ ReadFail(st, n, x) = Todo(v, {"save", "update"})
        /\ ReadMFStart(st, n, x) = st \/ ReadMFStart(st, n, x) = w
    BY DEF ReadFail, ReadMFStart
  <1> HIDE DEF v, w
  <1>3. Keeps(v, Todo(v, {"save", "update"})) BY <1>1, KeepsGood, TodoKeeps
  <1> QED BY <1>1, <1>2, <1>3, KeepsThen, KeepsSame

\* The end of a manual failover, and the size of the cluster.
LEMMA StateKeeps ==
    ASSUME NEW st, Good(st), NEW n
    PROVE  Keeps(st, resetManualFailover(st)) /\ Keeps(st, clusterUpdateState(st, n))
  BY DEF resetManualFailover, clusterUpdateState, Keeps, Good, View

(***************************************************************************)
(* nodes.conf.                                                             *)
(***************************************************************************)

\* A view in order is saved as it is.
LEMMA SaveGood ==
    ASSUME NEW st, Good(st)
    PROVE  Good(clusterSaveConfig(st))
  <1> DEFINE d == [currentEpoch |-> st.currentEpoch,
                   lastVoteEpoch |-> st.lastVoteEpoch, known |-> st.known,
                   slots |-> st.slots, importing |-> st.importing, migrating |-> st.migrating]
             r == clusterSaveConfig(st)
  <1>1. r.disk = d /\ r.known = st.known /\ r.slots = st.slots /\ DOMAIN r = DOMAIN st
    BY DEF clusterSaveConfig, Good, View
  <1>2. d.known = st.known /\ d.slots = st.slots /\ {"known", "slots"} \subseteq DOMAIN d OBVIOUS
  <1> HIDE DEF d, r
  <1>3. Good(r) BY <1>1, <1>2 DEF Good, View, OwnersAreMasters
  <1> QED BY <1>3 DEF r

\* And read as it was saved.
LEMMA LoadGood ==
    ASSUME NEW d, View(d), OwnersAreMasters(d)
    PROVE  Good(clusterLoadConfig(d))
  <1> DEFINE r == clusterLoadConfig(d)
  <1>1. /\ {"known", "slots", "disk"} \subseteq DOMAIN r
        /\ r.known = d.known /\ r.slots = d.slots /\ r.disk = d
    BY DEF clusterLoadConfig
  <1> HIDE DEF r
  <1>2. Good(r) BY <1>1 DEF Good, View, OwnersAreMasters
  <1> QED BY <1>2 DEF r

(***************************************************************************)
(* Handlers that change a role or the owner of a slot.                     *)
(***************************************************************************)

\* A node becomes a master.
LEMMA MasterGood ==
    ASSUME NEW st, Good(st), NEW x
    PROVE  /\ Good(clusterSetNodeAsMaster(st, x))
           /\ x \in Nodes => IsMaster(clusterSetNodeAsMaster(st, x), x)
  <1> DEFINE r == [st EXCEPT !.known[x].slaveof = Null]
             t == Todo(r, {"save", "update"})
  <1>1. Good(r) BY DEF Good, View, OwnersAreMasters
  <1>2. x \in Nodes => IsMaster(r, x) BY DEF IsMaster, Good, View
  <1>3. clusterSetNodeAsMaster(st, x) = IF IsMaster(st, x) THEN st ELSE t
    BY DEF clusterSetNodeAsMaster
  <1> HIDE DEF r
  <1>4. Keeps(r, t) BY <1>1, TodoKeeps
  <1>5. Good(t) BY <1>1, <1>4, KeepsGood
  <1>6. x \in Nodes => IsMaster(t, x) BY <1>2, <1>4 DEF IsMaster, Keeps
  <1> QED BY <1>3, <1>5, <1>6

\* Slots are given to a master, or to nobody.
LEMMA SetSlotsGood ==
    ASSUME NEW st, Good(st), NEW js, NEW x, x \in Nodes => IsMaster(st, x)
    PROVE  /\ Good(SetSlots(st, js, x))
           /\ SetSlots(st, js, x).known = st.known
           /\ DOMAIN SetSlots(st, js, x) = DOMAIN st
           /\ \A j \in Slots : SetSlots(st, js, x).slots[j] = IF j \in js THEN x ELSE st.slots[j]
  BY DEF SetSlots, Good, View, OwnersAreMasters, IsMaster

\* A node that has no slot becomes a slave.
LEMMA SlaveGood ==
    ASSUME NEW st, Good(st), NEW n, SlotsOf(st, n) = {}, NEW x
    PROVE  Good(clusterSetMaster(st, n, x)) /\ Good([st EXCEPT !.known[n].slaveof = x])
  <1>0. \A j \in Slots : st.slots[j] # n BY DEF SlotsOf
  <1>1. Good([st EXCEPT !.known[n].slaveof = x])
    BY <1>0 DEF Good, View, OwnersAreMasters
  <1>2. Good(clusterSetMaster(st, n, x))
    <2> DEFINE c == clusterCloseAllSlots(st)
               b == IF IsMaster(st, n) THEN c ELSE st
               r == [b EXCEPT !.known[n].slaveof = x]
    <2>1. Keeps(st, c) BY DEF clusterCloseAllSlots, Keeps, Good, View
    <2>2. Keeps(st, b) BY <2>1, KeepsSame
    <2> HIDE DEF b
    <2>3. Good(b) /\ b.slots = st.slots BY <2>2, KeepsGood DEF Keeps
    <2>4. Good(r) BY <1>0, <2>3 DEF Good, View, OwnersAreMasters
    <2> HIDE DEF r
    <2>5. Good(resetManualFailover(r)) BY <2>4, StateKeeps, KeepsGood
    <2>6. clusterSetMaster(st, n, x) = resetManualFailover(r) BY DEF clusterSetMaster, b, r, c
    <2> QED BY <2>5, <2>6
  <1> QED BY <1>1, <1>2

\* The slots of a claim: the sender is a master, and this node becomes its slave
\* only when it has no slot left.
LEMMA ClaimGood ==
    ASSUME NEW st, Good(st), NEW n \in Nodes, NEW sender, sender \in Nodes => IsMaster(st, sender),
           NEW epoch, NEW slots
    PROVE  Good(clusterUpdateSlotsConfigWith(st, n, sender, epoch, slots))
  <1> DEFINE curmaster == IF IsMaster(st, n) THEN n ELSE st.known[n].slaveof
             moved == {j \in StaleSlots(st, epoch, slots) : st.slots[j] # sender}
             lost == \E j \in moved : st.slots[j] = curmaster
             new == SetSlots(st, moved, sender)
             set == IF moved = {} THEN st ELSE Todo(new, {"save", "update"})
             slave == clusterSetMaster(set, n, sender)
             u == clusterUpdateSlotsConfigWith(st, n, sender, epoch, slots)
  <1>1. u = IF sender = n THEN st
            ELSE IF lost /\ SlotsOf(set, curmaster) = {} THEN Todo(slave, {"save", "update"})
            ELSE set
    BY DEF clusterUpdateSlotsConfigWith
  <1> HIDE DEF moved
  <1>2. /\ Good(new) /\ new.known = st.known
        /\ \A j \in Slots : new.slots[j] = IF j \in moved THEN sender ELSE st.slots[j]
    BY SetSlotsGood
  <1> HIDE DEF new
  <1>3. Keeps(new, Todo(new, {"save", "update"})) BY <1>2, TodoKeeps
  <1>4. /\ Good(set)
        /\ \A x \in Nodes : set.known[x].slaveof = st.known[x].slaveof
        /\ \A j \in Slots : set.slots[j] = st.slots[j] \/ set.slots[j] = sender
    BY <1>2, <1>3, KeepsGood DEF Keeps
  <1> HIDE DEF set
  <1>5. ASSUME sender # n, SlotsOf(set, curmaster) = {} PROVE Good(Todo(slave, {"save", "update"}))
    <2>1. SlotsOf(set, n) = {}
      <3>1. CASE IsMaster(st, n) BY <1>5, <3>1
      <3>2. CASE ~IsMaster(st, n)
        <4>1. \A j \in Slots : st.slots[j] # n BY <3>2 DEF Good, OwnersAreMasters, IsMaster
        <4> QED BY <1>4, <1>5, <4>1 DEF SlotsOf
      <3> QED BY <3>1, <3>2
    <2>2. Good(slave) BY <1>4, <2>1, SlaveGood
    <2> HIDE DEF slave
    <2> QED BY <2>2, TodoKeeps, KeepsGood
  <1> HIDE DEF slave, lost, curmaster
  <1>6. Good(u) BY <1>1, <1>4, <1>5
  <1> QED BY <1>6 DEF u

\* Two masters with one epoch.
LEMMA CollisionGood ==
    ASSUME NEW st, Good(st), NEW n, NEW sender
    PROVE  Good(clusterHandleConfigEpochCollision(st, n, sender))
  <1> DEFINE r == [st EXCEPT !.currentEpoch = @ + 1, !.known[n].configEpoch = st.currentEpoch + 1]
  <1>1. Keeps(st, r) BY DEF Keeps, Good, View
  <1>2. \/ clusterHandleConfigEpochCollision(st, n, sender) = st
        \/ clusterHandleConfigEpochCollision(st, n, sender) = clusterSaveConfig(r)
    BY DEF clusterHandleConfigEpochCollision
  <1> HIDE DEF r
  <1> QED BY <1>1, <1>2, KeepsGood, SaveGood

\* The role of the sender of a PING: a master that became a slave has its slots
\* taken away first.
LEMMA RoleGood ==
    ASSUME NEW st, Good(st), NEW hdr
    PROVE  Good(UpdateRole(st, hdr))
  <1> DEFINE s == hdr.sender
             none == SetSlots(st, SlotsOf(st, s), Null)
             asSlave == IF IsMaster(st, s) THEN Todo(none, {"save", "update"}) ELSE st
             r == [asSlave EXCEPT !.known[s].slaveof = hdr.slaveof]
  <1>1. UpdateRole(st, hdr) = IF hdr.slaveof = Null THEN clusterSetNodeAsMaster(st, s)
                              ELSE IF st.known[s].slaveof = hdr.slaveof THEN st
                              ELSE Todo(r, {"save"})
    BY DEF UpdateRole
  <1>2. Null \notin Nodes BY ClusterAssumption
  <1>3. /\ Good(none)
        /\ \A j \in Slots : none.slots[j] = IF j \in SlotsOf(st, s) THEN Null ELSE st.slots[j]
    BY <1>2, SetSlotsGood
  <1> HIDE DEF none
  <1>4. Keeps(none, Todo(none, {"save", "update"})) BY <1>3, TodoKeeps
  <1>5. Good(asSlave) BY <1>3, <1>4, KeepsGood
  <1>6. s \in Nodes => SlotsOf(asSlave, s) = {}
    <2>1. ASSUME s \in Nodes, IsMaster(st, s), NEW j \in Slots PROVE asSlave.slots[j] # s
      <3>1. asSlave.slots = none.slots BY <1>4, <2>1 DEF Keeps
      <3> QED BY <1>2, <1>3, <2>1, <3>1 DEF SlotsOf
    <2>2. ASSUME s \in Nodes, ~IsMaster(st, s), NEW j \in Slots PROVE asSlave.slots[j] # s
      BY <2>2 DEF Good, OwnersAreMasters, IsMaster
    <2> QED BY <2>1, <2>2 DEF SlotsOf
  <1> HIDE DEF asSlave
  <1>7. Good(r)
    <2>1. CASE s \in Nodes BY <1>5, <1>6, <2>1, SlaveGood
    <2>2. CASE s \notin Nodes BY <1>5, <2>2 DEF Good, View, OwnersAreMasters
    <2> QED BY <2>1, <2>2
  <1> HIDE DEF r
  <1>8. Good(Todo(r, {"save"})) BY <1>7, TodoKeeps, KeepsGood
  <1> QED BY <1>1, <1>8, MasterGood

\* A PING or PONG.
LEMMA PingGood ==
    ASSUME NEW st0, Good(st0), NEW n \in Nodes, NEW hdr, NEW pong, NEW long
    PROVE  Good(ReadPing(st0, n, hdr, pong, long).st)
  <1> DEFINE s == hdr.sender
             h == ReadHeader(st0, n, hdr)
             c == IF pong THEN clearNodeFailureIfNeeded(h, s, long) ELSE h
             st == UpdateRole(c, hdr)
             claim == clusterUpdateSlotsConfigWith(st, n, s, hdr.configEpoch, hdr.slots)
             master == IF IsMaster(st, s) THEN s ELSE st.known[s].slaveof
             dirty == SlotsOf(st, master) # hdr.slots
             set == IF IsMaster(st, s) /\ dirty THEN claim ELSE st
  <1>1. Good(h) BY HeaderKeeps, KeepsGood
  <1> HIDE DEF h
  <1>2. Good(c) BY <1>1, ClearKeeps, KeepsGood
  <1> HIDE DEF c
  <1>3. Good(st) BY <1>2, RoleGood
  <1> HIDE DEF st
  <1>4. IsMaster(st, s) => Good(claim) BY <1>3, ClaimGood
  <1> HIDE DEF claim
  <1>5. Good(set) BY <1>3, <1>4
  <1> HIDE DEF set
  <1>6. ReadPing(st0, n, hdr, pong, long).st
          = IF set.known[n].configEpoch = hdr.configEpoch
            THEN clusterHandleConfigEpochCollision(set, n, s) ELSE set
    BY DEF ReadPing, Result, set, claim, st, c, h
  <1> QED BY <1>5, <1>6, CollisionGood

\* An UPDATE.
LEMMA UpdateGood ==
    ASSUME NEW st, Good(st), NEW n \in Nodes, NEW data
    PROVE  Good(ReadUpdate(st, n, data))
  <1> DEFINE x == data.node
             m == clusterSetNodeAsMaster(st, x)
             newer == [m EXCEPT !.known[x].configEpoch = data.configEpoch]
             t == Todo(newer, {"save"})
  <1>1. ReadUpdate(st, n, data)
          = IF st.known[x].configEpoch >= data.configEpoch THEN st
            ELSE clusterUpdateSlotsConfigWith(t, n, x, data.configEpoch, data.slots)
    BY DEF ReadUpdate
  <1>2. Good(m) /\ (x \in Nodes => IsMaster(m, x)) BY MasterGood
  <1> HIDE DEF m
  <1>3. Keeps(m, newer) BY <1>2, EpochKeeps
  <1> HIDE DEF newer
  <1>4. Keeps(newer, t) BY <1>2, <1>3, KeepsGood, TodoKeeps
  <1> HIDE DEF t
  <1>5. Keeps(m, t) BY <1>3, <1>4, KeepsThen
  <1>6. Good(t) /\ (x \in Nodes => IsMaster(t, x)) BY <1>2, <1>5, KeepsGood DEF Keeps, IsMaster
  <1> QED BY <1>1, <1>6, ClaimGood

\* Every other packet.
LEMMA PacketGood ==
    ASSUME NEW st0, Good(st0), NEW n \in Nodes, NEW p, p.type \in PacketTypes, NEW lately
    PROVE  Good(clusterProcessPacket(st0, n, p, lately).st)
  <1> DEFINE st == ReadHeader(st0, n, p.hdr)
             r == clusterProcessPacket(st0, n, p, lately)
  <1>1. Good(st) BY HeaderKeeps, KeepsGood
  <1>2. \/ r.st = ReadFail(st, n, p.data)
        \/ r = clusterSendFailoverAuthIfNeeded(st, n, p.hdr, p.data, lately)
        \/ r.st = ReadAuthAck(st, p.hdr)
        \/ r.st = ReadMFStart(st, n, p.hdr.sender)
        \/ r.st = ReadUpdate(st, n, p.data)
    BY DEF clusterProcessPacket, PacketTypes, Result
  <1> HIDE DEF st, r
  <1>3. Good(r.st)
    BY <1>1, <1>2, FailMFStartKeeps, VoteKeeps, AckKeeps, UpdateGood, KeepsGood
  <1> QED BY <1>3 DEF r

\* The winner of an election is a master when it takes its master's slots.
LEMMA WinGood ==
    ASSUME NEW st, Good(st), NEW n \in Nodes
    PROVE  Good(FailoverReplaceMaster(st, n))
  <1> DEFINE m == clusterSetNodeAsMaster(st, n)
             t == SetSlots(m, SlotsOf(st, st.known[n].slaveof), n)
             new == [t EXCEPT !.known[n].configEpoch = Larger(@, st.auth.epoch)]
             u == clusterUpdateState(new, n)
             v == clusterSaveConfig(u)
  <1>1. Good(m) /\ IsMaster(m, n) BY MasterGood
  <1> HIDE DEF m
  <1>2. Good(t) BY <1>1, SetSlotsGood
  <1> HIDE DEF t
  <1>3. Keeps(t, new) BY <1>2 DEF Keeps, Good, View
  <1>4. Good(new) BY <1>2, <1>3, KeepsGood
  <1> HIDE DEF new
  <1>5. Good(u) BY <1>4, StateKeeps, KeepsGood
  <1> HIDE DEF u
  <1>6. Good(v) BY <1>5, SaveGood
  <1> HIDE DEF v
  <1>7. Good(resetManualFailover(v)) BY <1>6, StateKeeps, KeepsGood
  <1>8. FailoverReplaceMaster(st, n) = resetManualFailover(v)
    BY DEF FailoverReplaceMaster, v, u, new, t, m
  <1> QED BY <1>7, <1>8

\* A slave's failover.
LEMMA FailoverGood ==
    ASSUME NEW st, Good(st), NEW n \in Nodes, NEW when
    PROVE  Good(clusterHandleSlaveFailover(st, n, when).st)
  <1> DEFINE e == st.currentEpoch + 1
             due == [st EXCEPT !.auth.sent = "due", !.auth.count = 0]
             started == [st EXCEPT !.currentEpoch = e, !.auth.epoch = e, !.auth.sent = "sent"]
             r == clusterHandleSlaveFailover(st, n, when)
  <1>1. \/ r.st = st \/ r.st = due \/ r.st = Todo(started, {"save", "update"})
        \/ r.st = FailoverReplaceMaster(st, n)
    BY DEF clusterHandleSlaveFailover, Result
  <1>2. Keeps(st, due) /\ Keeps(st, started) BY DEF Keeps, Good, View
  <1> HIDE DEF r, due, started
  <1>3. Good(due) /\ Good(Todo(started, {"save", "update"})) BY <1>2, KeepsGood, TodoKeeps
  <1>4. Good(r.st) BY <1>1, <1>3, WinGood
  <1> QED BY <1>4 DEF r

(***************************************************************************)
(* The results of the handlers.                                            *)
(***************************************************************************)

\* A handler that sends nothing.
LEMMA ResultDone ==
    ASSUME NEW st, Good(st)
    PROVE  Done(Result(st)) /\ Result(st).st = st
  BY DEF Done, Result, Typed

\* One handler after another.
LEMMA ThenDone ==
    ASSUME NEW r, Done(r), NEW g, Done(g)
    PROVE  Done(Then(r, g)) /\ Then(r, g).st = g.st
  BY DEF Done, Then, Typed

\* A PING or PONG is answered by an UPDATE at most.
LEMMA PingDone ==
    ASSUME NEW st, Good(st), NEW n \in Nodes, NEW hdr, NEW pong, NEW long
    PROVE  Done(ReadPing(st, n, hdr, pong, long))
  <1> DEFINE r == ReadPing(st, n, hdr, pong, long)
             s == hdr.sender
             h == ReadHeader(st, n, hdr)
             u == UpdateRole(IF pong THEN clearNodeFailureIfNeeded(h, s, long) ELSE h, hdr)
             master == IF IsMaster(u, s) THEN s ELSE u.known[s].slaveof
             dirty == SlotsOf(u, master) # hdr.slots
             set == IF IsMaster(u, s) /\ dirty
                    THEN clusterUpdateSlotsConfigWith(u, n, s, hdr.configEpoch, hdr.slots) ELSE u
             newer == {j \in hdr.slots : /\ set.slots[j] \notin {s, Null}
                                         /\ set.known[set.slots[j]].configEpoch > hdr.configEpoch}
             first == {i \in newer : \A k \in newer : i <= k}
             end == IF set.known[n].configEpoch = hdr.configEpoch
                    THEN clusterHandleConfigEpochCollision(set, n, s) ELSE set
             sent == IF dirty /\ newer # {}
                     THEN {clusterSendUpdate(set, n, s, set.slots[j]) : j \in first} ELSE {}
  <1>0. r = [Result(end) EXCEPT !.send = sent] BY DEF ReadPing
  <1> HIDE DEF r, u, dirty, set, newer, first, end
  <1>4. Typed(sent) BY DEF Typed, clusterSendUpdate, Packet, PacketTypes
  <1> HIDE DEF sent
  <1>1. DOMAIN r = {"st", "send", "win"} BY <1>0 DEF Result
  <1>2. Typed(r.send) BY <1>0, <1>4 DEF Result
  <1>3. Good(r.st) BY PingGood DEF r
  <1> QED BY <1>1, <1>2, <1>3 DEF Done, r

\* A gossip section is followed by a FAIL at most.
LEMMA GossipDone ==
    ASSUME NEW st, Good(st), NEW n, NEW sender, NEW x, NEW down, NEW late
    PROVE  Done(clusterProcessGossipSection(st, n, sender, x, down, late))
  <1> DEFINE r == clusterProcessGossipSection(st, n, sender, x, down, late)
  <1>1. DOMAIN r = {"st", "send", "win"}
    BY DEF clusterProcessGossipSection, markNodeAsFailingIfNeeded, Result
  <1>2. Typed(r.send)
    BY DEF clusterProcessGossipSection, markNodeAsFailingIfNeeded, Result, Typed,
           clusterSendFail, Packet, PacketTypes
  <1>3. Good(r.st) BY GossipKeeps, KeepsGood
  <1> QED BY <1>1, <1>2, <1>3 DEF Done

\* A request for a vote is answered by a vote at most.
LEMMA PacketDone ==
    ASSUME NEW st, Good(st), NEW n \in Nodes, NEW p, p.type \in PacketTypes, NEW lately
    PROVE  Done(clusterProcessPacket(st, n, p, lately))
  <1> DEFINE h == ReadHeader(st, n, p.hdr)
             v == clusterSendFailoverAuthIfNeeded(h, n, p.hdr, p.data, lately)
             r == clusterProcessPacket(st, n, p, lately)
  <1>1. DOMAIN v = {"st", "send", "win"} /\ Typed(v.send)
    BY DEF clusterSendFailoverAuthIfNeeded, Result, Typed, Packet, PacketTypes
  <1>2. r = v \/ \E q : r = Result(q)
    BY DEF clusterProcessPacket, PacketTypes
  <1>3. DOMAIN r = {"st", "send", "win"} /\ Typed(r.send)
    <2> HIDE DEF r, v
    <2> QED BY <1>1, <1>2 DEF Result, Typed
  <1>4. Good(r.st) BY PacketGood
  <1> QED BY <1>3, <1>4 DEF Done

\* A slave asks for votes.
LEMMA FailoverDone ==
    ASSUME NEW st, Good(st), NEW n \in Nodes, NEW when
    PROVE  Done(clusterHandleSlaveFailover(st, n, when))
  <1> DEFINE r == clusterHandleSlaveFailover(st, n, when)
  <1>1. DOMAIN r = {"st", "send", "win"} BY DEF clusterHandleSlaveFailover, Result
  <1>2. Typed(r.send)
    BY DEF clusterHandleSlaveFailover, Result, Typed, clusterRequestFailoverAuth, Packet, PacketTypes
  <1>3. Good(r.st) BY FailoverGood
  <1> QED BY <1>1, <1>2, <1>3 DEF Done

(***************************************************************************)
(* The steps of the system.                                                *)
(***************************************************************************)

\* The work that is left for the end of the iteration.
LEMMA SleepDone ==
    ASSUME NEW r, Done(r), NEW n \in Nodes, NEW when
    PROVE  Done(clusterBeforeSleep(r, n, when))
  <1> DEFINE g == clusterHandleSlaveFailover(r.st, n, when)
             f == IF "failover" \in r.st.todo THEN Then(r, g) ELSE r
             u == IF "update" \in f.st.todo THEN clusterUpdateState(f.st, n) ELSE f.st
             s == IF "save" \in u.todo THEN clusterSaveConfig(u) ELSE u
             t == [s EXCEPT !.todo = {}]
  <1>1. Good(r.st) BY DEF Done
  <1>2. Done(g) BY <1>1, FailoverDone
  <1> HIDE DEF g
  <1>3. Done(f) BY <1>2, ThenDone
  <1> HIDE DEF f
  <1>4. Good(f.st) BY <1>3 DEF Done
  <1>5. Good(u) BY <1>4, StateKeeps, KeepsGood
  <1> HIDE DEF u
  <1>6. Good(s) BY <1>5, SaveGood
  <1> HIDE DEF s
  <1>7. Keeps(s, t) BY <1>6 DEF Keeps, Good, View
  <1>8. Good(t) BY <1>6, <1>7, KeepsGood
  <1>9. clusterBeforeSleep(r, n, when) = [f EXCEPT !.st = t]
    BY DEF clusterBeforeSleep, f, g, u, s
  <1> HIDE DEF t
  <1>10. Done([f EXCEPT !.st = t]) BY <1>3, <1>8 DEF Done
  <1> QED BY <1>9, <1>10

\* clusterCron.
LEMMA CronDone ==
    ASSUME NEW st, Good(st), NEW n \in Nodes, NEW down, NEW timeout, NEW old, NEW same, NEW when
    PROVE  Done(clusterCron(st, n, down, timeout, old, same, when))
  <1> DEFINE new == {x \in down : st.known[x].fail = "NO"}
             mark == [st EXCEPT !.known = [x \in Nodes |->
                        IF x \in new THEN [@[x] EXCEPT !.fail = "PFAIL"] ELSE @[x]]]
             seen == manualFailoverCheckTimeout(mark, timeout)
             m == clusterHandleManualFailover(seen, same)
             g == clusterHandleSlaveFailover(m, n, when)
             r == IF IsMaster(seen, n) THEN Result(seen) ELSE g
             y == [r.st EXCEPT !.young = @ /\ ~old]
             u == clusterUpdateState(y, n)
  <1>1. Keeps(st, mark) BY DEF Keeps, Good, View
  <1>2. Good(mark) BY <1>1, KeepsGood
  <1> HIDE DEF mark
  <1>3. Good(seen) BY <1>2, StateKeeps, KeepsGood DEF manualFailoverCheckTimeout
  <1> HIDE DEF seen
  <1>4. Keeps(seen, m) BY <1>3 DEF clusterHandleManualFailover, Keeps, Good, View
  <1>5. Good(m) BY <1>3, <1>4, KeepsGood
  <1> HIDE DEF m
  <1>6. Done(g) BY <1>5, FailoverDone
  <1> HIDE DEF g
  <1>7. Done(r) BY <1>3, <1>6, ResultDone
  <1> HIDE DEF r
  <1>8. Good(r.st) BY <1>7 DEF Done
  <1>9. Keeps(r.st, y) BY <1>8 DEF Keeps, Good, View
  <1>10. Good(y) BY <1>8, <1>9, KeepsGood
  <1> HIDE DEF y
  <1>11. Good(u) BY <1>10, StateKeeps, KeepsGood
  <1>12. clusterCron(st, n, down, timeout, old, same, when)
           = IF new # {} \/ st.young THEN [r EXCEPT !.st = u] ELSE r
    BY DEF clusterCron, y, r, g, m, seen, mark
  <1> HIDE DEF u, new
  <1>13. Done([r EXCEPT !.st = u]) BY <1>7, <1>11 DEF Done
  <1> QED BY <1>7, <1>12, <1>13

\* An iteration of the event loop in which a handler has left its node in order.
LEMMA StepInv ==
    ASSUME ClusterInv, NEW n \in Nodes, NEW r, Done(r), NEW when, NEW rest, rest \subseteq net,
           Step(n, r, when, rest)
    PROVE  ClusterInv'
  <1> DEFINE b == clusterBeforeSleep(r, n, when)
  <1>1. Done(b) BY SleepDone
  <1>2. cn' = [cn EXCEPT ![n] = b.st] /\ \E kept \in SUBSET b.send : net' = rest \cup kept
    BY DEF Step
  <1> HIDE DEF b
  <1>3. Good(b.st) /\ Typed(b.send) BY <1>1 DEF Done
  <1>4. Typed(net') BY <1>2, <1>3 DEF Typed, ClusterInv
  <1> QED BY <1>2, <1>3, <1>4 DEF ClusterInv

\* A cluster that was set up is in order.
LEMMA ClusterInit == Init => ClusterInv
  <1> SUFFICES ASSUME Init PROVE ClusterInv OBVIOUS
  <1>1. layout \in Layouts BY DEF Init
  <1> DEFINE disk == [currentEpoch |-> 0, lastVoteEpoch |-> 0,
                      known |-> [x \in Nodes |-> [slaveof |-> layout.master[x],
                                                 configEpoch |-> layout.epoch[x], fail |-> "NO"]],
                      slots |-> layout.owner,
                      importing |-> [j \in Slots |-> Null],
                      migrating |-> [j \in Slots |-> Null]]
             st == clusterLoadConfig(disk)
             new == [st EXCEPT !.young = FALSE, !.size = Cardinality(Voters(st))]
  <1>2. View(disk) BY DEF View
  <1>3. OwnersAreMasters(disk) BY <1>1, ClusterAssumption DEF OwnersAreMasters
  <1>4. cn = [n \in Nodes |-> new] BY DEF Init
  <1>5. Typed(net) BY DEF Init, Typed
  <1> HIDE DEF disk
  <1>6. Good(st) BY <1>2, <1>3, LoadGood
  <1> HIDE DEF st
  <1>7. Keeps(st, new) BY <1>6 DEF Keeps, Good, View
  <1>8. Good(new) BY <1>6, <1>7, KeepsGood
  <1> QED BY <1>4, <1>5, <1>8 DEF ClusterInv

\* The cluster does not change.
LEMMA SameLayout == LayoutOK /\ [Next]_vars => LayoutOK'
  <1>1. ASSUME NEW n, NEW s, NEW pong, NEW long, NEW x, NEW late,
               ReadPingStep(n, s, pong, long, x, late)
        PROVE  layout' = layout
    BY <1>1 DEF ReadPingStep
  <1>2. ASSUME NEW n, NEW p, NEW lately, NEW when, ReadPacketStep(n, p, lately, when)
        PROVE  layout' = layout
    BY <1>2 DEF ReadPacketStep
  <1>3. ASSUME NEW n, NEW down, NEW timeout, NEW old, NEW same, NEW when,
               CronStep(n, down, timeout, old, same, when)
        PROVE  layout' = layout
    BY <1>3 DEF CronStep
  <1>4. ASSUME NEW n, NEW x, FailoverCommand(n, x) \/ ReplicateCommand(n, x) \/ Restart(n)
        PROVE  layout' = layout
    BY <1>4 DEF FailoverCommand, ReplicateCommand, Restart
  <1>5. UNCHANGED vars => layout' = layout BY DEF vars
  <1> QED BY <1>1, <1>2, <1>3, <1>4, <1>5 DEF Next, LayoutOK

\* Every step of every node leaves the views and the files in order.
LEMMA ClusterStep == LayoutOK /\ ClusterInv /\ [Next]_vars => ClusterInv'
  <1> SUFFICES ASSUME LayoutOK, ClusterInv, [Next]_vars PROVE ClusterInv' OBVIOUS
  <1>1. CASE UNCHANGED vars BY <1>1 DEF vars, ClusterInv
  <1>2. CASE Next
    <2>1. layout.running \subseteq Nodes BY ClusterAssumption DEF LayoutOK
    <2>2. ASSUME NEW n \in layout.running, NEW s, NEW pong, NEW long, NEW late, NEW x,
                 ReadPingStep(n, s, pong, long, x, late)
          PROVE  ClusterInv'
      <3> DEFINE r == ReadPing(cn[n], n, clusterBuildMessageHdr(cn[s], s), pong, long)
                 g == clusterProcessGossipSection(r.st, n, s, x, cn[s].known[x].fail # "NO", late)
                 q == IF x = Null THEN r ELSE Then(r, g)
      <3>1. Step(n, q, "wait", net) BY <2>2 DEF ReadPingStep
      <3>2. n \in Nodes /\ Good(cn[n]) BY <2>1 DEF ClusterInv
      <3>3. Done(r) BY <3>2, PingDone
      <3> HIDE DEF r
      <3>4. Done(g) BY <3>3, GossipDone DEF Done
      <3> HIDE DEF g
      <3>5. Done(q) BY <3>3, <3>4, ThenDone
      <3> HIDE DEF q
      <3> QED BY <3>1, <3>2, <3>5, StepInv
    <2>3. ASSUME NEW n \in layout.running, NEW p \in net, NEW lately, NEW when,
                 ReadPacketStep(n, p, lately, when)
          PROVE  ClusterInv'
      <3> DEFINE r == clusterProcessPacket(cn[n], n, p, lately)
      <3>1. Step(n, r, when, net \ {p}) BY <2>3 DEF ReadPacketStep
      <3>2. n \in Nodes /\ Good(cn[n]) /\ p.type \in PacketTypes BY <2>1 DEF ClusterInv, Typed
      <3>3. Done(r) BY <3>2, PacketDone
      <3> HIDE DEF r
      <3>4. net \ {p} \subseteq net OBVIOUS
      <3> QED BY <3>1, <3>2, <3>3, <3>4, StepInv
    <2>4. ASSUME NEW n \in layout.running, NEW down, NEW timeout, NEW old, NEW same, NEW when,
                 CronStep(n, down, timeout, old, same, when)
          PROVE  ClusterInv'
      <3> DEFINE r == clusterCron(cn[n], n, down, timeout, old, same, when)
      <3>1. Step(n, r, "wait", net) BY <2>4 DEF CronStep
      <3>2. n \in Nodes /\ Good(cn[n]) BY <2>1 DEF ClusterInv
      <3>3. Done(r) BY <3>2, CronDone
      <3> HIDE DEF r
      <3> QED BY <3>1, <3>2, <3>3, StepInv
    <2>5. ASSUME NEW n \in layout.running, NEW force, FailoverCommand(n, force)
          PROVE  ClusterInv'
      <3> DEFINE st == cn[n]
                 mf == [NoManualFailover EXCEPT !.end = TRUE, !.can = force]
                 new == [st EXCEPT !.mf = mf]
                 start == Packet("MFSTART", st.known[n].slaveof, clusterBuildMessageHdr(st, n), Null)
                 r == [Result(new) EXCEPT !.send = IF force THEN {} ELSE {start}]
      <3>1. Step(n, r, "wait", net) BY <2>5 DEF FailoverCommand
      <3>2. n \in Nodes /\ Good(cn[n]) BY <2>1 DEF ClusterInv
      <3>3. Keeps(st, new) BY <3>2 DEF Keeps, Good, View
      <3> HIDE DEF new
      <3>4. Good(new) BY <3>2, <3>3, KeepsGood
      <3>5. Typed({start}) BY DEF Typed, Packet, PacketTypes
      <3>6. Done(r) BY <3>4, <3>5 DEF Done, Result, Typed
      <3> HIDE DEF r
      <3> QED BY <3>1, <3>2, <3>6, StepInv
    <2>6. ASSUME NEW n \in layout.running, NEW x \in Nodes, ReplicateCommand(n, x)
          PROVE  ClusterInv'
      <3> DEFINE st == cn[n]
                 m == clusterSetMaster(st, n, x)
                 t == Todo(m, {"save", "update"})
      <3>1. Step(n, Result(t), "wait", net) BY <2>6 DEF ReplicateCommand
      <3>2. n \in Nodes /\ Good(cn[n]) BY <2>1 DEF ClusterInv
      <3>3. SlotsOf(st, n) = {}
        <4>1. CASE IsMaster(st, n) BY <2>6, <4>1 DEF ReplicateCommand
        <4>2. CASE ~IsMaster(st, n)
          BY <3>2, <4>2 DEF Good, OwnersAreMasters, IsMaster, SlotsOf
        <4> QED BY <4>1, <4>2
      <3>4. Good(m) BY <3>2, <3>3, SlaveGood
      <3> HIDE DEF m
      <3>5. Good(t) BY <3>4, TodoKeeps, KeepsGood
      <3> HIDE DEF t
      <3>6. Done(Result(t)) BY <3>5, ResultDone
      <3> QED BY <3>1, <3>2, <3>6, StepInv
    <2>7. ASSUME NEW n \in layout.running, Restart(n) PROVE ClusterInv'
      <3>1. n \in Nodes /\ Good(cn[n]) BY <2>1 DEF ClusterInv
      <3>2. Good(clusterLoadConfig(cn[n].disk)) BY <3>1, LoadGood DEF Good
      <3>3. cn' = [cn EXCEPT ![n] = clusterLoadConfig(cn[n].disk)] /\ net' = net
        BY <2>7 DEF Restart
      <3> QED BY <3>2, <3>3 DEF ClusterInv
    <2> QED BY <1>2, <2>2, <2>3, <2>4, <2>5, <2>6, <2>7 DEF Next
  <1> QED BY <1>1, <1>2

\* No slave owns a slot, in the view of any node, at any time: after claims and
\* UPDATEs that arrive late, elections, manual failovers, CLUSTER REPLICATE and
\* restarts from a nodes.conf that is behind.
THEOREM NoSlaveOwnsSlots == Spec => []SlaveHasNoSlots
<1>1. Init => LayoutOK
  BY DEF Init, LayoutOK
<1>2. Spec => [](LayoutOK /\ ClusterInv)
  BY <1>1, ClusterInit, SameLayout, ClusterStep, PTL DEF Spec
<1>3. ClusterInv => SlaveHasNoSlots
  BY DEF ClusterInv, Good, OwnersAreMasters, SlaveHasNoSlots, IsMaster, SlotsOf
<1>4. QED
  BY <1>2, <1>3, PTL

================================================================================
