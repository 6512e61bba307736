-------------------------------- MODULE Sentinel --------------------------------
(***************************************************************************)
(* The Sentinels of one monitored master (sentinel.c): epochs and votes,   *)
(* the failover state machine, the HELLO messages that spread the          *)
(* configuration, the configuration file and restarts.                     *)
(*                                                                         *)
(* sn[s] is what Sentinel s knows of the master: sentinel.current_epoch,   *)
(* the fields of its sentinelRedisInstance, the vote last reported by each *)
(* other Sentinel (peer) and the configuration file (disk).  Time, and     *)
(* with it who is subjectively or objectively down, disconnected or late,  *)
(* is a free choice of every step that asks.  A run id is a Sentinel and   *)
(* the number of its restarts, as every start draws a new one.             *)
(***************************************************************************)
EXTENDS Integers, FiniteSets

CONSTANTS
    Sentinels,          \* the Sentinels that monitor the master
    Instances,          \* the addresses of the Redis servers
    FirstMaster,        \* the one that is the master at first
    Quorum,             \* the quorum of `sentinel monitor'
    ParallelSyncs,      \* `sentinel parallel-syncs'
    NoOne,              \* NULL, and the master of a master
    MaxEpoch,           \* bound: epochs that are started
    MaxEvents,          \* bound: restarts, SENTINEL FAILOVERs and failovers of
                        \*   other masters, together
    MaxInFlight,        \* bound: is-master-down-by-addr calls under way
    MaxCommands,        \* bound: SLAVEOF commands under way when more are sent
    MinSlaves,          \* bound: slaves at first, at least
    MaxForced           \* bound: slaves of the Sentinels that are asked for a
                        \*   failover or have a new configuration, together

ASSUME ConstantsAssumption ==
    /\ IsFiniteSet(Sentinels) /\ IsFiniteSet(Instances)
    /\ FirstMaster \in Instances
    /\ NoOne \notin Instances \cup (Sentinels \X Nat)
    /\ {Quorum, ParallelSyncs} \subseteq Nat \ {0}
    /\ {MaxEpoch, MaxEvents, MaxInFlight, MaxCommands, MinSlaves, MaxForced} \subseteq Nat

VARIABLES
    sn,         \* the Sentinels
    net,        \* is-master-down-by-addr calls and replies under way
    redis,      \* whom each Redis server replicates
    commands,   \* SLAVEOF commands under way
    votes,      \* history: every vote given
    elected,    \* history: every election won
    events      \* number of external events so far

vars == <<sn, net, redis, commands, votes, elected, events>>

States == {"NONE", "WAIT_START", "SELECT_SLAVE", "SEND_SLAVEOF_NOONE",
           "WAIT_PROMOTION", "RECONF_SLAVES", "UPDATE_CONFIG"}

Peers(s) == Sentinels \ {s}
Me(s) == <<s, sn[s].runid>>
RunIds == Sentinels \X (0..MaxEvents)

-----------------------------------------------------------------------------
\* The configuration file.

\* The address given to clients, to the file and to other Sentinels.
sentinelGetCurrentMasterAddress(st) ==
    IF st.failover_state \in {"RECONF_SLAVES", "UPDATE_CONFIG"} /\ st.promoted # NoOne
    THEN st.promoted
    ELSE st.addr

\* What a rewrite saves.  Every known slave is written with its own address.
rewriteConfigSentinelOption(st) ==
    [current_epoch |-> st.current_epoch, config_epoch |-> st.config_epoch,
     leader_epoch |-> st.leader_epoch, slaves |-> st.slaves,
     addr |-> sentinelGetCurrentMasterAddress(st)]

sentinelFlushConfig(st) == [st EXCEPT !.disk = rewriteConfigSentinelOption(st)]

NoVote(runid) == [runid |-> runid, leader |-> NoOne, leader_epoch |-> 0]

\* What a Sentinel knows once it has read its file.
sentinelHandleConfiguration(disk, runid, peer) ==
    [current_epoch |-> IF disk.config_epoch > disk.current_epoch
                       THEN disk.config_epoch ELSE disk.current_epoch,
     config_epoch |-> disk.config_epoch, addr |-> disk.addr,
     slaves |-> disk.slaves, leader |-> NoOne, leader_epoch |-> disk.leader_epoch,
     failover_state |-> "NONE", failover_epoch |-> 0, force |-> FALSE,
     promoted |-> NoOne, sent |-> {}, inprog |-> {}, done |-> {},
     runid |-> runid, peer |-> [t \in DOMAIN peer |-> NoVote(peer[t].runid)],
     disk |-> disk]

\* Wrong: promoted_slave is left pointing to a slave that is freed.
sentinelResetMasterDangling(st) ==
    [st EXCEPT !.slaves = {}, !.leader = NoOne, !.failover_state = "NONE",
               !.force = FALSE, !.sent = {}, !.inprog = {}, !.done = {}]

\* The slaves and all that concerns a failover go; the epochs stay.
sentinelResetMaster(st) ==
    [st EXCEPT !.slaves = {}, !.leader = NoOne, !.failover_state = "NONE",
               !.force = FALSE, !.promoted = NoOne,
               !.sent = {}, !.inprog = {}, !.done = {}]

sentinelResetMasterAndChangeAddress(st, addr) ==
    sentinelFlushConfig([sentinelResetMaster(st) EXCEPT
        !.addr = addr, !.slaves = (st.slaves \cup {st.addr}) \ {addr}])

-----------------------------------------------------------------------------
\* Votes and elections.

\* Wrong: the vote is not saved.
sentinelVoteLeaderUnsaved(st, req_epoch, req_runid) ==
    LET seen == IF req_epoch > st.current_epoch
                THEN sentinelFlushConfig([st EXCEPT !.current_epoch = req_epoch])
                ELSE st
    IN IF seen.leader_epoch < req_epoch /\ seen.current_epoch <= req_epoch
       THEN [seen EXCEPT !.leader = req_runid, !.leader_epoch = seen.current_epoch]
       ELSE seen

\* The vote asked for by req_runid in req_epoch: one per epoch, saved before it
\* is answered.
sentinelVoteLeader(st, req_epoch, req_runid) ==
    LET seen == IF req_epoch > st.current_epoch
                THEN sentinelFlushConfig([st EXCEPT !.current_epoch = req_epoch])
                ELSE st
    IN IF seen.leader_epoch < req_epoch /\ seen.current_epoch <= req_epoch
       THEN sentinelFlushConfig([seen EXCEPT !.leader = req_runid,
                                             !.leader_epoch = seen.current_epoch])
       ELSE seen

\* The votes for a run id that the other Sentinels reported for the current
\* epoch of this one.
VotesFor(st, runid) ==
    Cardinality({t \in DOMAIN st.peer :
        st.peer[t].leader = runid /\ st.peer[t].leader_epoch = st.current_epoch})

\* Wrong: half of the voters are enough.
VotersQuorumHalf(voters) == voters \div 2

\* The votes needed among so many voters.
VotersQuorum(voters) == (voters \div 2) + 1

\* This Sentinel votes for c, the first among the other votes, or for itself when
\* there is none; its own vote is counted if it is of that epoch.
CountOwnVote(s, st, epoch, c) ==
    LET after == sentinelVoteLeader(st, epoch,
                     IF c = NoOne THEN <<s, st.runid>> ELSE c)
        voters == Cardinality(DOMAIN st.peer) + 1
        max == IF c = NoOne THEN 0 ELSE VotesFor(st, c)
        counts == after.leader # NoOne /\ after.leader_epoch = epoch
        mine == IF counts THEN VotesFor(st, after.leader) + 1 ELSE 0
        winner == IF mine > max THEN after.leader ELSE c
        won == IF mine > max THEN mine ELSE max
    IN [st |-> after,
        winner |-> IF won < VotersQuorum(voters) \/ won < Quorum
                   THEN NoOne ELSE winner]

\* The possible results: the winner of the other votes depends on the order
\* of a hash table when there is a tie.
sentinelGetLeader(s, st, epoch) ==
    LET reported == {st.peer[t].leader : t \in DOMAIN st.peer} \ {NoOne}
        voted == {c \in reported : VotesFor(st, c) > 0}
        first == {c \in voted : \A d \in voted : VotesFor(st, d) <= VotesFor(st, c)}
    IN {CountOwnVote(s, st, epoch, c) : c \in IF first = {} THEN {NoOne} ELSE first}

sentinelStartFailover(st) ==
    [st EXCEPT !.failover_state = "WAIT_START",
               !.current_epoch = @ + 1,
               !.failover_epoch = st.current_epoch + 1]

sentinelAbortFailover(st) ==
    [st EXCEPT !.failover_state = "NONE", !.force = FALSE, !.promoted = NoOne]

-----------------------------------------------------------------------------
\* The failover state machine.  A result is the Sentinel afterwards, the
\* SLAVEOF commands sent and whether an election was won.

Result(st) == [st |-> st, send |-> {}, won |-> FALSE]
SlaveOf(to, of) == [to |-> to, of |-> of]

sentinelFailoverWaitStart(s, st) ==
    UNION {LET lead == o.winner = <<s, st.runid>>
           IN IF lead \/ st.force
              THEN {[Result([o.st EXCEPT !.failover_state = "SELECT_SLAVE"])
                        EXCEPT !.won = lead]}
              ELSE {Result(o.st), Result(sentinelAbortFailover(o.st))} :
           o \in sentinelGetLeader(s, st, st.failover_epoch)}

\* sentinelSelectSlave returns some slave that is up and recent, or none.
sentinelFailoverSelectSlave(st) ==
    {Result(sentinelAbortFailover(st))} \cup
    {Result([st EXCEPT !.promoted = a, !.failover_state = "SEND_SLAVEOF_NOONE"]) :
        a \in st.slaves}

sentinelFailoverSendSlaveOfNoOne(st) ==
    {Result(st), Result(sentinelAbortFailover(st)),
     [Result([st EXCEPT !.failover_state = "WAIT_PROMOTION"])
        EXCEPT !.send = {SlaveOf(st.promoted, NoOne)}]}

sentinelFailoverWaitPromotion(st) ==
    {Result(st), Result(sentinelAbortFailover(st))}

\* The slaves left to the best-effort SLAVEOF when the failover times out.
LeftAtTimeout(st, away) == st.slaves \ (st.done \cup st.sent \cup away)

\* away: slaves that are disconnected; down: slaves in S_DOWN; over: whether
\* failover-timeout has elapsed.
sentinelFailoverDetectEnd(r, away, down, over) ==
    LET st == r.st
        left == st.slaves \ ({st.promoted} \cup st.done \cup down)
        best == IF over THEN LeftAtTimeout(st, away) ELSE {}
    IN IF st.promoted = NoOne \/ st.promoted \in down
       THEN r
       ELSE [r EXCEPT !.st = [st EXCEPT
                         !.failover_state = IF left = {} \/ over
                                            THEN "UPDATE_CONFIG" ELSE @,
                         !.sent = @ \cup best],
                      !.send = @ \cup {SlaveOf(a, st.promoted) : a \in best}]

\* Wrong: slaves that have begun to resynchronize are not counted.
InProgressSent(st) == Cardinality(st.sent)

\* The slaves being reconfigured, counted before the loop.
InProgress(st) == Cardinality(st.sent \cup st.inprog)

\* The slaves that the loop does not skip at once.
Unfinished(st) == st.slaves \ ({st.promoted} \cup st.done)

\* One pass of the loop, which goes over the slaves in the order of a hash
\* table and ends when parallel_syncs are in progress.  visited: those it comes
\* to; late: those whose SLAVEOF timed out, which are taken for reconfigured
\* and, when they are connected, told again.
ReconfLoop(st, visited, late, away) ==
    LET expired == visited \cap late \cap st.sent
        send == visited \ (away \cup st.inprog \cup (st.sent \ expired))
    IN [Result([st EXCEPT !.sent = (@ \ expired) \cup send,
                          !.done = @ \cup expired])
        EXCEPT !.send = {SlaveOf(a, st.promoted) : a \in send}]

\* Of the slaves in S_DOWN it matters whether the promoted one is among them, or
\* all the others.
Down(st) == {{}, {st.promoted}, st.slaves \ {st.promoted}}

sentinelFailoverReconfNextSlave(st) ==
    LET room == ParallelSyncs - InProgress(st)
    IN UNION {
        LET passes == {[r |-> ReconfLoop(st, v, late, away), all |-> v = Unfinished(st)] :
                          v \in SUBSET Unfinished(st)}
            ends == IF room <= 0 THEN {Result(st)}
                    ELSE {p.r : p \in {q \in passes :
                            \/ Cardinality(q.r.send) = room
                            \/ q.all /\ Cardinality(q.r.send) < room}}
        IN {sentinelFailoverDetectEnd(r, away, down, over) :
                r \in ends, down \in Down(st), over \in BOOLEAN} :
        late \in SUBSET (st.sent \ st.done), away \in SUBSET st.slaves}

sentinelFailoverStateMachine(s, st) ==
    CASE st.failover_state = "WAIT_START" -> sentinelFailoverWaitStart(s, st)
      [] st.failover_state = "SELECT_SLAVE" -> sentinelFailoverSelectSlave(st)
      [] st.failover_state = "SEND_SLAVEOF_NOONE" -> sentinelFailoverSendSlaveOfNoOne(st)
      [] st.failover_state = "WAIT_PROMOTION" -> sentinelFailoverWaitPromotion(st)
      [] st.failover_state = "RECONF_SLAVES" -> sentinelFailoverReconfNextSlave(st)
      [] OTHER -> {Result(st)}

\* Wrong: a finished failover is not acted upon.
sentinelFailoverNoSwitch(st) == st

\* The last thing the timer does with a master.
sentinelFailoverSwitchToPromotedSlave(st) ==
    IF st.failover_state = "UPDATE_CONFIG"
    THEN sentinelResetMasterAndChangeAddress(st,
             IF st.promoted # NoOne THEN st.promoted ELSE st.addr)
    ELSE st

-----------------------------------------------------------------------------
\* The steps.

\* The history of votes: a vote is a leader_epoch that grew.
Vote(s) ==
    votes' = votes \cup
        (IF sn'[s].leader_epoch > sn[s].leader_epoch
         THEN {[voter |-> s, epoch |-> sn'[s].leader_epoch,
                leader |-> sn'[s].leader]}
         ELSE {})

Send(new) ==
    /\ commands' = commands \cup new
    /\ new = {} \/ Cardinality(commands) < MaxCommands

Event == events < MaxEvents /\ events' = events + 1

\* The calls a Sentinel with a failover under way makes to the others (the
\* calls of the rest ask for no vote).
sentinelAskMasterStateToOtherSentinels(s, st, asked) ==
    /\ IF st.failover_state = "NONE" THEN asked = {} ELSE TRUE
    /\ net' = net \cup {[type |-> "ask", caller |-> s, callee |-> t, addr |-> st.addr,
                         epoch |-> st.current_epoch, leader |-> <<s, st.runid>>] :
                           t \in asked}

\* Replies that are too old are forgotten by the same loop.
ForgetReplies(st, old) ==
    [st EXCEPT !.peer = [t \in DOMAIN @ |->
        IF t \in old THEN [@[t] EXCEPT !.leader = NoOne] ELSE @[t]]]

\* sentinelTimer for the master: start a failover when it is objectively down
\* and the last attempt is long ago, run the state machine, ask the others.
sentinelHandleRedisInstance(s) ==
    \E start \in BOOLEAN :
    \E asked \in SUBSET {t \in Peers(s) :
            ~ \E m \in net : m.caller = s /\ m.callee = t} :
    \E old \in SUBSET {t \in Peers(s) : sn[s].peer[t].leader # NoOne} :
      /\ Cardinality(net) + Cardinality(asked) <= MaxInFlight
      /\ start => /\ sn[s].failover_state = "NONE"
                  /\ sn[s].current_epoch < MaxEpoch
      /\ LET st == IF start THEN sentinelStartFailover(sn[s]) ELSE sn[s]
         IN \E r \in sentinelFailoverStateMachine(s, st) :
              /\ sentinelAskMasterStateToOtherSentinels(s,
                     IF start THEN st ELSE r.st, asked)
              /\ sn' = [sn EXCEPT ![s] = sentinelFailoverSwitchToPromotedSlave(
                                             ForgetReplies(r.st, old))]
              /\ Send(r.send)
              /\ elected' = elected \cup
                    (IF r.won THEN {[leader |-> Me(s), epoch |-> st.failover_epoch,
                                     current |-> st.current_epoch]}
                     ELSE {})
      /\ Vote(s)
      /\ UNCHANGED <<redis, events>>

\* SENTINEL is-master-down-by-addr: the vote is asked for the master at an
\* address, which this Sentinel may no longer monitor.
is_master_down_by_addr(m) ==
    /\ m \in net /\ m.type = "ask"
    /\ LET t == m.callee
           st == IF sn[t].addr = m.addr
                 THEN sentinelVoteLeader(sn[t], m.epoch, m.leader) ELSE sn[t]
           known == sn[t].addr = m.addr
       IN /\ sn' = [sn EXCEPT ![t] = st]
          /\ net' = (net \ {m}) \cup
                {[type |-> "reply", caller |-> m.caller, callee |-> t,
                  leader |-> IF known THEN st.leader ELSE NoOne,
                  epoch |-> IF known THEN st.leader_epoch ELSE 0]}
          /\ Vote(t)
    /\ UNCHANGED <<redis, commands, elected, events>>

sentinelReceiveIsMasterDownReply(m) ==
    /\ m \in net /\ m.type = "reply"
    /\ net' = net \ {m}
    /\ sn' = IF m.leader = NoOne THEN sn
             ELSE [sn EXCEPT ![m.caller].peer[m.callee] =
                       [@ EXCEPT !.leader = m.leader, !.leader_epoch = m.epoch]]
    /\ UNCHANGED <<redis, commands, votes, elected, events>>

\* A link breaks with a call under way.
LinkBreaks(m) ==
    /\ m \in net
    /\ net' = net \ {m}
    /\ UNCHANGED <<sn, redis, commands, votes, elected, events>>

\* Sentinel s handles a HELLO of Sentinel t: a t with a new run id replaces
\* the one known at its address, a newer epoch and a newer configuration are
\* taken over.
sentinelProcessHelloMessage(s, t) ==
    LET h == sn[t]
        addr == sentinelGetCurrentMasterAddress(h)
        isNew == sn[s].peer[t].runid # h.runid
        known == IF isNew
                 THEN sentinelFlushConfig([sn[s] EXCEPT !.peer[t] = NoVote(h.runid)])
                 ELSE sn[s]
        seen == IF h.current_epoch > known.current_epoch
                THEN sentinelFlushConfig([known EXCEPT !.current_epoch = h.current_epoch])
                ELSE known
        conf == IF seen.config_epoch < h.config_epoch
                THEN [seen EXCEPT !.config_epoch = h.config_epoch]
                ELSE seen
    IN /\ t # s
       /\ sn' = [sn EXCEPT ![s] =
                    IF seen.config_epoch < h.config_epoch /\ addr # seen.addr
                    THEN sentinelResetMasterAndChangeAddress(conf, addr)
                    ELSE conf]
       /\ net' = IF isNew THEN {m \in net : m.caller # s \/ m.callee # t} ELSE net
       /\ UNCHANGED <<redis, commands, votes, elected, events>>

\* Wrong: the promotion is not saved.
PromotedUnsaved(st) ==
    [st EXCEPT !.config_epoch = st.failover_epoch, !.failover_state = "RECONF_SLAVES"]

\* The promoted slave says it is a master: the new configuration counts from
\* now on.
Promoted(st) ==
    sentinelFlushConfig([st EXCEPT !.config_epoch = st.failover_epoch,
                                   !.failover_state = "RECONF_SLAVES"])

\* INFO of a slave.  sane: the master looks sane, and the slave has been up
\* and as it is for long enough to be set right; up: its link to its master.
sentinelRefreshSlaveInfo(s, a) ==
    /\ a \in sn[s].slaves
    /\ \E sane, up \in BOOLEAN :
        LET st == sn[s]
            isMaster == redis[a] = NoOne
            promotes == isMaster /\ a = st.promoted /\ st.failover_state = "WAIT_PROMOTION"
            fixes == sane /\ IF isMaster THEN a # st.promoted ELSE redis[a] # st.addr
            inprog == ~isMaster /\ a \in st.sent /\ redis[a] = st.promoted
            done == ~isMaster /\ up /\ (inprog \/ a \in st.inprog)
        IN /\ sn' = [sn EXCEPT ![s] =
                 IF promotes
                 THEN Promoted(st)
                 ELSE [st EXCEPT
                          !.sent = IF inprog THEN @ \ {a} ELSE @,
                          !.inprog = IF done THEN @ \ {a}
                                     ELSE IF inprog THEN @ \cup {a} ELSE @,
                          !.done = IF done THEN @ \cup {a} ELSE @]]
           /\ Send(IF fixes THEN {SlaveOf(a, st.addr)} ELSE {})
    /\ UNCHANGED <<net, redis, votes, elected, events>>

\* INFO of the master: the slaves it lists are added, and not saved.  (A server
\* that was told to replicate itself refuses the SYNC and does not list itself.)
sentinelRefreshMasterInfo(s) ==
    /\ sn' = [sn EXCEPT ![s].slaves =
                 @ \cup {a \in Instances \ {sn[s].addr} : redis[a] = sn[s].addr}]
    /\ UNCHANGED <<net, redis, commands, votes, elected, events>>

\* SENTINEL FAILOVER, refused when one is under way or no slave is good.
SentinelFailover(s) ==
    /\ Event
    /\ sn[s].failover_state = "NONE" /\ sn[s].slaves # {}
    /\ LET asked == {t \in Sentinels : t = s \/ sn[t].force \/ sn[t].config_epoch > 0}
       IN  Cardinality(UNION {{t} \X sn[t].slaves : t \in asked}) <= MaxForced
    /\ sn[s].current_epoch < MaxEpoch
    /\ sn' = [sn EXCEPT ![s] = [sentinelStartFailover(@) EXCEPT !.force = TRUE]]
    /\ UNCHANGED <<net, redis, commands, votes, elected>>

\* The failover of another master: current_epoch is one for all of them.  It
\* is saved with the vote that the same timer gives for that master.
FailoverOfOther(s) ==
    /\ Event
    /\ sn[s].current_epoch < MaxEpoch
    /\ sn' = [sn EXCEPT ![s] =
                 sentinelFlushConfig([sn[s] EXCEPT !.current_epoch = @ + 1])]
    /\ UNCHANGED <<net, redis, commands, votes, elected>>

\* A Sentinel ends and is started again on the file it left.
Restart(s) ==
    /\ Event
    /\ sn' = [sn EXCEPT ![s] = sentinelHandleConfiguration(@.disk, @.runid + 1, @.peer)]
    /\ net' = {m \in net : s \notin {m.caller, m.callee}}
    /\ UNCHANGED <<redis, commands, votes, elected>>

\* A Redis server executes a SLAVEOF, or it is lost with its link.
RedisSlaveOf(c) ==
    /\ c \in commands
    /\ commands' = commands \ {c}
    /\ redis' \in {redis, [redis EXCEPT ![c.to] = c.of]}
    /\ UNCHANGED <<sn, net, votes, elected, events>>

\* Every Sentinel has found the slaves of the master; other servers are alone.
Init ==
    /\ \E slaves \in SUBSET (Instances \ {FirstMaster}) :
         /\ Cardinality(slaves) >= MinSlaves
         /\ sn = [s \in Sentinels |->
                    sentinelHandleConfiguration(
                      [current_epoch |-> 0, config_epoch |-> 0, leader_epoch |-> 0,
                       slaves |-> slaves, addr |-> FirstMaster],
                      0, [t \in Peers(s) |-> NoVote(0)])]
         /\ redis = [a \in Instances |-> IF a \in slaves THEN FirstMaster ELSE NoOne]
    /\ net = {} /\ commands = {} /\ votes = {} /\ elected = {} /\ events = 0

Next ==
    \/ \E s \in Sentinels :
        \/ sentinelHandleRedisInstance(s)
        \/ \E t \in Sentinels : sentinelProcessHelloMessage(s, t)
        \/ \E a \in Instances : sentinelRefreshSlaveInfo(s, a)
        \/ sentinelRefreshMasterInfo(s)
        \/ SentinelFailover(s)
        \/ FailoverOfOther(s)
        \/ Restart(s)
    \/ \E m \in net :
        \/ is_master_down_by_addr(m)
        \/ sentinelReceiveIsMasterDownReply(m)
        \/ LinkBreaks(m)
    \/ \E c \in commands : RedisSlaveOf(c)

Spec == Init /\ [][Next]_vars

-----------------------------------------------------------------------------
\* Properties.

Addresses == Instances \cup {NoOne}
Epochs == 0..MaxEpoch
Leaders == RunIds \cup {NoOne}

\* Every field of the Sentinels, messages and histories has its type.
TypeOK ==
    /\ \A s \in Sentinels : LET st == sn[s] IN
        /\ {st.current_epoch, st.config_epoch, st.leader_epoch, st.failover_epoch}
              \subseteq Epochs
        /\ st.addr \in Instances /\ st.promoted \in Addresses
        /\ st.leader \in Leaders
        /\ st.failover_state \in States \ {"UPDATE_CONFIG"}
        /\ st.sent \cup st.inprog \cup st.done \subseteq st.slaves
        /\ st.slaves \subseteq Instances
        /\ \A t \in Peers(s) : st.peer[t].leader \in Leaders
    /\ redis \in [Instances -> Addresses]
    /\ \A c \in commands : c.to \in Instances /\ c.of \in Addresses

\* A Sentinel never votes for two leaders in one epoch, whatever it forgets in
\* a restart (the vote is saved before it is answered).
OneVotePerEpoch ==
    \A v, w \in votes : v.voter = w.voter /\ v.epoch = w.epoch => v = w

\* Two Sentinels that count votes of the epoch they started their failover in
\* are not both elected in it.
ElectionSafety ==
    \A e, f \in elected :
        e.epoch = f.epoch /\ e.current = e.epoch /\ f.current = f.epoch => e = f

\* What sentinelGetLeader promises, a majority of votes for one epoch, implies
\* this: no two Sentinels lead a failover with the same epoch, by which the
\* configurations they announce are ordered.
OneLeaderPerEpoch ==
    \A e, f \in elected : e.epoch = f.epoch => e.leader = f.leader

\* The master a Sentinel announces is the one its file names, so that a
\* restart at any time does not take an announcement back.
AnnouncedIsSaved ==
    \A s \in Sentinels : sentinelGetCurrentMasterAddress(sn[s]) = sn[s].disk.addr

\* promoted_slave is a slave that still exists while the state machine, or an
\* INFO of a slave being reconfigured, is to follow the pointer.
PromotedSafe ==
    \A s \in Sentinels : LET st == sn[s] IN
        /\ st.promoted # NoOne => st.promoted \in st.slaves
        /\ st.failover_state \in {"SEND_SLAVEOF_NOONE", "WAIT_PROMOTION", "RECONF_SLAVES"}
             => st.promoted # NoOne
        /\ st.sent \cup st.inprog # {} => st.promoted # NoOne

\* While the state machine reconfigures the slaves, at most parallel_syncs of
\* them are marked as told to follow the promoted one and have neither finished
\* nor been given up; the promoted one is never among them, a slave is told or
\* resynchronizing but not both, and no mark outlives the failover it was made
\* in, to count in the next one.  The step that ends a failover at its timeout is
\* not bounded: it tells all the slaves that are left at once, and the reset of
\* the same step takes their marks away (sentinelFailoverReconfNextSlave,
\* sentinelFailoverDetectEnd, sentinelRefreshInstanceInfo, sentinelResetMaster).
SyncsBounded ==
    \A s \in Sentinels :
        LET st == sn[s]
            marked == st.sent \cup st.inprog
        IN  /\ Cardinality(marked) <= ParallelSyncs
            /\ st.promoted \notin marked /\ st.sent \cap st.inprog = {}
            /\ marked # {} => st.failover_state = "RECONF_SLAVES"
================================================================================
