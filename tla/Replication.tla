------------------------------ MODULE Replication ------------------------------
(***************************************************************************)
(* One master and its slaves (replication.c, the slave part of             *)
(* networking.c, the RDB children of rdb.c): full synchronization through  *)
(* a disk or a socket child, the stream of writes, partial                 *)
(* resynchronization from the backlog, and what connection losses,         *)
(* timeouts, a failed child and a restart of the master do to them.        *)
(*                                                                         *)
(* One element of the replication stream has length 1: a SELECT, a write   *)
(* or a PING.  A dataset is the sequence of the writes applied, each with  *)
(* the database it was applied in, so a lost, repeated, reordered or       *)
(* misdirected write is visible.  A connection is a pair of FIFO queues.   *)
(***************************************************************************)
EXTENDS Integers, Sequences, SequencesExt, FiniteSets

CONSTANTS
    Slaves,         \* the slave instances
    Conns,          \* TCP connections, reused once both ends are closed
    NoConn,
    Dbs,            \* database numbers
    BacklogSize,    \* stream elements the backlog can hold
    DisklessModes,  \* values repl-diskless-sync can have
    MaxFeeds,       \* bound on client writes and PINGs of replicationCron
    MaxEvents,      \* bound on broken links, spurious timeouts, failed children,
                    \* restarts of the master, and BGSAVE and SLAVEOF commands
    MaxForkFails    \* bound on failed forks

ASSUME ReplAssumption ==
    /\ NoConn \notin Conns
    /\ Dbs \subseteq Nat /\ 0 \in Dbs
    /\ BacklogSize \in Nat \ {0}
    /\ DisklessModes \subseteq BOOLEAN
    /\ MaxFeeds \in Nat /\ MaxEvents \in Nat /\ MaxForkFails \in Nat

VARIABLES
    \* the master
    diskless,   \* server.repl_diskless_sync
    runid,      \* server.runid
    mdata,      \* its dataset
    seldb,      \* server.slaveseldb
    moff,       \* server.master_repl_offset
    bl,         \* the backlog: on, and the newest stream elements
    slaves,     \* server.slaves
    cl,         \* its client structure of each connection
    child,      \* the RDB child
    rdbfile,    \* dump.rdb
    \* the network
    chan,
    \* the slaves
    rs,         \* server.repl_state
    sc,         \* server.repl_transfer_s, or the socket of server.master
    master,     \* server.master
    cached,     \* server.cached_master
    init,       \* repl_master_runid, repl_master_initial_offset
    sdata,      \* dataset
    \* history
    hist,       \* per run id: the master's dataset at each offset, and the database
                \* a reader of the stream must have selected there, or -1
    pos,        \* per slave: is its offset that of its data?
    used        \* how much of each bound is spent

mvars == <<diskless, runid, mdata, seldb, moff, bl, slaves, cl, child, rdbfile>>
svars == <<rs, sc, master, cached, init, sdata>>
hvars == <<hist, pos, used>>
vars == <<mvars, chan, svars, hvars>>

(***************************************************************************)
(* Data.                                                                   *)
(***************************************************************************)
NoMaster == [on |-> FALSE, off |-> -1, run |-> -1, db |-> 0]
NoInit == [run |-> -1, off |-> -1]
NoRdb == [data |-> << >>, snap |-> -1]
NoChild == [type |-> "NONE", rdb |-> NoRdb, ids |-> {}, wrote |-> FALSE]
NewClient == [state |-> "NONE", out |-> << >>, wh |-> FALSE, onack |-> FALSE, rdb |-> NoRdb]
Closed == [s |-> NoConn, mopen |-> FALSE, sopen |-> FALSE, net |-> FALSE,
           m2s |-> << >>, s2m |-> << >>]
NoBacklog == [on |-> FALSE, win |-> << >>]

Sel(d) == <<"sel", d>>
Cmd(id) == <<"cmd", id>>
Ping == <<"ping">>

\* How a slave's dataset changes when it executes stream elements in turn.
Exec(st, e) ==
    CASE e[1] = "sel" -> [st EXCEPT !.db = e[2]]
      [] e[1] = "cmd" -> [st EXCEPT !.data = Append(@, <<e[2], st.db>>)]
      [] OTHER        -> st
Executed(st, q) ==
    LET after[i \in 0..Len(q)] == IF i = 0 THEN st ELSE Exec(after[i - 1], q[i])
    IN  after[Len(q)]

\* The clients of list q that are not in cs, in their order.
Without(q, cs) ==
    LET kept[i \in 0..Len(q)] ==
            IF i = 0 THEN << >>
            ELSE IF q[i] \in cs THEN kept[i - 1] ELSE Append(kept[i - 1], q[i])
    IN  kept[Len(q)]

\* Offset of the oldest byte held: repl_backlog_off.
BacklogOff == moff - Len(bl.win) + 1

Init ==
    /\ diskless \in DisklessModes
    /\ runid = 0 /\ mdata = << >> /\ seldb = -1 /\ moff = 0
    /\ bl = NoBacklog /\ slaves = << >>
    /\ cl = [c \in Conns |-> NewClient]
    /\ child = NoChild /\ rdbfile = NoRdb
    /\ chan = [c \in Conns |-> Closed]
    /\ rs = [s \in Slaves |-> "CONNECT"]
    /\ sc = [s \in Slaves |-> NoConn]
    /\ master = [s \in Slaves |-> NoMaster]
    /\ cached = [s \in Slaves |-> NoMaster]
    /\ init = [s \in Slaves |-> NoInit]
    /\ sdata = [s \in Slaves |-> << >>]
    /\ hist = [r \in 0..0 |-> << [db |-> -1, data |-> << >>] >>]
    /\ pos = [s \in Slaves |-> "exact"]
    /\ used = [feed |-> 0, event |-> 0, fork |-> 0]

Spend(k, max) == used[k] < max /\ used' = [used EXCEPT ![k] = @ + 1]

(***************************************************************************)
(* The network.                                                            *)
(***************************************************************************)

\* Bytes written to a dead link, or to a peer that closed, go nowhere.
MSend(ch, c, es) ==
    [ch EXCEPT ![c].m2s = IF ch[c].net /\ ch[c].sopen THEN @ \o es ELSE @]
SSend(ch, c, es) ==
    [ch EXCEPT ![c].s2m = IF ch[c].net /\ ch[c].mopen THEN @ \o es ELSE @]

\* close() by one end: what was already sent to the other end still arrives.
Normal(k) == IF ~k.mopen /\ ~k.sopen THEN Closed ELSE k
MClose(ch, cs) ==
    [c \in Conns |-> IF c \in cs THEN Normal([ch[c] EXCEPT !.mopen = FALSE, !.s2m = << >>])
                                 ELSE ch[c]]
SClose(ch, c) ==
    [ch EXCEPT ![c] = Normal([@ EXCEPT !.sopen = FALSE, !.m2s = << >>])]

\* read() returns 0 or an error: all that arrived was read, no more can come.
\* A socket child holds a copy of the descriptors it writes to.
SlaveEof(c) ==
    /\ chan[c].m2s = << >>
    /\ (~chan[c].mopen /\ c \notin child.ids) \/ ~chan[c].net
MasterEof(c) == chan[c].mopen /\ chan[c].s2m = << >> /\ (~chan[c].sopen \/ ~chan[c].net)

\* The link dies and loses what is in flight; the two ends find out by reading.
NetBreak(c) ==
    /\ chan[c].net
    /\ Spend("event", MaxEvents)
    /\ chan' = [chan EXCEPT ![c].net = FALSE, ![c].m2s = << >>, ![c].s2m = << >>]
    /\ UNCHANGED <<mvars, svars, hist, pos>>

(***************************************************************************)
(* The master: feeding the stream.                                         *)
(***************************************************************************)

\* addReply: the write handler is installed by the first byte queued, and only
\* for a slave that is online (prepareClientToWrite).
AddReply(k, es) ==
    [k EXCEPT !.out = @ \o es,
              !.wh = @ \/ (es # << >> /\ k.out = << >> /\ k.state \in {"NONE", "ONLINE"})]

\* What one slave is given of a fed command: nothing but the SELECT while its
\* RDB has not been started.
SlaveShareAll(k, sel, els) == els   \* wrong: the `continue' is missing
SlaveShare(k, sel, els) == IF k.state = "START" THEN sel ELSE els

\* replicationFeedSlaves: a SELECT goes to every slave when the stream's
\* database changes, also to the ones whose RDB has not been started; the
\* command skips those.
replicationFeedSlaves(d, e, data) ==
    LET sel == IF seldb = d THEN << >> ELSE <<Sel(d)>>
        els == Append(sel, e)
    IN  IF ~bl.on /\ slaves = << >>
        THEN UNCHANGED <<seldb, moff, bl, cl, hist>>
        ELSE /\ seldb' = d
             /\ moff' = moff + Len(els)
             /\ bl' = [bl EXCEPT !.win =
                         LET w == @ \o els IN
                         SubSeq(w, 1 + (IF Len(w) > BacklogSize THEN Len(w) - BacklogSize ELSE 0),
                                Len(w))]
             /\ cl' = [c \in Conns |->
                         IF c \notin Range(slaves) THEN cl[c]
                         ELSE AddReply(cl[c], SlaveShare(cl[c], sel, els))]
             /\ hist' = [hist EXCEPT ![runid] =
                         @ \o [i \in 1..Len(sel) |-> [db |-> d, data |-> mdata]]
                           \o << [db |-> d, data |-> data] >>]

\* A client writes: call() executes the command and propagates it.
Write(d) ==
    LET data == Append(mdata, <<used.feed + 1, d>>) IN
    /\ Spend("feed", MaxFeeds)
    /\ mdata' = data
    /\ replicationFeedSlaves(d, Cmd(used.feed + 1), data)
    /\ UNCHANGED <<diskless, runid, slaves, child, rdbfile, chan, svars, pos>>

\* replicationCron feeds a PING in whatever database the stream is in.
FeedPing ==
    /\ bl.on
    /\ Spend("feed", MaxFeeds)
    /\ replicationFeedSlaves(seldb, Ping, mdata)
    /\ UNCHANGED <<diskless, runid, mdata, slaves, child, rdbfile, chan, svars, pos>>

\* sendReplyToClient.
sendReplyToClient(c) ==
    /\ chan[c].mopen /\ cl[c].wh
    /\ chan' = MSend(chan, c, cl[c].out)
    /\ cl' = [cl EXCEPT ![c].out = << >>, ![c].wh = FALSE]
    /\ UNCHANGED <<diskless, runid, mdata, seldb, moff, bl, slaves, child, rdbfile, svars, hvars>>

\* History only: an RDB sent to k is at its offset if what k's buffer adds to it
\* is the stream from there on, and nothing else.
Marked(rdb, k) == [rdb EXCEPT !.snap = IF @ + Len(k.out) = moff THEN @ ELSE -2]

\* sendBulkToSlave, the whole file, and putSlaveOnline after the last chunk.
sendBulkToSlave(c) ==
    /\ chan[c].mopen /\ cl[c].state = "BULK"
    /\ chan' = MSend(chan, c, << <<"bulk", Marked(cl[c].rdb, cl[c])>> >>)
    /\ cl' = [cl EXCEPT ![c].state = "ONLINE", ![c].wh = TRUE, ![c].onack = FALSE,
                        ![c].rdb = NoRdb]
    /\ UNCHANGED <<diskless, runid, mdata, seldb, moff, bl, slaves, child, rdbfile, svars, hvars>>

\* Wrong: the clients stay in server.slaves.
freeClientsKeepList(cs) ==
    /\ chan' = MClose(chan, cs)
    /\ cl' = [c \in Conns |-> IF c \in cs THEN NewClient ELSE cl[c]]
    /\ UNCHANGED slaves
\* freeClient of the clients cs of the master.
freeClients(cs) ==
    /\ chan' = MClose(chan, cs)
    /\ slaves' = Without(slaves, cs)
    /\ cl' = [c \in Conns |-> IF c \in cs THEN NewClient ELSE cl[c]]

MasterReadEof(c) ==
    /\ MasterEof(c)
    /\ freeClients({c})
    /\ UNCHANGED <<diskless, runid, mdata, seldb, moff, bl, child, rdbfile, svars, hvars>>

\* A slave that will never send an ACK is dropped by replicationCron; another
\* one when its ACKs are late, or its output buffer is over the limit
\* (asyncCloseClientOnOutputBufferLimitReached).
Silent(c) ==
    /\ cl[c].state = "ONLINE"
    /\ \A s \in Slaves : sc[s] = c => rs[s] = "TRANSFER_LOST"
MasterDropsSlave(c) ==
    /\ c \in Range(slaves)
    /\ IF Silent(c) THEN UNCHANGED used ELSE Spend("event", MaxEvents)
    /\ freeClients({c})
    /\ UNCHANGED <<diskless, runid, mdata, seldb, moff, bl, child, rdbfile, svars, hist, pos>>

\* Wrong: freed while slaves are attached.
BacklogExpiresAlways ==
    /\ bl.on
    /\ bl' = NoBacklog
    /\ UNCHANGED <<diskless, runid, mdata, seldb, moff, slaves, cl, child, rdbfile, chan,
                   svars, hvars>>
\* replicationCron: no slaves for repl-backlog-ttl seconds.
BacklogExpires ==
    /\ bl.on /\ slaves = << >>
    /\ bl' = NoBacklog
    /\ UNCHANGED <<diskless, runid, mdata, seldb, moff, slaves, cl, child, rdbfile, chan,
                   svars, hvars>>

(***************************************************************************)
(* The master: RDB children and attaching slaves.                          *)
(***************************************************************************)
InState(k, ss, st) == {c \in Range(ss) : k[c].state = st}
SetState(k, cs, st) == [c \in Conns |-> IF c \in cs THEN [k[c] EXCEPT !.state = st] ELSE k[c]]

DiskChild(off) ==
    [NoChild EXCEPT !.type = "DISK", !.rdb = [data |-> mdata, snap |-> off]]
SocketChild(off, cs) ==
    [NoChild EXCEPT !.type = "SOCKET", !.rdb = [data |-> mdata, snap |-> off], !.ids = cs]

\* startBgsaveForReplication on the clients k of the slaves ss.  The socket
\* variant takes the slaves in WAIT_BGSAVE_START and moves them to
\* WAIT_BGSAVE_END before it forks, so also when the fork fails.
BgsaveClients(k, ss) ==
    IF diskless THEN SetState(k, InState(k, ss, "START"), "END") ELSE k
BgsaveChild(k, ss, off, forked) ==
    IF ~forked THEN NoChild
    ELSE IF diskless THEN SocketChild(off, InState(k, ss, "START")) ELSE DiskChild(off)

\* Whether fork() works, within the bound on failures.
ForkResult(forked) ==
    forked \/ used.fork < MaxForkFails
UsedFork(forked) == IF forked THEN 0 ELSE 1

\* Wrong: the run id is not compared.
CanContinueAnyRun(run, off) ==
    /\ bl.on
    /\ off >= BacklogOff
    /\ off <= BacklogOff + Len(bl.win)
\* masterTryPartialResynchronization: same run, and the offset is in the backlog.
CanContinue(run, off) ==
    /\ run = runid
    /\ bl.on
    /\ off >= BacklogOff
    /\ off <= BacklogOff + Len(bl.win)

\* +CONTINUE is written at once, the backlog goes through the output buffer.
AcceptPartial(c, off) ==
    /\ chan' = MSend([chan EXCEPT ![c].s2m = Tail(@)], c, << <<"cont">> >>)
    /\ cl' = [cl EXCEPT ![c] =
                AddReply([NewClient EXCEPT !.state = "ONLINE"],
                         SubSeq(bl.win, off - BacklogOff + 1, Len(bl.win)))]
    /\ slaves' = Append(slaves, c)
    /\ UNCHANGED <<diskless, runid, mdata, seldb, moff, bl, child, rdbfile, svars, hvars>>

\* createReplicationBacklog, called by syncCommand for the first slave.
CreateBacklog == ~bl.on /\ slaves = << >>

\* The state syncCommand attaches a slave in.  It joins a running disk child
\* only through another slave that has been collecting the stream since the
\* fork: the first one in the list gives a copy of its buffer.
AttachAnyChild(c) ==    \* wrong: joins a child nobody collects the stream for
    IF ~diskless \/ child.type = "DISK" THEN [cl[c] EXCEPT !.state = "END"]
                                        ELSE [cl[c] EXCEPT !.state = "START"]
Attach(c) ==
    LET ends == {i \in 1..Len(slaves) : cl[slaves[i]].state = "END"} IN
    CASE child.type = "DISK" /\ ends # {} ->
            [cl[c] EXCEPT !.state = "END", !.out = cl[slaves[Min(ends)]].out]
      [] child.type = "NONE" /\ ~diskless -> [cl[c] EXCEPT !.state = "END"]
      [] OTHER -> [cl[c] EXCEPT !.state = "START"]

\* The rest of syncCommand: a full synchronization.
FullSync(c, line, forked) ==
    LET ch   == MSend([chan EXCEPT ![c].s2m = Tail(@)], c, line)
        noff == IF CreateBacklog THEN moff + 1 ELSE moff
        fork == child.type = "NONE" /\ ~diskless
    IN  /\ chan' = ch
        /\ used' = [used EXCEPT !.fork = @ + UsedFork(forked)]
        /\ fork \/ forked
        /\ ForkResult(forked)
        /\ IF fork /\ ~forked
           THEN /\ cl' = [cl EXCEPT ![c] = AddReply(@, << <<"err">> >>)]
                /\ UNCHANGED <<child, seldb, slaves, bl, moff, hist>>
           ELSE /\ child' = IF fork THEN DiskChild(noff) ELSE child
                /\ cl' = [cl EXCEPT ![c] = Attach(c)]
                /\ seldb' = -1
                /\ slaves' = Append(slaves, c)
                /\ bl' = [bl EXCEPT !.on = TRUE]
                /\ moff' = noff
                /\ hist' = IF CreateBacklog
                           THEN [hist EXCEPT ![runid] = Append(@, [db |-> -1, data |-> mdata])]
                           ELSE [hist EXCEPT ![runid][moff + 1].db = -1]
        /\ UNCHANGED <<diskless, runid, mdata, rdbfile, svars, pos>>

\* Offset announced by +FULLRESYNC: the one that holds once the backlog exists.
FullResyncLine == << <<"full", runid, IF bl.on THEN moff ELSE moff + 1>> >>

\* SYNC and PSYNC.  A client that is a slave already is ignored.
syncCommand(c) ==
    /\ chan[c].mopen /\ chan[c].s2m # << >>
    /\ LET msg == Head(chan[c].s2m) IN
       /\ msg[1] \in {"PSYNC", "SYNC"}
       /\ \/ /\ cl[c].state # "NONE"
             /\ chan' = [chan EXCEPT ![c].s2m = Tail(@)]
             /\ UNCHANGED <<mvars, svars, hvars>>
          \/ /\ cl[c].state = "NONE"
             /\ msg[1] = "PSYNC" /\ CanContinue(msg[2], msg[3])
             /\ AcceptPartial(c, msg[3])
          \/ /\ cl[c].state = "NONE"
             /\ ~(msg[1] = "PSYNC" /\ CanContinue(msg[2], msg[3]))
             /\ \E forked \in BOOLEAN :
                  FullSync(c, IF msg[1] = "PSYNC" THEN FullResyncLine ELSE << >>, forked)

\* Wrong: the write handler is not installed.
replconfAckNoHandler(c) ==
    /\ chan[c].mopen /\ chan[c].s2m # << >> /\ Head(chan[c].s2m) = <<"ACK">>
    /\ chan' = [chan EXCEPT ![c].s2m = Tail(@)]
    /\ cl' = [cl EXCEPT ![c].onack = FALSE]
    /\ UNCHANGED <<diskless, runid, mdata, seldb, moff, bl, slaves, child, rdbfile, svars, hvars>>
\* REPLCONF ACK puts a slave of a socket child online (replconfCommand).
replconfAck(c) ==
    /\ chan[c].mopen /\ chan[c].s2m # << >> /\ Head(chan[c].s2m) = <<"ACK">>
    /\ chan' = [chan EXCEPT ![c].s2m = Tail(@)]
    /\ cl' = IF cl[c].onack /\ cl[c].state = "ONLINE"
             THEN [cl EXCEPT ![c].onack = FALSE, ![c].wh = TRUE] ELSE cl
    /\ UNCHANGED <<diskless, runid, mdata, seldb, moff, bl, slaves, child, rdbfile, svars, hvars>>

\* BGSAVE by a client or a save point.
bgsaveCommand ==
    /\ child.type = "NONE"
    /\ Spend("event", MaxEvents)
    /\ child' = DiskChild(moff)
    /\ UNCHANGED <<diskless, runid, mdata, seldb, moff, bl, slaves, cl, rdbfile, chan, svars,
                   hist, pos>>

\* replicationCron: slaves wait and no child runs (the diskless delay is over).
CronBgsave(forked) ==
    LET waiting == InState(cl, slaves, "START") IN
    /\ child.type = "NONE" /\ waiting # {}
    /\ ForkResult(forked)
    /\ used' = [used EXCEPT !.fork = @ + UsedFork(forked)]
    /\ child' = BgsaveChild(cl, slaves, moff, forked)
    /\ cl' = IF forked THEN SetState(cl, waiting, "END") ELSE BgsaveClients(cl, slaves)
    /\ UNCHANGED <<diskless, runid, mdata, seldb, moff, bl, slaves, rdbfile, chan, svars,
                   hist, pos>>

\* The socket child streams the RDB and its EOF mark to the slaves it was
\* forked for; the dead ones are reported to the parent.
SocketChildWrites ==
    LET live == {c \in child.ids : chan[c].net /\ chan[c].sopen} IN
    /\ child.type = "SOCKET" /\ ~child.wrote
    /\ chan' = [c \in Conns |->
                  IF c \in live THEN [chan[c] EXCEPT !.m2s = Append(@, <<"eof", Marked(child.rdb, cl[c])>>)]
                                ELSE chan[c]]
    /\ child' = [child EXCEPT !.wrote = TRUE, !.ids = live]
    /\ UNCHANGED <<diskless, runid, mdata, seldb, moff, bl, slaves, cl, rdbfile, svars, hvars>>

\* backgroundSaveDoneHandler and updateSlavesWaitingBgsave.  After a socket
\* child the slaves it did not serve are closed first; after a disk child that
\* failed the ones waiting for its file are.  The slaves that attached too late
\* for this child are moved to WAIT_BGSAVE_END, then a new child is started.
ChildDone(ok, forked) ==
    LET ends  == InState(cl, slaves, "END")
        late  == InState(cl, slaves, "START")
        file  == IF ok /\ child.type = "DISK" THEN child.rdb ELSE rdbfile
        drop  == IF child.type = "SOCKET" THEN (IF ok THEN ends \ child.ids ELSE ends)
                                          ELSE (IF ok THEN {} ELSE ends)
        ss    == Without(slaves, drop)
        moved == [c \in Conns |->
                    CASE c \in drop -> NewClient
                      [] c \in late -> [cl[c] EXCEPT !.state = "END"]
                      [] c \in ends \ drop /\ child.type = "DISK" ->
                            [cl[c] EXCEPT !.state = "BULK", !.wh = FALSE, !.rdb = file]
                      [] c \in ends \ drop /\ child.type = "SOCKET" ->
                            [cl[c] EXCEPT !.state = "ONLINE", !.onack = TRUE]
                      [] OTHER -> cl[c]]
    IN
    /\ child.type # "NONE"
    /\ child.type = "SOCKET" /\ ok => child.wrote /\ child.ids # {}
    /\ ok \/ used.event < MaxEvents \/ (child.type = "SOCKET" /\ child.wrote /\ child.ids = {})
    /\ late # {} \/ forked
    /\ ForkResult(forked)
    /\ used' = [used EXCEPT
                  !.fork = @ + UsedFork(forked),
                  !.event = @ + IF ok \/ (child.type = "SOCKET" /\ child.wrote /\ child.ids = {})
                                THEN 0 ELSE 1]
    /\ rdbfile' = file
    /\ slaves' = ss
    /\ chan' = MClose(chan, drop)
    /\ child' = IF late = {} THEN NoChild ELSE BgsaveChild(moved, ss, moff, forked)
    /\ cl' = IF late = {} THEN moved ELSE BgsaveClients(moved, ss)
    /\ UNCHANGED <<diskless, runid, mdata, seldb, moff, bl, svars, hist, pos>>

\* The master dies and comes back with the last RDB and a new run id.
MasterRestarts ==
    /\ Spend("event", MaxEvents)
    /\ runid' = runid + 1
    /\ mdata' = rdbfile.data
    /\ seldb' = -1 /\ moff' = 0 /\ bl' = NoBacklog /\ slaves' = << >>
    /\ cl' = [c \in Conns |-> NewClient]
    /\ child' = NoChild
    /\ chan' = MClose(chan, Conns)
    /\ hist' = [r \in 0..(runid + 1) |->
                  IF r = runid + 1 THEN << [db |-> -1, data |-> rdbfile.data] >> ELSE hist[r]]
    /\ UNCHANGED <<diskless, rdbfile, svars, pos>>

(***************************************************************************)
(* A slave.                                                                *)
(***************************************************************************)
Head1(c) == Head(chan[c].m2s)
CanRead(s, st) == rs[s] = st /\ chan[sc[s]].m2s # << >>
Consumed(c) == [chan EXCEPT ![c].m2s = Tail(@)]

\* replicationCron in CONNECT: connectWithMaster, accepted by the master.
connectWithMaster(s, c) ==
    /\ rs[s] = "CONNECT"
    /\ chan[c] = Closed /\ c \notin child.ids
    /\ chan' = [chan EXCEPT ![c] = [Closed EXCEPT !.s = s, !.mopen = TRUE, !.sopen = TRUE,
                                                  !.net = TRUE]]
    /\ sc' = [sc EXCEPT ![s] = c]
    /\ rs' = [rs EXCEPT ![s] = "CONNECTING"]
    /\ UNCHANGED <<mvars, master, cached, init, sdata, hvars>>

\* syncWithMaster: PING, PONG and REPLCONF listening-port, which leave no trace
\* at the master (RECEIVE_PONG is part of CONNECTING here), then PSYNC
\* (slaveTryPartialResynchronization).  From here until the reply the slave is
\* blocked in sendSynchronousCommand.
SendPsync(s) ==
    /\ rs[s] = "CONNECTING"
    /\ chan[sc[s]].mopen /\ chan[sc[s]].net
    /\ LET m == cached[s] IN
       chan' = SSend(chan, sc[s],
                     << <<"PSYNC", IF m.on THEN m.run ELSE -1, IF m.on THEN m.off + 1 ELSE -1>> >>)
    /\ init' = [init EXCEPT ![s] = NoInit]
    /\ rs' = [rs EXCEPT ![s] = "PSYNC"]
    /\ UNCHANGED <<mvars, sc, master, cached, sdata, hvars>>

\* The reply is +FULLRESYNC: the cached master is of no use any more.
ReadFullResync(s) ==
    /\ CanRead(s, "PSYNC") /\ Head1(sc[s])[1] = "full"
    /\ init' = [init EXCEPT ![s] = [run |-> Head1(sc[s])[2], off |-> Head1(sc[s])[3]]]
    /\ cached' = [cached EXCEPT ![s] = NoMaster]
    /\ rs' = [rs EXCEPT ![s] = "TRANSFER"]
    /\ chan' = Consumed(sc[s])
    /\ UNCHANGED <<mvars, sc, master, sdata, hvars>>

\* The reply is +CONTINUE: replicationResurrectCachedMaster.
ReadContinue(s) ==
    /\ CanRead(s, "PSYNC") /\ Head1(sc[s])[1] = "cont"
    /\ master' = [master EXCEPT ![s] = cached[s]]
    /\ cached' = [cached EXCEPT ![s] = NoMaster]
    /\ rs' = [rs EXCEPT ![s] = "CONNECTED"]
    /\ pos' = [pos EXCEPT ![s] = IF @ = "exact" THEN @ ELSE "tainted"]
    /\ chan' = Consumed(sc[s])
    /\ UNCHANGED <<mvars, sc, init, sdata, hist, used>>

\* No reply (end of file, or a timeout): the cached master is dropped and SYNC
\* is tried on the same socket.
PsyncReadFails(s) ==
    /\ rs[s] = "PSYNC"
    /\ IF SlaveEof(sc[s]) THEN UNCHANGED used ELSE Spend("event", MaxEvents)
    /\ cached' = [cached EXCEPT ![s] = NoMaster]
    /\ chan' = SSend(chan, sc[s], << <<"SYNC">> >>)
    /\ rs' = [rs EXCEPT ![s] = "TRANSFER"]
    /\ UNCHANGED <<mvars, sc, master, init, sdata, hist, pos>>

\* readSyncBulkPayload up to the last byte: load the RDB, make server.master.
LoadRdb(s, rdb) ==
    /\ sdata' = [sdata EXCEPT ![s] = rdb.data]
    /\ master' = [master EXCEPT ![s] =
                    [on |-> TRUE, off |-> init[s].off, run |-> init[s].run, db |-> 0]]
    /\ rs' = [rs EXCEPT ![s] = "CONNECTED"]
    /\ pos' = [pos EXCEPT ![s] = IF init[s].off = rdb.snap THEN "exact" ELSE "shifted"]
    /\ chan' = Consumed(sc[s])
    /\ UNCHANGED <<mvars, sc, cached, init, hist, used>>

readSyncBulkPayload(s) ==
    /\ CanRead(s, "TRANSFER")
    /\ Head1(sc[s])[1] \in {"bulk", "eof"}
    /\ LoadRdb(s, Head1(sc[s])[2])

\* A streamed RDB ends where the last 40 bytes READ are the EOF mark: bytes
\* that follow in the same read() hide it, and the slave goes on reading.
EofMarkMissed(s) ==
    /\ CanRead(s, "TRANSFER")
    /\ Head1(sc[s])[1] = "eof" /\ Len(chan[sc[s]].m2s) > 1
    /\ rs' = [rs EXCEPT ![s] = "TRANSFER_LOST"]
    /\ chan' = [chan EXCEPT ![sc[s]].m2s = << >>]
    /\ UNCHANGED <<mvars, sc, master, cached, init, sdata, hvars>>
SwallowStream(s) ==
    /\ CanRead(s, "TRANSFER_LOST")
    /\ chan' = Consumed(sc[s])
    /\ UNCHANGED <<mvars, svars, hvars>>

\* close() by the slave, back to CONNECT.
Reconnect(s) ==
    /\ rs' = [rs EXCEPT ![s] = "CONNECT"]
    /\ sc' = [sc EXCEPT ![s] = NoConn]
    /\ chan' = SClose(chan, sc[s])

\* undoConnectWithMaster, replicationAbortSyncTransfer: an error line, the end
\* of the connection, or repl-timeout.  RDB loading may fail after the dataset
\* was emptied.
Handshake == {"CONNECTING", "TRANSFER", "TRANSFER_LOST"}
AbortSync(s) ==
    /\ rs[s] \in Handshake
    /\ \/ /\ \/ SlaveEof(sc[s])
             \/ CanRead(s, "TRANSFER") /\ Head1(sc[s])[1] \in {"err", "full", "cont"}
          /\ UNCHANGED <<used, sdata>>
       \/ /\ Spend("event", MaxEvents)
          /\ UNCHANGED sdata
       \/ /\ CanRead(s, "TRANSFER") /\ Head1(sc[s])[1] \in {"bulk", "eof"}
          /\ Spend("event", MaxEvents)
          /\ sdata' = [sdata EXCEPT ![s] = << >>]
    /\ Reconnect(s)
    /\ UNCHANGED <<mvars, master, cached, init, hist, pos>>

\* The stream: every byte read from the master moves reploff.
ReadStream(s) ==
    LET c == sc[s]
        st == Exec([db |-> master[s].db, data |-> sdata[s]], Head1(c))
    IN
    /\ CanRead(s, "CONNECTED")
    /\ sdata' = [sdata EXCEPT ![s] = st.data]
    /\ master' = [master EXCEPT ![s].db = st.db, ![s].off = @ + 1]
    /\ chan' = Consumed(c)
    /\ UNCHANGED <<mvars, rs, sc, cached, init, hvars>>

\* replicationSendAck.  An ACK the master has no use for is left out.
replicationSendAck(s) ==
    /\ rs[s] = "CONNECTED" /\ cl[sc[s]].onack /\ chan[sc[s]].s2m = << >>
    /\ chan[sc[s]].net /\ chan[sc[s]].mopen
    /\ chan' = SSend(chan, sc[s], << <<"ACK">> >>)
    /\ UNCHANGED <<mvars, svars, hvars>>

\* freeClient(server.master) at the end of the connection or after
\* repl-timeout: replicationCacheMaster.
MasterLost(s) ==
    /\ rs[s] = "CONNECTED"
    /\ IF SlaveEof(sc[s]) THEN UNCHANGED used ELSE Spend("event", MaxEvents)
    /\ cached' = [cached EXCEPT ![s] = master[s]]
    /\ master' = [master EXCEPT ![s] = NoMaster]
    /\ Reconnect(s)
    /\ UNCHANGED <<mvars, init, sdata, hist, pos>>

\* SLAVEOF NO ONE (replicationUnsetMaster), and SLAVEOF back to the master
\* (replicationSetMaster).
replicationUnsetMaster(s) ==
    /\ rs[s] \notin {"NONE", "PSYNC"}
    /\ Spend("event", MaxEvents)
    /\ rs' = [rs EXCEPT ![s] = "NONE"]
    /\ sc' = [sc EXCEPT ![s] = NoConn]
    /\ chan' = IF sc[s] = NoConn THEN chan ELSE SClose(chan, sc[s])
    /\ master' = [master EXCEPT ![s] = NoMaster]
    /\ cached' = [cached EXCEPT ![s] = NoMaster]
    /\ UNCHANGED <<mvars, init, sdata, hist, pos>>
replicationSetMaster(s) ==
    /\ rs[s] = "NONE"
    /\ rs' = [rs EXCEPT ![s] = "CONNECT"]
    /\ UNCHANGED <<mvars, chan, sc, master, cached, init, sdata, hvars>>

(***************************************************************************)
(* The system.                                                             *)
(***************************************************************************)
MasterStep(c) ==
    \/ sendReplyToClient(c) \/ sendBulkToSlave(c) \/ MasterReadEof(c)
    \/ syncCommand(c) \/ replconfAck(c)

SlaveStep(s) ==
    \/ SendPsync(s) \/ ReadFullResync(s) \/ ReadContinue(s)
    \/ readSyncBulkPayload(s) \/ EofMarkMissed(s) \/ SwallowStream(s)
    \/ ReadStream(s) \/ replicationSendAck(s)
    \/ PsyncReadFails(s) \/ AbortSync(s) \/ MasterLost(s)
    \/ replicationUnsetMaster(s) \/ replicationSetMaster(s)
    \/ \E c \in Conns : connectWithMaster(s, c)

MasterAlone ==
    \/ \E d \in Dbs : Write(d)
    \/ FeedPing \/ BacklogExpires \/ bgsaveCommand \/ SocketChildWrites \/ MasterRestarts
    \/ \E forked \in BOOLEAN : CronBgsave(forked)
    \/ \E ok, forked \in BOOLEAN : ChildDone(ok, forked)

Next ==
    \/ MasterAlone
    \/ \E c \in Conns : MasterStep(c) \/ MasterDropsSlave(c) \/ NetBreak(c)
    \/ \E s \in Slaves : SlaveStep(s)

Spec == Init /\ [][Next]_vars

(***************************************************************************)
(* Properties.                                                             *)
(***************************************************************************)

\* Every variable keeps to the values the code gives it.
TypeOK ==
    /\ diskless \in BOOLEAN
    /\ runid \in 0..MaxEvents
    /\ seldb \in Dbs \cup {-1}
    /\ moff \in Nat
    /\ Len(bl.win) <= BacklogSize
    /\ slaves \in Seq(Conns) /\ IsInjective(slaves)
    /\ \A c \in Conns :
         /\ cl[c].state \in {"NONE", "START", "END", "BULK", "ONLINE"}
         /\ (cl[c].state # "NONE") = (c \in Range(slaves))
    /\ child.type \in {"NONE", "DISK", "SOCKET"}
    /\ rs \in [Slaves -> {"NONE", "CONNECT", "PSYNC", "CONNECTED"} \cup Handshake]
    /\ \A s \in Slaves : (sc[s] # NoConn) = (rs[s] \notin {"NONE", "CONNECT"})
    /\ \A s \in Slaves : master[s].on = (rs[s] = "CONNECTED")

\* What slave s will hold once everything on its way to it has been executed.
Delivered(s) ==
    LET c == sc[s] IN
    Executed([db |-> master[s].db, data |-> sdata[s]], chan[c].m2s \o cl[c].out).data

Linked(s) ==
    /\ rs[s] = "CONNECTED"
    /\ chan[sc[s]].mopen /\ chan[sc[s]].net
    /\ sc[s] \in Range(slaves)

\* A slave that has loaded its RDB and is still connected is going to have
\* exactly the master's writes, in order, each in its database: the RDB, the
\* buffer collected meanwhile and the stream join without a gap or an overlap,
\* whichever child served it, whoever it copied its buffer from and however it
\* resumed (a resume from a wrongly announced offset excepted).
SyncExact == \A s \in Slaves : Linked(s) /\ pos[s] # "tainted" => Delivered(s) = mdata

\* The offset a slave keeps names its dataset: if the RDB was taken at the
\* announced offset, then at every later offset, connected or cached, through
\* any number of partial resynchronizations, the slave's data is what the
\* master of that run id had at that offset, and the database the stream goes
\* on in is selected.  PSYNC relies on both.
OffsetNamesData ==
    \A s \in Slaves : pos[s] = "exact" =>
        \A m \in {master[s], cached[s]} : m.on /\ m.run >= 0 =>
            /\ m.off < Len(hist[m.run])
            /\ sdata[s] = hist[m.run][m.off + 1].data
            /\ hist[m.run][m.off + 1].db \in {-1, m.db}

\* replicationFeedSlaves asserts that slaves never outlive the backlog, and
\* replicationCacheMaster that no master is cached already.
AssertionsHold ==
    /\ slaves # << >> => bl.on
    /\ \A s \in Slaves : rs[s] \in {"CONNECTED", "NONE"} => ~cached[s].on

\* The same as SyncExact without the exception: what the comment above
\* replicationResurrectCachedMaster assumes of a partial resynchronization.
ResumeExact == \A s \in Slaves : Linked(s) => Delivered(s) = mdata

\* The event loops and crons of both sides run, children end, and a slave that
\* does not answer is dropped.  Writes, failures and commands need not happen.
Fairness ==
    /\ \A c \in Conns : WF_vars(MasterStep(c)) /\ WF_vars(MasterDropsSlave(c) /\ Silent(c))
    /\ \A s \in Slaves :
         /\ WF_vars(SlaveStep(s) /\ UNCHANGED used /\ ~replicationSetMaster(s))
    /\ WF_vars(SocketChildWrites)
    /\ WF_vars(CronBgsave(TRUE))
    /\ WF_vars(ChildDone(TRUE, TRUE)) /\ WF_vars(ChildDone(FALSE, TRUE) /\ UNCHANGED used)

FairSpec == Spec /\ Fairness

\* After the last failure every slave that has a master ends up connected to
\* it, whatever states the master and the slaves were left in, and holds the
\* master's data.
EventuallyInSync ==
    \A s \in Slaves :
        <>[](\/ rs[s] = "NONE"
             \/ rs[s] = "CONNECTED" /\ (pos[s] = "tainted" \/ sdata[s] = mdata))
================================================================================
