---------------------------------- MODULE Aof ----------------------------------
(***************************************************************************)
(* The append only file (aof.c, bio.c, the AOF part of serverCron): the    *)
(* buffer and its flush under the three fsync policies, the background     *)
(* fsync thread, the rewrite child with its pipes, the switch to the       *)
(* rewritten file, and what loading finds after a crash.                   *)
(*                                                                         *)
(* A file is the sequence of the commands in it: SELECT, MULTI, EXEC and   *)
(* writes.  `dur' is how much of the current file is on the disk; a crash  *)
(* of the machine keeps that much or more, a crash of the process all.     *)
(***************************************************************************)
EXTENDS Integers, Sequences

CONSTANTS
    DbNum,          \* server.dbnum
    Policies,       \* values of appendfsync: "always", "everysec", "no"
    Sizes,          \* commands per client request: 1, or more inside MULTI/EXEC
    PipeSize,       \* commands the pipe to the child can hold
    MaxWrites,      \* bound on client requests
    MaxEvents,      \* bound on rewrites, CONFIG SET appendonly and failures
    MaxCrashes      \* bound on restarts

ASSUME AofAssumption ==
    /\ DbNum \in Nat \ {0}
    /\ Policies \subseteq {"always", "everysec", "no"}
    /\ Sizes \subseteq Nat \ {0}
    /\ PipeSize \in Nat \ {0}
    /\ {MaxWrites, MaxEvents, MaxCrashes} \subseteq Nat

VARIABLES
    policy,     \* server.aof_fsync
    mem,        \* the dataset: per database, the writes applied to it
    state,      \* server.aof_state
    fd,         \* server.aof_fd: -1, the current file, or a closed descriptor
    seldb,      \* server.aof_selected_db
    buf,        \* server.aof_buf
    cur,        \* the append only file
    dur,        \* length of its part known to be on disk
    jobs,       \* fsync jobs of the bio thread, each for this or an older file
    due,        \* unixtime > aof_last_fsync
    postponed,  \* seconds since aof_flush_postponed_start, if set (0 is unset)
    werr,       \* aof_last_write_status is REDIS_ERR
    scheduled,  \* server.aof_rewrite_scheduled
    child,      \* the rewrite child: its phase, and its temporary file
    rwbuf,      \* server.aof_rewrite_buf_blocks
    pipe,       \* data sent to the child and not read by it
    stop,       \* server.aof_stop_sending_diff
    past,       \* history: the datasets since the start, after each write
    acked,      \* history: the last one of these whose write was answered
    slept,      \* history: the last one when beforeSleep last ran
    used        \* how much of each bound is spent

filevars == <<fd, cur, dur, jobs>>
flushvars == <<due, postponed, werr>>
childvars == <<scheduled, child, rwbuf, pipe, stop>>
vars == <<policy, mem, state, seldb, buf, past, acked, slept, used, filevars, flushvars, childvars>>

Sel(d) == <<"sel", d>>
Cmd(id) == <<"cmd", id>>
NoChild == [phase |-> "none", tmp |-> << >>]
Dbs == 0..(DbNum - 1)
Empty == [d \in Dbs |-> << >>]

(***************************************************************************)
(* Loading.                                                                *)
(***************************************************************************)

\* One command executed by the fake client of loadAppendOnlyFile.  It calls the
\* command itself: what follows a MULTI is executed at once, not queued, and the
\* EXEC has nothing left to do.
RunCmd(st, e) ==
    CASE e[1] = "sel" -> [st EXCEPT !.db = e[2]]
      [] e[1] = "cmd" -> [st EXCEPT !.data[st.db] = Append(@, e[2])]
      [] e[1] \in {"multi", "exec"} -> st

\* The fake client after the commands of a file, one by one.
Run(st, file) ==
    LET run[i \in 0..Len(file)] == IF i = 0 THEN st ELSE RunCmd(run[i - 1], file[i])
    IN  run[Len(file)]

\* loadAppendOnlyFile.  A file that ends inside MULTI is loaded anyway, with
\* aof-load-truncated, and cut at its last command, that is not at all.
loadAppendOnlyFile(file) == Run([db |-> 0, data |-> Empty], file).data

\* What rewriteAppendOnlyFile writes for a dataset: a SELECT and the commands
\* that rebuild it, database by database.
RebuildDb(m, d) ==
    IF m[d] = << >> THEN << >> ELSE <<Sel(d)>> \o [i \in 1..Len(m[d]) |-> Cmd(m[d][i])]
Rebuild(m) ==
    LET file[j \in 0..DbNum] == IF j = 0 THEN << >> ELSE file[j - 1] \o RebuildDb(m, j - 1)
    IN  file[DbNum]

Init ==
    /\ policy \in Policies
    /\ mem = Empty /\ past = <<Empty>> /\ acked = 1 /\ slept = 1
    /\ state \in {"ON", "OFF"}     \* appendonly yes or no
    /\ fd = (IF state = "ON" THEN "current" ELSE "none")
    /\ seldb = -1 /\ buf = << >>
    /\ cur = << >> /\ dur = 0 /\ jobs = << >>
    /\ due = FALSE /\ postponed = 0 /\ werr = FALSE
    /\ scheduled = FALSE /\ child = NoChild /\ rwbuf = << >> /\ pipe = << >> /\ stop = FALSE
    /\ used = [write |-> 0, event |-> 0, crash |-> 0]

Spend(k, max) == used[k] < max /\ used' = [used EXCEPT ![k] = @ + 1]

(***************************************************************************)
(* Feeding and flushing.                                                   *)
(***************************************************************************)

\* feedAppendOnlyFile: the file gets the commands when the AOF is on, the
\* rewrite child while there is one.
feedAppendOnlyFile(d, cmds) ==
    LET els == (IF seldb = d THEN << >> ELSE <<Sel(d)>>) \o cmds IN
    /\ seldb' = d
    /\ buf' = IF state = "ON" THEN buf \o els ELSE buf
    /\ rwbuf' = IF child.phase # "none" THEN rwbuf \o els ELSE rwbuf

\* A client request of n writes on database d, a transaction if n > 1.
\* Writes are refused after a write error (processCommand).
Write(d, n) ==
    LET ids  == [i \in 1..n |-> <<used.write, i>>]
        cmds == [i \in 1..n |-> Cmd(ids[i])]
    IN
    /\ ~werr
    /\ Spend("write", MaxWrites)
    /\ mem' = [mem EXCEPT ![d] = @ \o ids]
    /\ past' = past \o [i \in 1..n |-> [mem EXCEPT ![d] = @ \o SubSeq(ids, 1, i)]]
    /\ IF state = "OFF" THEN UNCHANGED <<seldb, buf, rwbuf>>
       ELSE feedAppendOnlyFile(d, IF n = 1 THEN cmds
                                  ELSE << <<"multi">> >> \o cmds \o << <<"exec">> >>)
    /\ UNCHANGED <<policy, state, acked, slept, filevars, flushvars, scheduled, child, pipe, stop>>

\* Wrong: the two seconds are not counted.
MustPostponeForever == policy = "everysec" /\ jobs # << >>
\* flushAppendOnlyFile(0) has to wait for the running background fsync.
MustPostpone == policy = "everysec" /\ jobs # << >> /\ postponed < 2

\* write(2) and what follows a complete one: fsync according to the policy.
FlushWrites ==
    /\ cur' = cur \o buf
    /\ buf' = << >>
    /\ postponed' = 0 /\ werr' = FALSE
    /\ CASE policy = "always" -> dur' = Len(cur') /\ UNCHANGED jobs
         [] policy = "everysec" /\ due ->
              jobs' = (IF jobs = << >> THEN <<"current">> ELSE jobs) /\ UNCHANGED dur
         [] OTHER -> UNCHANGED <<dur, jobs>>
    /\ due' = FALSE
    /\ UNCHANGED fd

\* A write that fails; after a short one the file is cut back to the last size.
FlushFails ==
    /\ postponed' = 0 /\ werr' = TRUE
    /\ UNCHANGED <<buf, filevars, due>>

\* Short write, and ftruncate fails too: the tail of the buffer is kept.
FlushShort(n) ==
    /\ cur' = cur \o SubSeq(buf, 1, n)
    /\ buf' = SubSeq(buf, n + 1, Len(buf))
    /\ postponed' = 0 /\ werr' = TRUE
    /\ UNCHANGED <<fd, dur, jobs, due>>

\* beforeSleep and serverCron flush; then the event loop is entered and sends
\* the answers to what was executed.
BeforeSleep ==
    /\ buf # << >> \/ slept # Len(past)
    /\ acked' = Len(past) /\ slept' = Len(past)
    /\ \/ buf = << >> /\ UNCHANGED <<buf, filevars, flushvars, used>>
       \/ /\ buf # << >> /\ MustPostpone
          /\ postponed' = IF postponed = 0 THEN 1 ELSE postponed
          /\ UNCHANGED <<buf, filevars, due, werr, used>>
       \/ /\ buf # << >> /\ ~MustPostpone /\ fd = "current"
          /\ FlushWrites /\ UNCHANGED used
       \/ /\ buf # << >> /\ ~MustPostpone /\ fd = "current" /\ policy # "always"
          /\ Spend("event", MaxEvents)
          /\ FlushFails \/ \E n \in 1..(Len(buf) - 1) : FlushShort(n)
       \/ /\ buf # << >> /\ ~MustPostpone /\ fd # "current"
          /\ FlushFails /\ UNCHANGED used
    /\ UNCHANGED <<policy, mem, state, seldb, past, childvars>>

\* A client whose output buffer was not empty when its request came: the
\* writable handler is served in the same iteration of aeProcessEvents, after
\* the readable one and before the flush.
EarlyReply ==
    /\ acked # Len(past)
    /\ acked' = Len(past)
    /\ UNCHANGED <<policy, mem, state, seldb, buf, past, slept, used, filevars, flushvars, childvars>>

\* A second passes.
Tick ==
    /\ due' = TRUE
    /\ postponed' = IF postponed = 1 THEN 2 ELSE postponed
    /\ UNCHANGED <<policy, mem, state, seldb, buf, past, acked, slept, used, filevars, werr, childvars>>

\* bioProcessBackgroundJobs: one fsync done, the job leaves the list.
BioFsync ==
    /\ jobs # << >>
    /\ jobs' = Tail(jobs)
    /\ dur' = IF Head(jobs) = "current" THEN Len(cur) ELSE dur
    /\ UNCHANGED <<policy, mem, state, seldb, buf, past, acked, slept, used, fd, cur, flushvars, childvars>>

(***************************************************************************)
(* Rewriting.                                                              *)
(***************************************************************************)

\* The fork in rewriteAppendOnlyFileBackground: the child has the dataset, new
\* pipes, and the diff it will be sent has to start with a SELECT.
Fork ==
    /\ child' = [phase |-> "collect", tmp |-> Rebuild(mem)]
    /\ pipe' = << >> /\ stop' = FALSE
    /\ scheduled' = FALSE
    /\ seldb' = -1

\* BGREWRITEAOF, automatic rewrite, or a scheduled one.
rewriteAppendOnlyFileBackground ==
    /\ child.phase = "none"
    /\ IF scheduled THEN UNCHANGED used ELSE Spend("event", MaxEvents)
    /\ Fork
    /\ UNCHANGED <<policy, mem, state, buf, past, acked, slept, filevars, flushvars, rwbuf>>

\* The parent's writable handler on the pipe.
aofChildWriteDiffData ==
    /\ child.phase # "none" /\ ~stop
    /\ rwbuf # << >> /\ Len(pipe) < PipeSize
    /\ pipe' = Append(pipe, Head(rwbuf))
    /\ rwbuf' = Tail(rwbuf)
    /\ UNCHANGED <<policy, mem, state, seldb, buf, past, acked, slept, used, filevars, flushvars,
                   scheduled, child, stop>>

\* aofReadDiffFromParent, while the child writes and in its last second.
aofReadDiffFromParent ==
    /\ child.phase = "collect" /\ pipe # << >>
    /\ child' = [child EXCEPT !.tmp = @ \o pipe]
    /\ pipe' = << >>
    /\ UNCHANGED <<policy, mem, state, seldb, buf, past, acked, slept, used, filevars, flushvars,
                   scheduled, rwbuf, stop>>

\* The child asks the parent to stop sending, the parent answers, the child
\* reads what is left, syncs and exits.
ChildPhase(from, to, file) ==
    /\ child.phase = from
    /\ child' = [phase |-> to, tmp |-> file]
    /\ UNCHANGED <<policy, mem, state, seldb, buf, past, acked, slept, used, filevars, flushvars,
                   scheduled, rwbuf>>
ChildAsksStop == ChildPhase("collect", "asked", child.tmp) /\ UNCHANGED <<pipe, stop>>
aofChildPipeReadable == ChildPhase("asked", "answered", child.tmp) /\ stop' = TRUE /\ UNCHANGED pipe
\* Wrong: what is still in the pipe is not read.
ChildExitsEarly == ChildPhase("answered", "exit0", child.tmp) /\ pipe' = << >> /\ UNCHANGED stop
ChildExits == ChildPhase("answered", "exit0", child.tmp \o pipe) /\ pipe' = << >> /\ UNCHANGED stop
ChildFails ==
    /\ child.phase \in {"collect", "asked", "answered"}
    /\ Spend("event", MaxEvents)
    /\ child' = [child EXCEPT !.phase = "exit1"]
    /\ UNCHANGED <<policy, mem, state, seldb, buf, past, acked, slept, filevars, flushvars,
                   scheduled, rwbuf, pipe, stop>>

\* Wrong: no aofRewriteBufferReset.
CleanupKeepsDiff(st) ==
    /\ child' = NoChild /\ pipe' = << >> /\ stop' = FALSE
    /\ scheduled' = (scheduled \/ st = "WAIT")
    /\ UNCHANGED rwbuf
\* Wrong: the rewrite is not scheduled again.
CleanupGivesUp(st) ==
    /\ child' = NoChild /\ rwbuf' = << >> /\ pipe' = << >> /\ stop' = FALSE
    /\ UNCHANGED scheduled
\* The label `cleanup' of backgroundRewriteDoneHandler.
Cleanup(st) ==
    /\ child' = NoChild /\ rwbuf' = << >> /\ pipe' = << >> /\ stop' = FALSE
    /\ scheduled' = (scheduled \/ st = "WAIT")

\* Wrong: the residual diff is not synced with appendfsync always.
SwitchFileNoSync ==
    LET new == child.tmp \o rwbuf
        old == [i \in 1..Len(jobs) |-> "old"]
    IN
    /\ cur' = new /\ dur' = Len(child.tmp)
    /\ IF fd = "none"
       THEN jobs' = old /\ UNCHANGED <<fd, seldb, buf>>
       ELSE /\ fd' = "current" /\ seldb' = -1 /\ buf' = << >>
            /\ jobs' = IF policy = "everysec" THEN Append(old, "current") ELSE old
\* The switch to the rewritten file: the child's part is on disk, the residual
\* diff was only written.
SwitchFile ==
    LET new == child.tmp \o rwbuf
        old == [i \in 1..Len(jobs) |-> "old"]
    IN
    /\ cur' = new
    /\ IF fd = "none"
       THEN /\ dur' = Len(child.tmp) /\ jobs' = old
            /\ UNCHANGED <<fd, seldb, buf>>
       ELSE /\ fd' = "current" /\ seldb' = -1 /\ buf' = << >>
            /\ dur' = IF policy = "always" THEN Len(new) ELSE Len(child.tmp)
            /\ jobs' = IF policy = "everysec" THEN Append(old, "current") ELSE old

\* backgroundRewriteDoneHandler; writing the residual diff or the rename can
\* fail too.
backgroundRewriteDoneHandler ==
    /\ \/ /\ child.phase = "exit0"
          /\ SwitchFile
          /\ state' = IF state = "WAIT" THEN "ON" ELSE state
          /\ UNCHANGED used
       \/ /\ child.phase = "exit0"
          /\ Spend("event", MaxEvents)
          /\ UNCHANGED <<state, seldb, buf, filevars>>
       \/ /\ child.phase = "exit1"
          /\ UNCHANGED <<state, seldb, buf, filevars, used>>
    /\ Cleanup(state')
    /\ UNCHANGED <<policy, mem, past, acked, slept, flushvars>>

(***************************************************************************)
(* CONFIG SET appendonly, and restarts.                                    *)
(***************************************************************************)
\* stopAppendOnly: a forced flush, which may fail, and an fsync; a rewrite child
\* is killed.
stopAppendOnly ==
    /\ state # "OFF"
    /\ Spend("event", MaxEvents)
    /\ \/ buf = << >> /\ UNCHANGED <<cur, buf, werr>>
       \/ /\ buf # << >>
          /\ cur' = cur \o buf /\ buf' = << >> /\ werr' = FALSE
       \/ /\ buf # << >> /\ policy # "always"
          /\ werr' = TRUE /\ UNCHANGED <<cur, buf>>
    /\ dur' = Len(cur')
    /\ fd' = "none" /\ seldb' = -1 /\ state' = "OFF"
    /\ jobs' = [i \in 1..Len(jobs) |-> "old"]
    /\ child' = NoChild /\ pipe' = << >> /\ stop' = FALSE
    /\ rwbuf' = IF child.phase = "none" THEN rwbuf ELSE << >>
    /\ postponed' = IF buf = << >> THEN postponed ELSE 0
    /\ UNCHANGED <<policy, mem, past, acked, slept, due, scheduled>>

\* With a rewrite child left from when the AOF was off, or when the fork fails,
\* the file is opened, the descriptor closed but not forgotten.
startAppendOnly ==
    /\ state = "OFF"
    /\ Spend("event", MaxEvents)
    /\ \/ /\ child.phase = "none"
          /\ Fork
          /\ state' = "WAIT" /\ fd' = "current"
       \/ /\ fd' = "closed"
          /\ UNCHANGED <<state, seldb, scheduled, child, pipe, stop>>
    /\ UNCHANGED <<policy, mem, buf, past, acked, slept, flushvars, rwbuf, cur, dur, jobs>>

\* The first n commands of the file are there after a crash; the server starts
\* with the AOF on and loads them.
Restart(n) ==
    LET file == SubSeq(cur, 1, n)
        data == loadAppendOnlyFile(file)
    IN
    /\ state = "ON"
    /\ Spend("crash", MaxCrashes)
    /\ mem' = data
    /\ past' = <<data>> /\ acked' = 1 /\ slept' = 1
    /\ UNCHANGED <<policy, state, fd>>
    /\ seldb' = -1 /\ buf' = << >>
    /\ cur' = file /\ dur' = n /\ jobs' = << >>
    /\ due' = FALSE /\ postponed' = 0 /\ werr' = FALSE
    /\ scheduled' = FALSE /\ child' = NoChild /\ rwbuf' = << >> /\ pipe' = << >> /\ stop' = FALSE

Next ==
    \/ \E d \in Dbs, n \in Sizes : Write(d, n)
    \/ BeforeSleep \/ EarlyReply \/ Tick \/ BioFsync
    \/ rewriteAppendOnlyFileBackground \/ aofChildWriteDiffData \/ aofReadDiffFromParent
    \/ ChildAsksStop \/ aofChildPipeReadable \/ ChildExits \/ ChildFails
    \/ backgroundRewriteDoneHandler
    \/ stopAppendOnly \/ startAppendOnly
    \/ \E n \in dur..Len(cur) : Restart(n)

Spec == Init /\ [][Next]_vars

\* The event loop turns, seconds pass and the child runs.  An fsync on a busy
\* disk may take for ever.
Fairness ==
    /\ WF_vars(BeforeSleep /\ UNCHANGED used) /\ WF_vars(Tick)
    /\ WF_vars(rewriteAppendOnlyFileBackground /\ UNCHANGED used)
    /\ WF_vars(ChildAsksStop) /\ WF_vars(aofChildPipeReadable) /\ WF_vars(ChildExits)
    /\ WF_vars(backgroundRewriteDoneHandler /\ UNCHANGED used)

FairSpec == Spec /\ Fairness

(***************************************************************************)
(* Properties.                                                             *)
(***************************************************************************)

\* The variables keep to the values the code gives them.
TypeOK ==
    /\ policy \in Policies
    /\ state \in {"OFF", "WAIT", "ON"}
    /\ fd \in {"none", "current", "closed"}
    /\ state # "OFF" => fd = "current"
    /\ seldb \in Dbs \cup {-1}
    /\ dur \in 0..Len(cur)
    /\ postponed \in 0..2
    /\ slept \in 1..acked /\ acked \in 1..Len(past)
    /\ child.phase \in {"none", "collect", "asked", "answered", "exit0", "exit1"}
    /\ child.phase = "none" => rwbuf = << >> /\ pipe = << >>
    /\ Len(pipe) <= PipeSize

\* While the AOF is on, the file followed by the unwritten buffer rebuilds the
\* dataset exactly, each write in its database: across rewrites, where the
\* child's snapshot, the diff sent through the pipe and the residual diff must
\* join without loss or repetition, and across write errors.
ReplayExact == state = "ON" => loadAppendOnlyFile(cur \o buf) = mem

\* A crash at this moment, of the process or of the machine, leaves a dataset
\* the server had after one of the executed writes.  With appendfsync always it
\* has every write executed before beforeSleep last ran, so every one whose
\* answer was queued to an idle client.
CrashSafe ==
    state = "ON" =>
        \A n \in dur..Len(cur) : \E k \in (IF policy = "always" THEN slept ELSE 1)..Len(past) :
            loadAppendOnlyFile(SubSeq(cur, 1, n)) = past[k]

\* The contract flushAppendOnlyFile states for appendfsync always: a write that
\* was answered is on disk.
AckedOnDisk ==
    state = "ON" /\ policy = "always" =>
        \E k \in acked..Len(past) : loadAppendOnlyFile(SubSeq(cur, 1, dur)) = past[k]

\* What is in the buffer gets written: the flush is postponed for a running
\* background fsync, but not for ever, and it is retried after an error.
BufferDrains == (state = "ON" /\ buf # << >>) ~> (buf = << >> \/ state = "OFF")

\* CONFIG SET appendonly yes takes effect: a failed first rewrite is repeated
\* until the AOF is on (or turned off again).
StartCompletes == (state = "WAIT") ~> (state # "WAIT")
================================================================================
