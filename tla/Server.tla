--------------------------------- MODULE Server ---------------------------------
(***************************************************************************)
(* A server and its clients (redis.c, multi.c, blocked.c, t_list.c,        *)
(* pubsub.c, scripting.c, networking.c): the dispatch of commands,         *)
(* transactions, blocking pops, publish/subscribe, scripts, and what is    *)
(* propagated.  A step is one command of a client, a timer of serverCron,  *)
(* or the end of a connection.                                             *)
(*                                                                         *)
(* sv is the server, a record (see Keyspace).  rep is a slave: a server of *)
(* the same code whose only client is the link to the master, that has     *)
(* executed all that was propagated.  The link itself is in Replication.   *)
(***************************************************************************)
EXTENDS Keyspace

CONSTANTS
    Clients,
    Link,           \* the slave's client for the connection to its master
    Channels, Patterns,
    Scripts,        \* for each script: a key it looks at, and its commands if
                    \* the key exists and if it does not
    CacheSize,      \* repl_scriptcache_size
    Workloads,      \* who sends what (see Init)
    MaxWrites,      \* bound: writes with a new value
    MaxQueue,       \* bound: commands in a transaction
    MaxDirty        \* bound: the counter of changes

ASSUME ServerAssumption ==
    /\ IsFiniteSet(Keys) /\ IsFiniteSet(Clients) /\ Link \notin Clients /\ None \notin Keys
    /\ {MaxWrites, MaxQueue, MaxDirty} \subseteq Nat
    /\ CacheSize \in Nat \ {0}

\* What a client can send: the commands with the arguments they need.
IsCommand(cmd) ==
    /\ cmd = Command(cmd.op, cmd.k, cmd.k2, cmd.x)
    /\ \/ /\ cmd.op \in {"get", "set", "del", "expire", "persist", "lpush", "rpush", "lpop", "rpop",
                         "blpop", "brpop", "watch"}
          /\ cmd.k \in Keys /\ cmd.k2 \in Keys \cup {None}
       \/ /\ cmd.op \in {"rename", "rpoplpush", "brpoplpush", "sort"}
          /\ cmd.k \in Keys /\ cmd.k2 \in Keys
       \/ cmd.op = "subscribe" /\ cmd.x \in Channels
       \/ cmd.op = "psubscribe" /\ cmd.x \in Patterns
       \/ cmd.op \in {"eval", "evalsha", "scriptload"} /\ cmd.x \in DOMAIN Scripts
       \/ cmd.op \in {"flushdb", "save", "publish", "unsubscribe", "punsubscribe", "unwatch",
                      "multi", "exec", "discard", "scriptflush", "bad"}

\* The commands without the flag noscript.
InScripts == {"get", "set", "del", "expire", "persist", "lpush", "rpush", "lpop", "rpop", "rename",
              "rpoplpush", "sort", "flushdb", "publish"}

IsBody(q) ==
    /\ q \in Seq(ToSet(q))
    /\ \A i \in 1..Len(q) : IsCommand(q[i]) /\ q[i].op \in InScripts

\* The value of a key; no list is empty.
IsValue(v) ==
    /\ v = [type |-> v.type, v |-> v.v] /\ v.v \in Seq(ToSet(v.v))
    /\ v = Absent \/ v.type = "string" \/ (v.type = "list" /\ v.v # <<>>)

ASSUME WorkloadAssumption ==
    /\ \A sha \in DOMAIN Scripts :
         Scripts[sha].key \in Keys /\ IsBody(Scripts[sha].then) /\ IsBody(Scripts[sha].else)
    /\ \A w \in Workloads :
         /\ w.val = [k \in Keys |-> w.val[k]] /\ \A k \in Keys : IsValue(w.val[k])
         /\ \A c \in Clients : \A cmd \in w.commands[c] : IsCommand(cmd)
         /\ \A env \in w.envs : env.evict \in Keys \cup {None} /\ env.inner \in Keys \cup {None}

\* The commands that only move elements of lists.
ListOps == {"get", "lpush", "rpush", "lpop", "rpop", "rpoplpush", "blpop", "brpop", "brpoplpush",
            "multi", "exec"}

\* A workload of lists: they get their elements from the clients, no key that is
\* pushed to is a string, and no command is refused or given up, by the end of a
\* connection either, nor a key evicted.
OnlyLists(w) ==
    /\ \A k \in Keys : w.val[k].type # "list"
    /\ \A env \in w.envs : env.evict = None /\ env.oom = FALSE /\ env.deny = FALSE
    /\ \A c \in Clients : \A cmd \in w.commands[c] :
         /\ cmd.op \in ListOps
         /\ cmd.op \in {"lpush", "rpush"} => w.val[cmd.k].type # "string"
         /\ cmd.op = "multi" => c \notin w.leave

ASSUME ListsAssumption == \A w \in Workloads : w.lists => OnlyLists(w)

VARIABLES
    workload,   \* the commands of each client, which does not change
    sv,         \* the server
    rep,        \* the slave
    order,      \* history: the blocked clients, the first to block first
    writes      \* number of values written so far

vars == <<workload, sv, rep, order, writes>>

-----------------------------------------------------------------------------
\* Servers and clients at first.

NoClient ==
    [multi |-> FALSE, cas |-> FALSE, exec |-> FALSE, queue |-> <<>>, watched |-> {},
     keys |-> {}, target |-> None, head |-> FALSE, blocked |-> FALSE,
     channels |-> {}, patterns |-> {}, pubsub |-> FALSE, got |-> {}, stale |-> FALSE]

NewServer(slave, clients) ==
    [slave |-> slave, val |-> [k \in Keys |-> Absent], ttl |-> [k \in Keys |-> "none"],
     cl |-> [c \in clients |-> NoClient],
     watching |-> [k \in Keys |-> <<>>], blocking |-> [k \in Keys |-> <<>>], ready |-> <<>>,
     channels |-> [ch \in Channels |-> <<>>], patterns |-> <<>>,
     scripts |-> {}, cache |-> <<>>, dirty |-> 0, out |-> <<>>,
     argv |-> None, force |-> FALSE, gone |-> {}]

-----------------------------------------------------------------------------
\* WATCH (multi.c).

watchCommand(s, c, k) ==
    IF s.cl[c].multi \/ k \in s.cl[c].watched THEN s
    ELSE [s EXCEPT !.watching[k] = Append(@, c), !.cl[c].watched = @ \cup {k}]

unwatchAllKeys(s, c) ==
    [s EXCEPT !.watching = [k \in Keys |-> IF k \in s.cl[c].watched THEN RemoveFirst(@[k], c)
                                                                     ELSE @[k]],
              !.cl[c].watched = {}, !.cl[c].stale = FALSE]

unwatchCommand(s, c) == [unwatchAllKeys(s, c) EXCEPT !.cl[c].cas = FALSE]

-----------------------------------------------------------------------------
\* Blocking (blocked.c, t_list.c).

\* Wrong: the client is put in front of those that wait already.
blockInFront(s, c, ks, target, head) ==
    [s EXCEPT !.blocking = [k \in Keys |-> IF k \in ks THEN <<c>> \o @[k] ELSE @[k]],
              !.cl[c].keys = ks, !.cl[c].target = target, !.cl[c].head = head,
              !.cl[c].blocked = TRUE]

blockForKeys(s, c, ks, target, head) ==
    [s EXCEPT !.blocking = [k \in Keys |-> IF k \in ks THEN Append(@[k], c) ELSE @[k]],
              !.cl[c].keys = ks, !.cl[c].target = target, !.cl[c].head = head,
              !.cl[c].blocked = TRUE]

\* unblockClientWaitingData: out of every list it waits in.
unblockClient(s, c) ==
    [s EXCEPT !.blocking = [k \in Keys |-> IF k \in s.cl[c].keys THEN RemoveFirst(@[k], c)
                                                                 ELSE @[k]],
              !.cl[c].keys = {}, !.cl[c].target = None, !.cl[c].blocked = FALSE]

\* The first of the keys that is a list is popped from; a key that is not a
\* list before it is an error.  The command is rewritten to LPOP or RPOP.
blockingPopGenericCommand(s, c, cmd, head) ==
    LET first == lookupKeyWrite(s, cmd.k)
        next == ~ Exists(first, cmd.k) /\ cmd.k2 # None
        t == IF next THEN lookupKeyWrite(first, cmd.k2) ELSE first
        k == IF next THEN cmd.k2 ELSE cmd.k
        pop == Command(IF head THEN "lpop" ELSE "rpop", k, None, 0)
    IN  IF WrongType(t, k) THEN t
        ELSE IF Exists(t, k) THEN [popGenericCommand(t, c, pop, head) EXCEPT !.argv = pop]
        ELSE IF s.cl[c].multi THEN t
        ELSE blockForKeys(t, c, {cmd.k, cmd.k2} \ {None}, None, head)

brpoplpushCommand(s, c, cmd) ==
    LET t == lookupKeyWrite(s, cmd.k)
    IN  IF ~ Exists(t, cmd.k)
        THEN IF t.cl[c].multi THEN t ELSE blockForKeys(t, c, {cmd.k}, cmd.k2, FALSE)
        ELSE rpoplpushCommand(t, cmd)

\* Wrong: what the client got is not propagated.
serveQuietly(s, c, k, dst, x, head) ==
    IF dst = None THEN Got(s, c, x)
    ELSE IF WrongType(lookupKeyWrite(s, dst), dst) THEN Pushed(lookupKeyWrite(s, dst), k, x, head)
    ELSE propagate(rpoplpushHandlePush(propagate(lookupKeyWrite(s, dst),
                       Command("rpop", k, None, 0)), dst, x), Command("lpush", dst, None, x))

\* Wrong: when the destination is not a list, x is gone.
serveDropsElement(s, c, k, dst, x, head) ==
    IF dst = None
    THEN Got(propagate(s, Command(IF head THEN "lpop" ELSE "rpop", k, None, 0)), c, x)
    ELSE IF WrongType(lookupKeyWrite(s, dst), dst) THEN lookupKeyWrite(s, dst)
    ELSE propagate(rpoplpushHandlePush(propagate(lookupKeyWrite(s, dst),
                       Command("rpop", k, None, 0)), dst, x), Command("lpush", dst, None, x))

\* x was popped from k for c.  When the destination is not a list, x goes back.
serveClientBlockedOnList(s, c, k, dst, x, head) ==
    LET t == lookupKeyWrite(s, dst)
    IN  IF dst = None
        THEN Got(propagate(s, Command(IF head THEN "lpop" ELSE "rpop", k, None, 0)), c, x)
        ELSE IF WrongType(t, dst) THEN Pushed(t, k, x, head)
        ELSE propagate(rpoplpushHandlePush(propagate(t, Command("rpop", k, None, 0)), dst, x),
                       Command("lpush", dst, None, x))

\* One iteration for client c, the first of those that wait for k.
ServeOne(s, k, c) ==
    LET r == s.cl[c]
    IN  IF s.val[k].v = <<>> THEN s
        ELSE serveClientBlockedOnList(unblockClient(Popped(s, k, r.head), c), c, k, r.target,
                                      FirstOf(s.val[k].v, r.head), r.head)

\* The first of the ready keys.
ServeKey(s) ==
    LET k == Head(s.ready)
        t == lookupKeyWrite([s EXCEPT !.ready = Tail(@)], k)
        clients == t.blocking[k]
        served[i \in 0..Len(clients)] ==
            IF i = 0 THEN t ELSE ServeOne(served[i - 1], k, clients[i])
    IN  IF ~ IsList(t, k) THEN t ELSE DeleteIfEmpty(served[Len(clients)], k)

\* Wrong: the keys that got ready meanwhile are left for the next command.
handleReadyOnce(s) ==
    LET n == Cardinality(Keys)
        round[i \in 0..n] ==
            IF i = 0 THEN s
            ELSE IF Len(s.ready) < i THEN round[i - 1] ELSE ServeKey(round[i - 1])
    IN  [round[n] EXCEPT !.ready = <<>>]

\* Until no key is ready: a key gets ready again only when a client was served.
handleClientsBlockedOnLists(s) ==
    LET n == Cardinality(Keys) + Cardinality(Clients)
        round[i \in 0..n] ==
            IF i = 0 THEN s
            ELSE IF round[i - 1].ready = <<>> THEN round[i - 1] ELSE ServeKey(round[i - 1])
    IN  round[n]

-----------------------------------------------------------------------------
\* Publish and subscribe (pubsub.c).  A message is not kept: who gets it is
\* who is in the lists.

subscribeCommand(s, c, ch) ==
    IF ch \in s.cl[c].channels THEN [s EXCEPT !.cl[c].pubsub = TRUE]
    ELSE [s EXCEPT !.cl[c].channels = @ \cup {ch}, !.channels[ch] = Append(@, c),
                   !.cl[c].pubsub = TRUE]

psubscribeCommand(s, c, p) ==
    IF p \in s.cl[c].patterns THEN [s EXCEPT !.cl[c].pubsub = TRUE]
    ELSE [s EXCEPT !.cl[c].patterns = @ \cup {p}, !.patterns = Append(@, <<p, c>>),
                   !.cl[c].pubsub = TRUE]

clientSubscriptionsCount(s, c) == Cardinality(s.cl[c].channels) + Cardinality(s.cl[c].patterns)

ClearPubsubFlag(s, c) ==
    IF clientSubscriptionsCount(s, c) = 0 THEN [s EXCEPT !.cl[c].pubsub = FALSE] ELSE s

pubsubUnsubscribeChannels(s, c, chs) ==
    [s EXCEPT !.channels = [ch \in Channels |-> IF ch \in chs THEN RemoveFirst(@[ch], c)
                                                              ELSE @[ch]],
              !.cl[c].channels = @ \ chs]

pubsubUnsubscribePatterns(s, c, ps) ==
    [s EXCEPT !.patterns = Without(@, ps \X {c}), !.cl[c].patterns = @ \ ps]

unsubscribeCommand(s, c) ==
    ClearPubsubFlag(pubsubUnsubscribeChannels(s, c, s.cl[c].channels), c)
punsubscribeCommand(s, c) ==
    ClearPubsubFlag(pubsubUnsubscribePatterns(s, c, s.cl[c].patterns), c)

\* A PUBLISH goes to the slaves, though nothing changed.
publishCommand(s) == [s EXCEPT !.force = TRUE]

-----------------------------------------------------------------------------
\* Commands that another command may call.

ReadOnly == {"get", "publish", "subscribe", "psubscribe", "unsubscribe", "punsubscribe", "watch",
             "unwatch", "multi", "discard", "scriptload", "scriptflush", "save"}
NotWrite == ReadOnly \cup {"eval", "evalsha", "exec", "bad"}
DenyOom == {"set", "lpush", "rpush", "rpoplpush", "brpoplpush", "sort"}

\* SCRIPT FLUSH and SCRIPT LOAD.
scriptFlush(s) == Dirty([s EXCEPT !.scripts = {}, !.cache = <<>>])
scriptLoad(s, cmd) == [s EXCEPT !.scripts = @ \cup {cmd.x}, !.force = TRUE]

Proc(s, c, cmd) ==
    CASE cmd.op = "get" -> getCommand(s, cmd)
      [] cmd.op = "set" -> setCommand(s, cmd)
      [] cmd.op = "del" -> delCommand(s, cmd)
      [] cmd.op = "flushdb" -> flushdbCommand(s)
      [] cmd.op = "rename" -> renameCommand(s, cmd)
      [] cmd.op = "expire" -> expireGenericCommand(s, cmd)
      [] cmd.op = "persist" -> persistCommand(s, cmd)
      [] cmd.op = "lpush" -> pushGenericCommand(s, cmd, TRUE)
      [] cmd.op = "rpush" -> pushGenericCommand(s, cmd, FALSE)
      [] cmd.op = "lpop" -> popGenericCommand(s, c, cmd, TRUE)
      [] cmd.op = "rpop" -> popGenericCommand(s, c, cmd, FALSE)
      [] cmd.op = "rpoplpush" -> rpoplpushCommand(s, cmd)
      [] cmd.op = "sort" -> sortCommand(s, cmd)
      [] cmd.op = "save" -> saveCommand(s)
      [] cmd.op = "blpop" -> blockingPopGenericCommand(s, c, cmd, TRUE)
      [] cmd.op = "brpop" -> blockingPopGenericCommand(s, c, cmd, FALSE)
      [] cmd.op = "brpoplpush" -> brpoplpushCommand(s, c, cmd)
      [] cmd.op = "unwatch" -> unwatchCommand(s, c)
      [] cmd.op = "subscribe" -> subscribeCommand(s, c, cmd.x)
      [] cmd.op = "psubscribe" -> psubscribeCommand(s, c, cmd.x)
      [] cmd.op = "unsubscribe" -> unsubscribeCommand(s, c)
      [] cmd.op = "punsubscribe" -> punsubscribeCommand(s, c)
      [] cmd.op = "publish" -> publishCommand(s)
      [] cmd.op = "scriptload" -> scriptLoad(s, cmd)
      [] cmd.op = "scriptflush" -> scriptFlush(s)

-----------------------------------------------------------------------------
\* Scripts (scripting.c).

\* What the environment does to a command: evict a key (processCommand), be out
\* of memory, refuse writes, stop a script at its first write (OOM, MISCONF or
\* SCRIPT KILL), evict a key before that.
Calm == [evict |-> None, oom |-> FALSE, deny |-> FALSE, stop |-> FALSE, inner |-> None]

\* The reply of the command is an error.
Fails(s, cmd) ==
    LET t == lookupKeyWrite(s, cmd.k)
        u == lookupKeyWrite(t, cmd.k2)
    IN  \/ cmd.op = "get" /\ IsList(t, cmd.k)
        \/ cmd.op \in {"lpush", "rpush", "lpop", "rpop", "rpoplpush", "sort"} /\ WrongType(t, cmd.k)
        \/ cmd.op = "rpoplpush" /\ IsList(t, cmd.k) /\ WrongType(u, cmd.k2)
        \/ cmd.op = "rename" /\ (cmd.k = cmd.k2 \/ ~ Exists(t, cmd.k))

\* redis.call, in a script that has come to the record a: the server, whether an
\* error has ended the script, and whether it has written (lua_write_dirty).  The
\* command is executed and not propagated; an error ends the script.
luaRedisGenericCommand(a, c, cmd, env) ==
    LET t == IF env.inner # None /\ Exists(a.s, env.inner) /\ ~ a.write /\ cmd.op \in DenyOom
             THEN freeMemoryIfNeeded(a.s, env.inner) ELSE a.s
    IN  IF a.err THEN a
        ELSE IF env.stop /\ cmd.op \notin NotWrite THEN [s |-> a.s, err |-> TRUE, write |-> a.write]
        ELSE [s |-> [Proc([t EXCEPT !.argv = cmd], c, cmd) EXCEPT !.argv = t.argv],
              err |-> Fails(t, cmd), write |-> a.write \/ cmd.op \notin NotWrite]

replicationScriptCacheExists(s, sha) == Contains(s.cache, sha)

\* The newest is first; when full, the oldest is forgotten.  The first EVALSHA
\* goes out as EVAL, in any case.
PropagateAsEval(s, sha) ==
    [s EXCEPT !.cache = <<sha>> \o (IF Len(@) = CacheSize THEN Front(@) ELSE @),
              !.argv = Command("eval", None, None, sha), !.force = TRUE]

AsEvalIfNeeded(s, cmd) ==
    IF cmd.op = "evalsha" /\ ~ replicationScriptCacheExists(s, cmd.x)
    THEN PropagateAsEval(s, cmd.x) ELSE s

evalGenericCommand(s, c, cmd, env) ==
    LET sha == cmd.x
        looked == lookupKeyRead([s EXCEPT !.scripts = @ \cup {sha}], Scripts[sha].key)
        body == IF Exists(looked, Scripts[sha].key) THEN Scripts[sha].then ELSE Scripts[sha].else
        ran[i \in 0..Len(body)] ==
            IF i = 0 THEN [s |-> looked, err |-> FALSE, write |-> FALSE]
            ELSE luaRedisGenericCommand(ran[i - 1], c, body[i], env)
    IN  IF cmd.op = "evalsha" /\ sha \notin s.scripts THEN s
        ELSE AsEvalIfNeeded(ran[Len(body)].s, cmd)

-----------------------------------------------------------------------------
\* call, and the commands that only a client calls (redis.c, multi.c).

CallProc(s, c, cmd, env) ==
    IF cmd.op \in {"eval", "evalsha"} THEN evalGenericCommand(s, c, cmd, env) ELSE Proc(s, c, cmd)

\* Propagates the command, as it was rewritten, if it changed something or must
\* be propagated.
Propagated(s, t) ==
    [(IF t.dirty > s.dirty \/ t.force THEN propagate(t, t.argv) ELSE t)
        EXCEPT !.argv = s.argv, !.force = s.force]

call(s, c, cmd, env) ==
    Propagated(s, CallProc([s EXCEPT !.argv = cmd, !.force = FALSE], c, cmd, env))

\* Wrong: the flags of the last transaction stay.
discardKeepsFlags(s, c) ==
    unwatchAllKeys([s EXCEPT !.cl[c].multi = FALSE, !.cl[c].queue = <<>>], c)

discardTransaction(s, c) ==
    unwatchAllKeys([s EXCEPT !.cl[c].multi = FALSE, !.cl[c].cas = FALSE, !.cl[c].exec = FALSE,
                             !.cl[c].queue = <<>>], c)

flagTransaction(s, c) ==
    IF s.cl[c].multi THEN [s EXCEPT !.cl[c].exec = TRUE] ELSE s

multiCommand(s, c) == [s EXCEPT !.cl[c].multi = TRUE]

discardCommand(s, c) == IF s.cl[c].multi THEN discardTransaction(s, c) ELSE s

\* MULTI is propagated before the first command that is not read-only, and then
\* the counter of changes is raised, for EXEC to be propagated too.
ExecStep(a, c, cmd, env) ==
    LET multi == ~ a.must /\ cmd.op \notin ReadOnly
        t == IF multi THEN propagate(a.s, Command("multi", None, None, 0)) ELSE a.s
    IN  [s |-> call(t, c, cmd, env), must |-> a.must \/ multi]
ExecDone(a, c) ==
    IF a.must THEN Dirty(discardTransaction(a.s, c)) ELSE discardTransaction(a.s, c)

execCommand(s, c, env) ==
    LET queue == s.cl[c].queue
        done[i \in 0..Len(queue)] ==
            IF i = 0 THEN [s |-> unwatchAllKeys(s, c), must |-> FALSE]
            ELSE ExecStep(done[i - 1], c, queue[i], env)
    IN  IF ~ s.cl[c].multi THEN s
        ELSE IF s.cl[c].cas \/ s.cl[c].exec THEN discardTransaction(s, c)
        ELSE ExecDone(done[Len(queue)], c)

\* call for the commands that are never queued.
CallTop(s, c, cmd, env) ==
    LET t == [s EXCEPT !.argv = cmd, !.force = FALSE]
    IN  CASE cmd.op = "multi" -> Propagated(s, multiCommand(t, c))
          [] cmd.op = "exec" -> Propagated(s, execCommand(t, c, env))
          [] cmd.op = "discard" -> Propagated(s, discardCommand(t, c))
          [] cmd.op = "watch" -> Propagated(s, watchCommand(t, c, cmd.k))
          [] OTHER -> call(s, c, cmd, env)

queueMultiCommand(s, c, cmd) == [s EXCEPT !.cl[c].queue = Append(@, cmd)]

NotQueued == {"exec", "discard", "multi", "watch"}
InPubsub == {"subscribe", "psubscribe", "unsubscribe", "punsubscribe"}

processCommand(s, c, cmd, env) ==
    LET t == IF env.evict # None /\ Exists(s, env.evict) /\ cmd.op # "bad"
             THEN freeMemoryIfNeeded(s, env.evict) ELSE s
    IN  IF \/ cmd.op = "bad"
           \/ cmd.op \in DenyOom /\ env.oom
           \/ cmd.op \notin NotWrite /\ env.deny
        THEN flagTransaction(t, c)
        ELSE IF t.cl[c].pubsub /\ cmd.op \notin InPubsub THEN t
        ELSE IF t.cl[c].multi /\ cmd.op \notin NotQueued THEN queueMultiCommand(t, c, cmd)
        ELSE handleClientsBlockedOnLists(CallTop(t, c, cmd, env))

\* freeClient, for a client that is not a slave or a master.
freeClient(s, c) ==
    LET t == IF s.cl[c].blocked THEN unblockClient(s, c) ELSE s
        u == pubsubUnsubscribePatterns(
                 pubsubUnsubscribeChannels(unwatchAllKeys(t, c), c, t.cl[c].channels),
                 c, t.cl[c].patterns)
    IN  [u EXCEPT !.cl[c] = [NoClient EXCEPT !.got = s.cl[c].got]]

-----------------------------------------------------------------------------
\* The system.

\* The slave executes what was propagated.
Replay(r, cmds) ==
    LET replayed[i \in 0..Len(cmds)] ==
            IF i = 0 THEN r
            ELSE [processCommand(replayed[i - 1], Link, cmds[i], Calm)
                      EXCEPT !.out = <<>>, !.gone = {}, !.dirty = 0]
    IN  replayed[Len(cmds)]

\* History: a key that c watches has another value than before the step, and not
\* because it expired or was evicted.
Stale(s, t, c) ==
    \E k \in s.cl[c].watched \cap t.cl[c].watched : s.val[k] # t.val[k] /\ k \notin t.gone

\* The server is t after the step; nothing was propagated.
Local(t) ==
    /\ sv' = [t EXCEPT !.out = <<>>, !.gone = {}, !.argv = None,
                        !.dirty = IF @ > MaxDirty THEN MaxDirty ELSE @,
                        !.cl = [c \in Clients |->
                                   [t.cl[c] EXCEPT !.stale = t.cl[c].stale \/ Stale(sv, t, c)]]]
    /\ order' = Without(order, {c \in Clients : ~ t.cl[c].blocked})
                   \o SetToSeq({c \in Clients : t.cl[c].blocked} \ ToSet(order))
    /\ UNCHANGED workload

\* The same, and the slave executes what was propagated.
After(t) == Local(t) /\ rep' = Replay(rep, t.out)

Init ==
    /\ workload \in Workloads
    /\ sv = [NewServer(FALSE, Clients) EXCEPT !.val = workload.val]
    /\ rep = [NewServer(TRUE, {Link}) EXCEPT !.val = workload.val]
    /\ order = <<>> /\ writes = 0

\* A command that writes a value writes a new one.
Written(cmd) == IF cmd.op \in {"set", "lpush", "rpush"} THEN [cmd EXCEPT !.x = writes + 1] ELSE cmd

\* A client that is not blocked sends a command.
Request(c) ==
    /\ ~ sv.cl[c].blocked
    /\ \E cmd \in workload.commands[c], env \in workload.envs :
         /\ cmd.op \in {"set", "lpush", "rpush"} => writes < MaxWrites
         /\ sv.cl[c].multi /\ cmd.op \notin NotQueued => Len(sv.cl[c].queue) < MaxQueue
         /\ After(processCommand(sv, c, Written(cmd), env))
         /\ writes' = IF cmd.op \in {"set", "lpush", "rpush"} THEN writes + 1 ELSE writes

\* clientsCronHandleTimeout: the timeout of a blocked client.
BlockedTimeout(c) ==
    /\ sv.cl[c].blocked /\ c \in workload.leave
    /\ Local(unblockClient(sv, c))
    /\ UNCHANGED <<rep, writes>>

\* The connection of a client ends, and another one begins.
Disconnect(c) ==
    /\ c \in workload.leave
    /\ Local(freeClient(sv, c))
    /\ UNCHANGED <<rep, writes>>

\* The time of a key comes.
Tick(k) ==
    /\ sv.ttl[k] = "later"
    /\ sv' = [sv EXCEPT !.ttl[k] = "due"]
    /\ UNCHANGED <<workload, rep, order, writes>>

\* activeExpireCycle finds the key.
ExpireCycle(k) ==
    /\ sv.ttl[k] = "due"
    /\ After(activeExpireCycleTryExpire(sv, k))
    /\ UNCHANGED writes

\* A key whose time has come is not saved.
rdbSaveKeyValuePair(s, k) ==
    IF s.ttl[k] = "due" THEN [val |-> Absent, ttl |-> "none"] ELSE [val |-> s.val[k], ttl |-> s.ttl[k]]

\* startBgsaveForReplication: a new slave gets the keys that are saved, without the
\* scripts, and the master forgets which scripts its slaves have.
Resync ==
    /\ workload.resync
    /\ rep' = [NewServer(TRUE, {Link}) EXCEPT
                  !.val = [k \in Keys |-> rdbSaveKeyValuePair(sv, k).val],
                  !.ttl = [k \in Keys |-> rdbSaveKeyValuePair(sv, k).ttl]]
    /\ sv' = [sv EXCEPT !.cache = <<>>]
    /\ UNCHANGED <<workload, order, writes>>

Next ==
    \/ \E c \in Clients : Request(c) \/ BlockedTimeout(c) \/ Disconnect(c)
    \/ \E k \in Keys : Tick(k) \/ ExpireCycle(k)
    \/ Resync

Spec == Init /\ [][Next]_vars

-----------------------------------------------------------------------------
\* Properties.

\* x is in the list q once, or not at all.
Listed(q, x, in) ==
    IF in THEN \E i \in 1..Len(q) : \A j \in 1..Len(q) : q[j] = x <=> j = i
    ELSE \A j \in 1..Len(q) : q[j] # x

\* Between two commands what a server keeps for a key or a channel and what it
\* keeps for a client agree: watched_keys, blocking_keys, the channels and the
\* patterns (the assertions of unwatchAllKeys, unblockClientWaitingData and
\* pubsubUnsubscribeChannel); no key is left ready, no list is empty, and no
\* flag of a transaction or of a subscription outlives it.
Indexes ==
    /\ sv.ready = <<>> /\ \A k \in Keys : IsList(sv, k) => sv.val[k].v # <<>>
    /\ \A k \in Keys : sv.ttl[k] \in TTLs /\ (sv.ttl[k] = "none" \/ Exists(sv, k))
    /\ \A c \in Clients :
         LET r == sv.cl[c]
         IN  /\ \A k \in Keys :
                  /\ Listed(sv.watching[k], c, k \in r.watched)
                  /\ Listed(sv.blocking[k], c, k \in r.keys)
             /\ \A ch \in Channels : Listed(sv.channels[ch], c, ch \in r.channels)
             /\ \A p \in Patterns : Listed(sv.patterns, <<p, c>>, p \in r.patterns)
             /\ r.blocked = (r.keys # {}) /\ (r.target # None => r.blocked)
             /\ ~ (r.blocked /\ r.multi)
             /\ r.pubsub = (r.channels # {} \/ r.patterns # {})
             /\ (r.cas => r.watched # {}) /\ (r.exec \/ r.queue # <<>> => r.multi)

\* A slave that has executed what was propagated has the keys of the master,
\* whatever expired, was evicted, was served to a blocked client or ran in a
\* transaction or a script, and it is not left inside a MULTI (call, propagate,
\* execCommand, propagateExpire, serveClientBlockedOnList, evalGenericCommand).
\* Only of a key whose time has come, and that the master still holds, a slave
\* that synchronized then has nothing (rdbSaveKeyValuePair).
ReplicaExact ==
    /\ \A k \in Keys :
         \/ rep.val[k] = sv.val[k] /\ (rep.ttl[k] = "none") = (sv.ttl[k] = "none")
         \/ sv.ttl[k] = "due" /\ rep.val[k] = Absent /\ rep.ttl[k] = "none"
    /\ ~ rep.cl[Link].multi /\ ~ rep.cl[Link].blocked

\* When a command is over nobody waits for a list that has an element
\* (handleClientsBlockedOnLists).
BlockedServed == \A k \in Keys : IsList(sv, k) => sv.blocking[k] = <<>>

\* A client whose watched key has another value, and not because it expired or
\* was evicted, will not have its transaction executed (touchWatchedKey, EXEC).
WatchedUnchanged == \A c \in Clients : sv.cl[c].stale => sv.cl[c].cas

\* The elements that are in lists or were popped.
Held == [k \in Keys |-> IF IsList(sv, k) THEN ToSet(sv.val[k].v) ELSE {}]

\* An element of a list is in one place: in one list, once, or popped by one
\* client; and where nothing deletes a key, no element is lost
\* (serveClientBlockedOnList, rpoplpushCommand).
DeliveredOnce ==
    workload.lists =>
        /\ \A k \in Keys : IsList(sv, k) => Cardinality(Held[k]) = Len(sv.val[k].v)
        /\ \A k, l \in Keys : k # l => Held[k] \cap Held[l] = {}
        /\ \A c, d \in Clients : c # d => sv.cl[c].got \cap sv.cl[d].got = {}
        /\ LET got == UNION {sv.cl[c].got : c \in Clients}
               held == UNION {Held[k] : k \in Keys}
               queued == UNION {{cmd.x : cmd \in ToSet(sv.cl[c].queue)} : c \in Clients}
           IN  got \cap held = {} /\ 1..writes \subseteq got \cup held \cup queued

\* Of two clients that wait for the same keys, the one that came later is not
\* served in a step in which the first one still waits (blockForKeys).
ServedInOrder ==
    [][\A i, j \in 1..Len(order) :
         (/\ i < j /\ sv.cl[order[i]].keys = sv.cl[order[j]].keys
          /\ sv'.cl[order[j]].got # sv.cl[order[j]].got)
         => ~ sv'.cl[order[i]].blocked]_vars
=================================================================================
