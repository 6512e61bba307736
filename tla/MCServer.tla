-------------------------------- MODULE MCServer --------------------------------
EXTENDS Server
CONSTANTS k1, k2, k3, c1, c2, c3, ch, p

C(op) == Command(op, None, None, 0)
K(op, k) == Command(op, k, None, 0)
KK(op, k, l) == Command(op, k, l, 0)
X(op, x) == Command(op, None, None, x)
Env(evict, oom, deny) == [Calm EXCEPT !.evict = evict, !.oom = oom, !.deny = deny]
Empty == [k \in Keys |-> Absent]

\* s moves from k1 or starts k1; t starts k2, or writes, pops from k2 and moves
\* from k1, where it ends when k2 is a string or k1 does not exist.
MCScripts == [x \in {"s", "t"} |->
    IF x = "s"
    THEN [key |-> k1, then |-> <<KK("rename", k1, k2), C("publish")>>,
          else |-> <<Command("set", k1, None, 9), Command("expire", k1, None, 1)>>]
    ELSE [key |-> k2, then |-> <<Command("set", k3, None, 9), K("lpop", k2), KK("rename", k1, k3),
                                 C("publish")>>,
          else |-> <<Command("rpush", k2, None, 9)>>]]

Commands(f, g, h) == [c \in Clients |-> IF c = c1 THEN f ELSE IF c = c2 THEN g ELSE h]
Load(cmds, envs, leave) ==
    [commands |-> cmds, envs |-> envs, leave |-> leave, val |-> Empty, resync |-> FALSE,
     lists |-> FALSE]

\* A transaction with WATCH against writes, expires, evictions and refusals.
Transactions ==
    Load(Commands({C("multi"), C("exec"), C("discard"), C("unwatch"), K("watch", k1), K("set", k2),
                   K("get", k1), C("bad"), Command("expire", k1, None, 0)},
                  {K("set", k1), K("del", k1), KK("rename", k2, k1), C("flushdb"),
                   Command("expire", k1, None, 1), K("persist", k1), C("save")}, {}),
         {Calm, Env(k1, FALSE, FALSE), Env(None, TRUE, FALSE), Env(None, FALSE, TRUE)}, {c1})

\* Pops that block, against pushes and transactions; k3 is not a list.
Blocking ==
    [Load(Commands({C("multi"), C("exec"), K("rpush", k1), K("lpush", k2), KK("rpoplpush", k2, k1)},
                   {KK("blpop", k1, k2), KK("brpoplpush", k1, k2), K("lpop", k1)},
                   {KK("blpop", k1, k2), K("brpop", k1), KK("brpoplpush", k2, k1),
                    KK("brpoplpush", k1, k3), K("rpop", k2)}), {Calm}, {c2})
        EXCEPT !.val = [Empty EXCEPT ![k3] = String(9)], !.lists = TRUE]

\* Keys on which clients are blocked, and that get and lose values otherwise.
Overwriting ==
    Load(Commands({K("rpush", k2), KK("rename", k2, k1), K("del", k1), K("set", k1),
                   Command("expire", k1, None, 1), KK("sort", k2, k3)},
                  {K("blpop", k1), KK("blpop", k2, k3)}, {KK("brpoplpush", k1, k2), C("flushdb")}),
         {Calm, Env(k1, FALSE, FALSE)}, {})

\* Scripts, with slaves that come later.
Scripting ==
    [Load(Commands({X("scriptload", "s"), X("evalsha", "s"), C("multi"), C("exec")},
                   {X("evalsha", "t"), X("eval", "t"), C("scriptflush")}, {K("blpop", k2), K("get", k1)}),
          {Calm}, {c3}) EXCEPT !.resync = TRUE]

\* Subscriptions, inside and outside of transactions.
Subscribing ==
    LET cmds == {X("subscribe", ch), X("psubscribe", p), C("unsubscribe"), C("punsubscribe"),
                 C("multi"), C("exec"), K("watch", k1), C("publish")}
    IN  Load(Commands(cmds, cmds, {K("set", k1)}), {Calm}, {c1, c2})

MCWorkloads == {Transactions, Blocking, Overwriting, Scripting, Subscribing}

\* A transaction that saves the keys.
MCSaving ==
    {Load(Commands({C("multi"), C("exec"), C("save"), K("set", k1)}, {K("set", k2)}, {}), {Calm}, {})}

\* Scripts that are stopped at their first write, or that evict a key before it,
\* a PERSIST of a key whose time has come and that a new slave does not have, and
\* a list stored over a string: the README says what these show.
MCStopped == {[Scripting EXCEPT !.envs = @ \cup {[Calm EXCEPT !.stop = TRUE]}]}
MCEvicting == {[Scripting EXCEPT !.envs = @ \cup {[Calm EXCEPT !.inner = k2]}]}
MCPersisting == {[Scripting EXCEPT !.commands[c3] = @ \cup {K("persist", k1)}]}
MCStoring ==
    {Load(Commands({K("rpush", k2), K("set", k1), KK("sort", k2, k1)}, {K("blpop", k1)}, {}),
          {Calm}, {})}
=================================================================================
