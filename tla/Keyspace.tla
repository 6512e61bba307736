-------------------------------- MODULE Keyspace --------------------------------
(***************************************************************************)
(* The keys of a server and the commands on them (db.c, t_string.c,        *)
(* t_list.c, the expire cycle and the eviction of redis.c): what a command *)
(* does to the keys, whom it tells (the clients that WATCH a key, the      *)
(* clients blocked on a list) and what it hands to the slaves and the AOF. *)
(*                                                                         *)
(* A server is a record: val[k] and ttl[k] the value and the expire of a   *)
(* key, cl its clients, watching and blocking the clients that watch or    *)
(* wait for each key, ready the lists that got an element, dirty the       *)
(* counter of changes, out what was propagated, argv the command being     *)
(* executed (commands rewrite it), force the FORCE flags, gone the keys    *)
(* that expired or were evicted.  An operator here is a C function from    *)
(* the server before it to the server after it.                            *)
(***************************************************************************)
EXTENDS SequencesExt

CONSTANTS Keys, None

\* A command: op on key k, with second key k2, keys ks (BLPOP, BRPOP) and value x.
Command(op, k, k2, x) == [op |-> op, k |-> k, k2 |-> k2, x |-> x]

\* Values: nothing, a string, or a list.  The expire of a key has not come
\* ("later"), has come ("due"), or there is none.
Absent == [type |-> "none", v |-> <<>>]
String(x) == [type |-> "string", v |-> <<x>>]
List(s) == [type |-> "list", v |-> s]
TTLs == {"none", "later", "due"}

Exists(s, k) == s.val[k] # Absent
IsList(s, k) == s.val[k].type = "list"
WrongType(s, k) == Exists(s, k) /\ ~ IsList(s, k)

\* The list without the elements of S.
Without(q, S) ==
    LET kept[i \in 0..Len(q)] ==
            IF i = 0 THEN <<>>
            ELSE IF q[i] \in S THEN kept[i - 1] ELSE Append(kept[i - 1], q[i])
    IN  kept[Len(q)]

-----------------------------------------------------------------------------
\* Whom a change is told.

touchWatchedKey(s, k) ==
    [s EXCEPT !.cl = [c \in DOMAIN @ |->
        IF Contains(s.watching[k], c) THEN [@[c] EXCEPT !.cas = TRUE] ELSE @[c]]]

signalModifiedKey(s, k) == touchWatchedKey(s, k)

\* Wrong: the keys are gone already when it looks.
touchAfterFlush(s) ==
    [s EXCEPT !.cl = [c \in DOMAIN @ |->
        IF \E k \in Keys : k \in @[c].watched /\ ~ Exists(s, k)
        THEN [@[c] EXCEPT !.cas = TRUE] ELSE @[c]]]

\* A watched key that does not exist is not changed by a flush.
touchWatchedKeysOnFlush(s) ==
    [s EXCEPT !.cl = [c \in DOMAIN @ |->
        IF \E k \in @[c].watched : Exists(s, k) THEN [@[c] EXCEPT !.cas = TRUE] ELSE @[c]]]

signalListAsReady(s, k) ==
    IF s.blocking[k] = <<>> \/ Contains(s.ready, k) THEN s
    ELSE [s EXCEPT !.ready = Append(@, k)]

propagate(s, cmd) == [s EXCEPT !.out = Append(@, cmd)]

-----------------------------------------------------------------------------
\* The keys.

dbAdd(s, k, v) ==
    LET t == [s EXCEPT !.val[k] = v]
    IN  IF v.type = "list" THEN signalListAsReady(t, k) ELSE t

dbOverwrite(s, k, v) == [s EXCEPT !.val[k] = v]

dbDelete(s, k) == [s EXCEPT !.val[k] = Absent, !.ttl[k] = "none"]

removeExpire(s, k) == [s EXCEPT !.ttl[k] = "none"]
setExpire(s, k, when) == [s EXCEPT !.ttl[k] = when]

\* The DEL that slaves and AOF get for a key that expires or is evicted.
propagateExpire(s, k) ==
    [propagate(s, Command("del", k, None, 0)) EXCEPT !.gone = @ \cup {k}]

\* A slave waits for the DEL of its master; the key stays and is used.
expireIfNeeded(s, k) ==
    IF s.ttl[k] # "due" \/ s.slave THEN s ELSE dbDelete(propagateExpire(s, k), k)

lookupKeyRead(s, k) == expireIfNeeded(s, k)
lookupKeyWrite(s, k) == expireIfNeeded(s, k)

setKey(s, k, v) ==
    LET t == lookupKeyWrite(s, k)
    IN  signalModifiedKey(
            removeExpire(IF Exists(t, k) THEN dbOverwrite(t, k, v) ELSE dbAdd(t, k, v), k), k)

Dirty(s) == [s EXCEPT !.dirty = @ + 1]

activeExpireCycleTryExpire(s, k) == dbDelete(propagateExpire(s, k), k)

\* One key that the policy picked; the next ones are further evictions.
freeMemoryIfNeeded(s, k) == dbDelete(propagateExpire(s, k), k)

-----------------------------------------------------------------------------
\* Commands.  c is the client, cmd its command.  Replies are left out, except
\* that got[c] collects the elements that were popped for c.

Got(s, c, x) == [s EXCEPT !.cl[c].got = @ \cup {x}]

getCommand(s, cmd) == lookupKeyRead(s, cmd.k)
setCommand(s, cmd) == Dirty(setKey(s, cmd.k, String(cmd.x)))

delCommand(s, cmd) ==
    LET t == expireIfNeeded(s, cmd.k)
    IN  IF Exists(t, cmd.k) THEN Dirty(signalModifiedKey(dbDelete(t, cmd.k), cmd.k)) ELSE t

flushdbCommand(s) ==
    [touchWatchedKeysOnFlush(s) EXCEPT
        !.dirty = @ + Cardinality({k \in Keys : Exists(s, k)}),
        !.val = [k \in Keys |-> Absent], !.ttl = [k \in Keys |-> "none"]]

renameCommand(s, cmd) ==
    LET t == lookupKeyWrite(s, cmd.k)
        u == lookupKeyWrite(t, cmd.k2)
        moved == dbAdd(IF Exists(u, cmd.k2) THEN dbDelete(u, cmd.k2) ELSE u,
                       cmd.k2, t.val[cmd.k])
    IN  IF cmd.k = cmd.k2 THEN s
        ELSE IF ~ Exists(t, cmd.k) THEN t
        ELSE Dirty(signalModifiedKey(signalModifiedKey(
                 dbDelete(IF t.ttl[cmd.k] = "none" THEN moved
                          ELSE setExpire(moved, cmd.k2, t.ttl[cmd.k]), cmd.k),
                 cmd.k), cmd.k2))

\* A time in the past deletes the key, and the command is rewritten to DEL.  A
\* slave never does that.  x = 0 is a time in the past.
expireGenericCommand(s, cmd) ==
    LET t == lookupKeyRead(s, cmd.k)
    IN  IF ~ Exists(t, cmd.k) THEN t
        ELSE IF cmd.x = 0 /\ ~ t.slave
        THEN signalModifiedKey(
                 [Dirty(dbDelete(t, cmd.k)) EXCEPT !.argv = Command("del", cmd.k, None, 0)], cmd.k)
        ELSE Dirty(signalModifiedKey(
                 setExpire(t, cmd.k, IF cmd.x = 0 THEN "due" ELSE "later"), cmd.k))

\* The expire is removed even if it has come, and no watcher is told.
persistCommand(s, cmd) ==
    IF Exists(s, cmd.k) /\ s.ttl[cmd.k] # "none" THEN Dirty(removeExpire(s, cmd.k)) ELSE s

Pushed(s, k, x, head) ==
    [s EXCEPT !.val[k] = List(IF head THEN <<x>> \o @.v ELSE Append(@.v, x))]

pushGenericCommand(s, cmd, head) ==
    LET t == lookupKeyWrite(s, cmd.k)
        u == IF Exists(t, cmd.k) THEN t ELSE dbAdd(t, cmd.k, List(<<>>))
    IN  IF WrongType(t, cmd.k) THEN t
        ELSE Dirty(signalModifiedKey(Pushed(u, cmd.k, cmd.x, head), cmd.k))

FirstOf(l, head) == IF head THEN Head(l) ELSE l[Len(l)]

\* listTypePop: the list without that element, which stays in the keys when empty.
Popped(s, k, head) == [s EXCEPT !.val[k].v = IF head THEN Tail(@) ELSE Front(@)]

DeleteIfEmpty(s, k) == IF IsList(s, k) /\ s.val[k].v = <<>> THEN dbDelete(s, k) ELSE s

popGenericCommand(s, c, cmd, head) ==
    LET t == lookupKeyWrite(s, cmd.k)
    IN  IF ~ IsList(t, cmd.k) THEN t
        ELSE Dirty(signalModifiedKey(
                 DeleteIfEmpty(Popped(Got(t, c, FirstOf(t.val[cmd.k].v, head)), cmd.k, head),
                               cmd.k), cmd.k))

\* The destination is created first, which makes it ready, and then gets x.
rpoplpushHandlePush(s, k, x) ==
    Pushed(signalModifiedKey(IF Exists(s, k) THEN s ELSE dbAdd(s, k, List(<<>>)), k), k, x, TRUE)

rpoplpushCommand(s, cmd) ==
    LET t == lookupKeyWrite(s, cmd.k)
        u == lookupKeyWrite(t, cmd.k2)
        x == FirstOf(t.val[cmd.k].v, FALSE)
    IN  IF ~ IsList(t, cmd.k) THEN t
        ELSE IF WrongType(u, cmd.k2) THEN u
        ELSE Dirty(signalModifiedKey(
                 DeleteIfEmpty(rpoplpushHandlePush(Popped(u, cmd.k, FALSE), cmd.k2, x), cmd.k),
                 cmd.k))

\* The numbers of a list in order.
SortedList(l) ==
    [i \in 1..Len(l) |->
        CHOOSE x \in ToSet(l) : /\ Cardinality({j \in 1..Len(l) : l[j] < x}) < i
                                /\ i <= Cardinality({j \in 1..Len(l) : l[j] <= x})]

\* SORT k STORE k2, on a list of numbers.
sortCommand(s, cmd) ==
    LET t == lookupKeyRead(s, cmd.k)
        l == t.val[cmd.k].v
    IN  IF WrongType(t, cmd.k) THEN t
        ELSE IF Exists(t, cmd.k)
        THEN [setKey(t, cmd.k2, List(SortedList(l))) EXCEPT !.dirty = @ + Len(l)]
        ELSE IF Exists(t, cmd.k2) THEN Dirty(signalModifiedKey(dbDelete(t, cmd.k2), cmd.k2))
        ELSE t

\* rdbSave sets the counter of changes to 0.
saveCommand(s) == [s EXCEPT !.dirty = 0]
=================================================================================
