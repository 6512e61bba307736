---------------------------------- MODULE Dict ----------------------------------
(***************************************************************************)
(* The hash table every keyspace, set, hash and sorted set is built on     *)
(* (dict.c): two tables while it is rehashed a bucket at a time, safe      *)
(* iterators that suspend the rehashing, and dictScan, which walks a table *)
(* that grows and shrinks between its calls and keeps only a cursor.       *)
(*                                                                         *)
(* A bucket is the set of the keys in its chain: the order in a chain is   *)
(* not modelled, so an iterator may meet the entries in any order.         *)
(***************************************************************************)
EXTENDS Integers, FiniteSets

CONSTANTS
    Keys,
    Hash,           \* dictHashKey
    TableSizes,     \* powers of two, from DICT_HT_INITIAL_SIZE on
    InitialSize,    \* DICT_HT_INITIAL_SIZE
    ForceRatio,     \* dict_force_resize_ratio
    MinFill,        \* REDIS_HT_MINFILL
    CursorBits,     \* bits of a cursor
    Iters           \* safe iterators that may be open

\* Powers of two.
pow2[i \in Nat] == IF i = 0 THEN 1 ELSE 2 * pow2[i - 1]

ASSUME DictAssumption ==
    /\ IsFiniteSet(Keys) /\ IsFiniteSet(Iters)
    /\ Hash \in [Keys -> Nat]
    /\ CursorBits \in Nat
    /\ TableSizes \subseteq Nat \ {0}
    /\ TableSizes \subseteq {pow2[i] : i \in 0..CursorBits}
    /\ InitialSize \in TableSizes
    /\ ForceRatio \in Nat

VARIABLES
    dict,       \* ht[0], ht[1] and rehashidx
    canResize,  \* dict_can_resize
    iterators,  \* dict.iterators
    iter,       \* the open iterators
    scan,       \* a SCAN in progress
    keys        \* history: what the dictionary should contain

vars == <<dict, canResize, iterators, iter, scan, keys>>

(***************************************************************************)
(* Tables.                                                                 *)
(***************************************************************************)
Table(n, u, b) == [size |-> n, used |-> u, b |-> b]
NewTable(n) == Table(n, 0, [i \in 0..(n - 1) |-> {}])
NoTable == NewTable(0)
Tables(t0, t1, i) == [ht0 |-> t0, ht1 |-> t1, ridx |-> i]

\* hash & sizemask
Index(k, t) == Hash[k] % t.size

Contents(t) == UNION {t.b[i] : i \in 0..(t.size - 1)}
dictIsRehashing(d) == d.ridx # -1
dictSize(d) == d.ht0.used + d.ht1.used
dictSlots(d) == d.ht0.size + d.ht1.size

\* An entry put at the head of its chain, or taken out of it.
PutIn(t, k) == Table(t.size, t.used + 1, [t.b EXCEPT ![Index(k, t)] = @ \cup {k}])
TakeOut(t, k) == Table(t.size, t.used - 1, [t.b EXCEPT ![Index(k, t)] = @ \ {k}])
InTable(t, k) == t.size # 0 /\ k \in t.b[Index(k, t)]

\* The search of dictFind, dictGenericDelete and _dictKeyIndex.
Find(d, k) == InTable(d.ht0, k) \/ (dictIsRehashing(d) /\ InTable(d.ht1, k))

\* The first bucket that is not empty, from rehashidx on.
IsNextBucket(d, i) ==
    /\ i \in d.ridx..(d.ht0.size - 1) /\ d.ht0.b[i] # {}
    /\ \A j \in d.ridx..(i - 1) : d.ht0.b[j] = {}

\* Every entry of bucket i goes to ht[1].
MoveBucket(d, i) ==
    LET n == Cardinality(d.ht0.b[i]) IN
    Tables(Table(d.ht0.size, d.ht0.used - n, [d.ht0.b EXCEPT ![i] = {}]),
           Table(d.ht1.size, d.ht1.used + n,
                 [j \in 0..(d.ht1.size - 1) |->
                    d.ht1.b[j] \cup {k \in d.ht0.b[i] : Index(k, d.ht1) = j}]),
           i + 1)

\* dictRehash(d, 1): the possible results.  When ht[0] is empty ht[1] takes its
\* place; there is no result when the search runs over the end of the table.
dictRehash(d) ==
    IF ~dictIsRehashing(d) THEN {d}
    ELSE IF d.ht0.used = 0 THEN {Tables(d.ht1, NoTable, -1)}
    ELSE {MoveBucket(d, i) : i \in {j \in 0..(d.ht0.size - 1) : IsNextBucket(d, j)}}

\* Wrong: the open iterators are not looked at.
_dictRehashStepAlways(d) == dictRehash(d)
\* No rehashing step while a safe iterator is open.
_dictRehashStep(d) == IF iterators = 0 THEN dictRehash(d) ELSE {d}

\* _dictNextPower
IsNextPower(s, n) == s \in TableSizes /\ s >= n /\ \A t \in TableSizes : t >= n => s <= t

\* dictExpand: the first table, or a second one and the start of a rehashing.
dictExpand(d, n) ==
    IF dictIsRehashing(d) \/ d.ht0.used > n THEN {d}
    ELSE {IF d.ht0.size = 0 THEN Tables(NewTable(s), d.ht1, d.ridx)
                            ELSE Tables(d.ht0, NewTable(s), 0)
          : s \in {t \in TableSizes : IsNextPower(t, n)}}

_dictExpandIfNeeded(d) ==
    CASE dictIsRehashing(d) -> {d}
      [] ~dictIsRehashing(d) /\ d.ht0.size = 0 -> dictExpand(d, InitialSize)
      [] ~dictIsRehashing(d) /\ d.ht0.size # 0 /\ d.ht0.used >= d.ht0.size
         /\ (canResize \/ d.ht0.used \div d.ht0.size > ForceRatio) ->
            dictExpand(d, d.ht0.used * 2)
      [] OTHER -> {d}

(***************************************************************************)
(* Operations.                                                             *)
(***************************************************************************)
NoIter == [phase |-> "idle", table |-> 0, index |-> -1, rest |-> {},
           owed |-> {}, seen |-> {}, twice |-> FALSE]
NoScan == [phase |-> "idle", cursor |-> 0, owed |-> {}, cut |-> FALSE]

Init ==
    /\ dict = Tables(NoTable, NoTable, -1)
    /\ canResize = TRUE
    /\ iterators = 0
    /\ iter = [i \in Iters |-> NoIter]
    /\ scan = NoScan
    /\ keys = {}

\* A key that is deleted is no longer owed to a scan or an iteration.
Forget(ks) ==
    /\ keys' = keys \ ks
    /\ scan' = [scan EXCEPT !.owed = @ \ ks]
    /\ iter' = [i \in Iters |-> [iter[i] EXCEPT !.owed = @ \ ks, !.seen = @ \ ks]]

\* Wrong: always into ht[0].
dictAddRawFirst(k) ==
    /\ \E d \in _dictRehashStep(dict) : \E e \in _dictExpandIfNeeded(d) :
         dict' = IF Find(e, k) THEN e ELSE Tables(PutIn(e.ht0, k), e.ht1, e.ridx)
    /\ keys' = keys \cup {k}
    /\ UNCHANGED <<canResize, iterators, iter, scan>>
\* dictAddRaw: into ht[1] if a rehashing is going on, also one started just now.
dictAddRaw(k) ==
    /\ \E d \in _dictRehashStep(dict) : \E e \in _dictExpandIfNeeded(d) :
         dict' = CASE Find(e, k) -> e
                   [] ~Find(e, k) /\ dictIsRehashing(e) -> Tables(e.ht0, PutIn(e.ht1, k), e.ridx)
                   [] OTHER -> Tables(PutIn(e.ht0, k), e.ht1, e.ridx)
    /\ keys' = keys \cup {k}
    /\ UNCHANGED <<canResize, iterators, iter, scan>>

\* Wrong: the second table is not searched.
dictGenericDeleteFirst(k) ==
    /\ \A i \in Iters : k \notin iter[i].rest
    /\ dict.ht0.size # 0
    /\ \E d \in _dictRehashStep(dict) :
         dict' = IF InTable(d.ht0, k) THEN Tables(TakeOut(d.ht0, k), d.ht1, d.ridx) ELSE d
    /\ Forget({k})
    /\ UNCHANGED <<canResize, iterators>>
\* dictGenericDelete.  While a safe iterator is open its user deletes the entry
\* returned last, or one in another chain.
dictGenericDelete(k) ==
    /\ \A i \in Iters : k \notin iter[i].rest
    /\ dict.ht0.size # 0
    /\ \E d \in _dictRehashStep(dict) :
         dict' = CASE InTable(d.ht0, k) -> Tables(TakeOut(d.ht0, k), d.ht1, d.ridx)
                   [] ~InTable(d.ht0, k) /\ Find(d, k) -> Tables(d.ht0, TakeOut(d.ht1, k), d.ridx)
                   [] OTHER -> d
    /\ Forget({k})
    /\ UNCHANGED <<canResize, iterators>>

\* dictFind and dictGetRandomKey change nothing but the rehashing.
dictFind ==
    /\ dict.ht0.size # 0
    /\ dict' \in _dictRehashStep(dict)
    /\ UNCHANGED <<canResize, iterators, iter, scan, keys>>

\* dictEmpty
dictEmpty ==
    /\ iterators = 0
    /\ dict' = Tables(NoTable, NoTable, -1)
    /\ Forget(keys)
    /\ UNCHANGED <<canResize, iterators>>

\* htNeedsResize and dictResize: databasesCron, or a command that deleted.
htNeedsResize ==
    /\ dictSlots(dict) > InitialSize /\ dictSize(dict) > 0
    /\ (dictSize(dict) * 100) \div dictSlots(dict) < MinFill
dictResize ==
    /\ htNeedsResize
    /\ canResize /\ ~dictIsRehashing(dict)
    /\ dict' \in dictExpand(dict, IF dict.ht0.used < InitialSize THEN InitialSize
                                                                ELSE dict.ht0.used)
    /\ UNCHANGED <<canResize, iterators, iter, scan, keys>>

\* incrementallyRehash: some steps in the time left, outside of any command.
dictRehashMilliseconds ==
    /\ dictIsRehashing(dict)
    /\ iterators = 0
    /\ dict' \in dictRehash(dict)
    /\ UNCHANGED <<canResize, iterators, iter, scan, keys>>

\* updateDictResizePolicy: a child was started or ended.
updateDictResizePolicy ==
    /\ canResize' = ~canResize
    /\ UNCHANGED <<dict, iterators, iter, scan, keys>>

(***************************************************************************)
(* Safe iterators.                                                         *)
(***************************************************************************)
Bucket(t, j) == IF t = 0 THEN dict.ht0.b[j] ELSE dict.ht1.b[j]
Slots == {<<0, j>> : j \in 0..(dict.ht0.size - 1)}
         \cup (IF dictIsRehashing(dict) THEN {<<1, j>> : j \in 0..(dict.ht1.size - 1)} ELSE {})
Before(p, q) == p[1] < q[1] \/ (p[1] = q[1] /\ p[2] < q[2])

\* The buckets dictNext still has before it, and the one it stops at.
Ahead(it) == {p \in Slots : Before(<<it.table, it.index>>, p) /\ Bucket(p[1], p[2]) # {}}

Return(it, k, rest) ==
    [it EXCEPT !.rest = rest, !.owed = @ \ {k}, !.seen = @ \cup {k},
               !.twice = @ \/ k \in it.seen]

\* The first call of dictNext counts the iterator.
StartIter(i) ==
    /\ iter[i].phase # "on"
    /\ iter' = [iter EXCEPT ![i] = [NoIter EXCEPT !.phase = "on", !.owed = keys]]
    /\ iterators' = iterators + 1
    /\ UNCHANGED <<dict, canResize, scan, keys>>

\* dictNext: the rest of the chain, then the next bucket that is not empty, then
\* the other table; at the end the caller releases the iterator.
dictNext(i) ==
    LET it == iter[i] IN
    /\ it.phase = "on"
    /\ \/ /\ it.rest # {}
          /\ \E k \in it.rest : iter' = [iter EXCEPT ![i] = Return(it, k, it.rest \ {k})]
          /\ UNCHANGED iterators
       \/ /\ it.rest = {} /\ Ahead(it) # {}
          /\ \E p \in Ahead(it) :
               /\ \A r \in Ahead(it) : r = p \/ Before(p, r)
               /\ \E k \in Bucket(p[1], p[2]) :
                    iter' = [iter EXCEPT ![i] = Return([it EXCEPT !.table = p[1], !.index = p[2]],
                                                       k, Bucket(p[1], p[2]) \ {k})]
          /\ UNCHANGED iterators
       \/ /\ it.rest = {} /\ Ahead(it) = {}
          /\ iter' = [iter EXCEPT ![i] = [NoIter EXCEPT !.phase = "done", !.owed = it.owed]]
          /\ iterators' = iterators - 1
    /\ UNCHANGED <<dict, canResize, scan, keys>>

\* Wrong: the iterator is not counted down.
dictReleaseIteratorLeaks(i) ==
    /\ iter[i].phase = "on"
    /\ iter' = [iter EXCEPT ![i] = NoIter]
    /\ UNCHANGED <<dict, canResize, iterators, scan, keys>>
\* dictReleaseIterator before the end.
dictReleaseIterator(i) ==
    /\ iter[i].phase = "on"
    /\ iter' = [iter EXCEPT ![i] = NoIter]
    /\ iterators' = iterators - 1
    /\ UNCHANGED <<dict, canResize, scan, keys>>

(***************************************************************************)
(* Scanning.                                                               *)
(***************************************************************************)

\* rev, on numbers of n bits: the lowest bit becomes the highest one.
rev[n \in Nat] ==
    IF n = 0 THEN [v \in {0} |-> 0]
    ELSE [v \in 0..(pow2[n] - 1) |-> (v % 2) * pow2[n - 1] + rev[n - 1][v \div 2]]
CursorSize == pow2[CursorBits]
Reversed(v) == rev[CursorBits][v]

\* Wrong: the cursor is incremented like a number.
NextCursorPlain(v, size) == (v + 1) % size
\* The bits above the mask of the smaller table are set, and the reversed cursor
\* is incremented.
NextCursor(v, size) ==
    Reversed((Reversed((v % size) + (CursorSize - size)) + 1) % CursorSize)

Smaller(d) == IF d.ht0.size > d.ht1.size THEN d.ht1 ELSE d.ht0
Larger(d) == IF d.ht0.size > d.ht1.size THEN d.ht0 ELSE d.ht1

\* The buckets of the larger table that cursor v stands for, from v's own on.
Expansions(v, small, large) ==
    {j \in 0..(large.size - 1) : j % small.size = v % small.size /\ j >= v % large.size}

\* dictScan: what is emitted, and the cursor returned.
dictScan(d, v) ==
    IF dictSize(d) = 0 THEN [out |-> {}, cursor |-> 0]
    ELSE IF ~dictIsRehashing(d)
    THEN [out |-> d.ht0.b[v % d.ht0.size], cursor |-> NextCursor(v, d.ht0.size)]
    ELSE [out |-> Smaller(d).b[v % Smaller(d).size]
                    \cup UNION {Larger(d).b[j] : j \in Expansions(v, Smaller(d), Larger(d))},
          cursor |-> NextCursor(v, Smaller(d).size)]

\* History: the cursor is of the larger table, or of one as large, and stands in
\* the middle of more than two expansions of the smaller one's bucket.
InsideExpansion(v) ==
    /\ dictIsRehashing(dict)
    /\ Larger(dict).size > 2 * Smaller(dict).size
    /\ v % Larger(dict).size >= Smaller(dict).size

ScanStart ==
    /\ scan.phase # "on"
    /\ scan' = [NoScan EXCEPT !.phase = "on", !.owed = keys]
    /\ UNCHANGED <<dict, canResize, iterators, iter, keys>>
ScanStep ==
    LET r == dictScan(dict, scan.cursor) IN
    /\ scan.phase = "on"
    /\ scan' = [scan EXCEPT !.phase = IF r.cursor = 0 THEN "done" ELSE "on",
                            !.cursor = r.cursor, !.owed = @ \ r.out,
                            !.cut = @ \/ InsideExpansion(scan.cursor)]
    /\ UNCHANGED <<dict, canResize, iterators, iter, keys>>

Next ==
    \/ \E k \in Keys : dictAddRaw(k) \/ dictGenericDelete(k)
    \/ dictFind \/ dictEmpty \/ dictResize \/ dictRehashMilliseconds \/ updateDictResizePolicy
    \/ \E i \in Iters : StartIter(i) \/ dictNext(i) \/ dictReleaseIterator(i)
    \/ ScanStart \/ ScanStep

Spec == Init /\ [][Next]_vars

(***************************************************************************)
(* Properties.                                                             *)
(***************************************************************************)

IsTable(t) ==
    /\ t.size \in TableSizes \cup {0} /\ t.used \in Nat
    /\ t.b \in [0..(t.size - 1) -> SUBSET Keys]

Iterator == [phase : {"idle", "on", "done"}, table : {0, 1}, index : Nat \cup {-1},
             rest : SUBSET Keys, owed : SUBSET Keys, seen : SUBSET Keys, twice : BOOLEAN]

\* The two tables and rehashidx keep to the shapes the code gives them.
TypeOK ==
    /\ IsTable(dict.ht0) /\ IsTable(dict.ht1)
    /\ dict.ridx \in Nat \cup {-1}
    /\ dictIsRehashing(dict) => dict.ht0.size # 0 /\ dict.ht1.size # 0
    /\ canResize \in BOOLEAN
    /\ iter \in [Iters -> Iterator]
    /\ iterators = Cardinality({i \in Iters : iter[i].phase = "on"})
    /\ keys \subseteq Keys

\* A lookup finds what was added and not deleted, and nothing else, at every
\* point of a rehashing.
FindExact == \A k \in Keys : Find(dict, k) <=> k \in keys

\* The counters are right: ht[0] is given up when, and only when, its counter
\* says it is empty, and the search for the next bucket to move, which has no
\* bound of its own, stops inside the table.
RehashSafe ==
    dictIsRehashing(dict) =>
        IF dict.ht0.used = 0 THEN Contents(dict.ht0) = {}
        ELSE \E i \in 0..(dict.ht0.size - 1) : IsNextBucket(dict, i)

\* A full SCAN returns every element that was present from its start to its end,
\* however the table was resized and rehashed between its calls.
ScanComplete == scan.phase = "done" => scan.owed = {}

\* The same for the scans no call of which met a cursor inside of an expansion.
ScanCompleteUncut == scan.phase = "done" /\ ~scan.cut => scan.owed = {}

\* A safe iterator returns every element that stays in the dictionary, and none
\* of them twice, while its user adds and deletes.
IterExact ==
    \A i \in Iters :
        /\ iter[i].phase = "done" => iter[i].owed = {}
        /\ ~(iter[i].twice)
================================================================================
