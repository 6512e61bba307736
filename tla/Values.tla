------------------------------- MODULE Values -------------------------------
(***************************************************************************)
(* The commands on values as the code runs them on the encodings it chose, *)
(* and that they implement ValueSpec.                                      *)
(* workload is the set of commands a behaviour may issue, db maps the keys *)
(* to their objects, last is the last command and its reply.               *)
(***************************************************************************)
EXTENDS Persist

CONSTANTS Workloads,     \* records: keys, commands
          MaxElements,   \* a bound on the elements of a value
          MaxScore       \* a bound on scores

VARIABLES workload, db, last

vars == <<workload, db, last>>

-----------------------------------------------------------------------------
\* The command table.

On(k, out) == {[db |-> [db EXCEPT ![k] = out.o], r |-> out.r]}

ExecuteList(c) ==
    LET o == db[c.k]
    IN  On(c.k, CASE c.op = "LPUSH" -> pushGenericCommand(o, c.v, "head")
                  [] c.op = "RPUSH" -> pushGenericCommand(o, c.v, "tail")
                  [] c.op = "LPUSHX" -> pushxGenericCommand(o, c.v, "head")
                  [] c.op = "LINSERT" -> linsertCommand(o, c.w, c.v, IF c.after THEN "tail" ELSE "head")
                  [] c.op = "LLEN" -> llenCommand(o)
                  [] c.op = "LSET" -> lsetCommand(o, c.i, c.v)
                  [] c.op = "LPOP" -> popGenericCommand(o, "head")
                  [] c.op = "RPOP" -> popGenericCommand(o, "tail")
                  [] c.op = "ROTATE" -> rotateCommand(o)
                  [] c.op = "LTRIM" -> ltrimCommand(o, c.i, c.j)
                  [] c.op = "LREM" -> lremCommand(o, c.i, c.v))

ExecuteHash(c) ==
    LET o == db[c.k]
    IN  On(c.k, CASE c.op = "HSET" -> hsetCommand(o, c.f, c.v)
                  [] c.op = "HSETNX" -> hsetnxCommand(o, c.f, c.v)
                  [] c.op = "HMSET" -> hmsetCommand(o, <<<<c.f, c.v>>, <<c.g, c.w>>>>)
                  [] c.op = "HINCRBY" -> hincrbyCommand(o, c.f, c.i)
                  [] c.op = "HDEL" -> hdelCommand(o, c.f))

ExecuteSet(c) ==
    CASE c.op = "SADD" -> {saddCommand(db, c.k, c.v)}
      [] c.op = "SREM" -> {sremCommand(db, c.k, c.v)}
      [] c.op = "SMOVE" -> {smoveCommand(db, c.k, c.d, c.v)}
      [] c.op = "SPOP" -> spopCommand(db, c.k)
      [] c.op = "SINTERSTORE" -> {sinterGenericCommand(db, c.ks, c.k)}
      [] c.op = "SUNIONSTORE" -> {sunionDiffGenericCommand(db, "union", c.ks, c.k)}
      [] c.op = "SDIFFSTORE" -> {sunionDiffGenericCommand(db, "diff", c.ks, c.k)}

\* The levels the generator may give the nodes a command makes.
Draws == IF workload.type = "zset" THEN [workload.elements -> 1..ZSKIPLIST_MAXLEVEL] ELSE {<<>>}

Sources(c) == [j \in 1..Len(c.ks) |-> [o |-> db[c.ks[j]], weight |-> c.weights[j]]]

ExecuteZset(c) ==
    LET o == db[c.k]
        S == Sources(c)
    IN  CASE c.op = "ZADD" -> UNION {On(c.k, zaddGenericCommand(o, FALSE, c.i, c.v, d)) : d \in Draws}
          [] c.op = "ZINCRBY" -> UNION {On(c.k, zaddGenericCommand(o, TRUE, c.i, c.v, d)) : d \in Draws}
          [] c.op = "ZREM" -> On(c.k, zremCommand(o, c.v))
          [] c.op = "ZREMRANGEBYRANK" -> On(c.k, zremrangebyrank(o, c.i, c.j))
          [] c.op = "ZREMRANGEBYSCORE" -> On(c.k, zremrangebyscore(o, c.range))
          [] c.op = "ZREMRANGEBYLEX" -> On(c.k, zremrangebylex(o, c.range))
          [] c.op = "ZUNIONSTORE" ->
                 UNION {On(c.k, zunionInterGenericCommand(S, "union", c.aggregate, d)) : d \in Draws}
          [] c.op = "ZINTERSTORE" ->
                 UNION {On(c.k, zunionInterGenericCommand(S, "inter", c.aggregate, d)) : d \in Draws}

ExecuteString(c) ==
    LET o == db[c.k]
    IN  CASE c.op = "SET" -> On(c.k, setGenericCommand(o, c.flag, c.s))
          [] c.op = "GETSET" -> On(c.k, getsetCommand(o, c.s))
          [] c.op = "APPEND" -> On(c.k, appendCommand(o, c.s))
          [] c.op = "SETRANGE" -> On(c.k, setrangeCommand(o, c.i, c.s))
          [] c.op = "INCRBY" -> On(c.k, incrDecrCommand(o, c.i))
          [] c.op = "DECRBY" -> On(c.k, decrbyCommand(o, c.i))
          [] c.op = "MSET" -> {msetGenericCommand(db, <<<<c.k, c.s>>, <<c.d, c.t>>>>, FALSE)}
          [] c.op = "MSETNX" -> {msetGenericCommand(db, <<<<c.k, c.s>>, <<c.d, c.t>>>>, TRUE)}
          [] c.op = "SETBIT" -> On(c.k, setbitCommand(o, c.i, c.on))
          [] c.op = "BITOP" -> {bitopCommand(db, c.what, c.ks, c.k)}

ExecuteHll(c) ==
    CASE c.op = "PFADD" -> On(c.k, pfaddCommand(db[c.k], c.eles))
      [] c.op = "PFCOUNT" -> On(c.k, pfcountCommand(db[c.k]))
      [] c.op = "PFMERGE" -> {pfmergeCommand(db, c.k, c.ks)}

\* A key through DUMP and RESTORE, or through a rewritten AOF and a restart: the
\* keys of a file do not depend on each other.
ExecuteReload(c) ==
    LET o == db[c.k]
        Loaded(d) == IF c.op = "RESTORE" THEN {rdbLoadObject(o.type, f, d) : f \in rdbSaveObject(o)}
                     ELSE {loadAppendOnlyFile(o.type, f, d) : f \in rewriteAppendOnlyFile(o)}
    IN  UNION {On(c.k, Out(a, "ok")) : a \in UNION {Loaded(d) : d \in Draws}}

-----------------------------------------------------------------------------
\* The value an object stands for.
Ideal(o) ==
    CASE o.type = "none" -> o
      [] o.type = "list" -> [type |-> "list", v |-> ListForward(o)]
      [] o.type = "set" -> [type |-> "set", v |-> ToSet(setTypeNext(o))]
      [] o.type = "hash" ->
             LET pairs == genericHgetallCommand(o)
             IN  [type |-> "hash",
                  v |-> [f \in {x[1] : x \in pairs} |-> (CHOOSE x \in pairs : x[1] = f)[2]]]
      [] o.type = "zset" ->
             LET eles == zuiNext([o |-> o])
             IN  [type |-> "zset", v |-> [x \in ToSet(eles) |-> zsetScore(o, x)]]
      [] o.type = "string" -> [type |-> "string", v |-> getDecodedObject(o)]
      [] o.type = "hll" -> [type |-> "hll", v |-> hllMerge(NoElements, o)]

Elements1(o) ==
    CASE o.type = "none" -> 0
      [] o.type = "list" -> listTypeLength(o)
      [] o.type = "set" -> setTypeSize(o)
      [] o.type = "hash" -> hashTypeLength(o)
      [] o.type = "zset" -> zsetLength(o)
      [] o.type \in {"string", "hll"} -> 0   \* bounded by their own limits

InBound(o) ==
    /\ Elements1(o) <= MaxElements
    /\ o.type = "zset" => \A x \in DOMAIN Ideal(o).v : Ideal(o).v[x] \in 0..MaxScore

Spec0 == INSTANCE ValueSpec WITH
    val <- [k \in DOMAIN db |-> Ideal(db[k])], Numbers <- DOMAIN IntSize, Longs <- LLONG_MIN..LLONG_MAX,
    Text <- ll2string, Read <- strtoll, StringLimit <- MaxStringLength, Estimate <- RawSum

Init ==
    /\ workload \in Workloads
    /\ db = [k \in workload.keys |-> NoKey]
    /\ last = [cmd |-> Spec0!NoCommand, r |-> 0]

\* A command runs to its end; a bound keeps the values small.
Perform(c, outcomes) ==
    \E out \in outcomes :
        /\ \A k \in DOMAIN db : InBound(out.db[k])
        /\ db' = out.db
        /\ last' = [cmd |-> c, r |-> out.r]
        /\ UNCHANGED workload

ListCommand == workload.type = "list" /\ \E c \in workload.commands : Perform(c, ExecuteList(c))

HashCommand == workload.type = "hash" /\ \E c \in workload.commands : Perform(c, ExecuteHash(c))

SetCommand == workload.type = "set" /\ \E c \in workload.commands : Perform(c, ExecuteSet(c))

ZsetCommand == workload.type = "zset" /\ \E c \in workload.commands : Perform(c, ExecuteZset(c))

StringCommand == workload.type = "string" /\ \E c \in workload.commands : Perform(c, ExecuteString(c))

HllCommand == workload.type = "hll" /\ \E c \in workload.commands : Perform(c, ExecuteHll(c))

Reload ==
    \E k \in DOMAIN db, op \in {"RESTORE", "LOADAOF"} :
        db[k] # NoKey /\ LET c == [op |-> op, k |-> k] IN Perform(c, ExecuteReload(c))

Next ==
    Reload \/ ListCommand \/ HashCommand \/ SetCommand \/ ZsetCommand \/ StringCommand \/ HllCommand

Spec == Init /\ [][Next]_vars

-----------------------------------------------------------------------------
\* Every command has the effect and the reply its value promises, in every
\* encoding, through every conversion and whatever levels the nodes of a skip
\* list drew; a key whose value became empty is gone.
Refines == Spec0!Spec

Indexes == -(MaxElements + 1) .. (MaxElements + 1)

ListReads(o, s) ==
    /\ ListBackward(o) = Reverse(s)
    /\ \A i \in Indexes : lindexCommand(o, i) = LET p == Spec0!Position(s, i) IN IF p = 0 THEN Nil ELSE s[p]
    /\ \A i, j \in Indexes : lrangeCommand(o, i, j) = Spec0!Plain(Spec0!Slice(s, i, j))

HashReads(o, h) ==
    /\ hashTypeLength(o) = Cardinality(DOMAIN h)
    /\ \A f \in workload.elements : hashTypeGetObject(o, f) = IF f \in DOMAIN h THEN h[f] ELSE Nil

SetReads(k, o, s) ==
    /\ setTypeSize(o) = Cardinality(s)
    /\ \A x \in workload.elements : setTypeIsMember(o, x) <=> x \in s
    /\ \A n \in 0..MaxElements : \A d \in srandmemberWithCountCommand(db, k, n) :
          d \subseteq s /\ Cardinality(d) = IF n > Cardinality(s) THEN Cardinality(s) ELSE n

\* The first n elements of s after the first m.
Limited(s, m, n) == SubSeq(s, m + 1, IF Len(s) < m + n THEN Len(s) ELSE m + n)

\* s is the elements in order.
OrderedReads(o, z, s) ==
    LET Dir(reverse) == IF reverse THEN Reverse(s) ELSE s
    IN  /\ zsetLength(o) = Len(s)
        /\ \A reverse \in BOOLEAN :
              /\ \A x \in workload.elements :
                    zrankGenericCommand(o, x, reverse) =
                        IF x \in DOMAIN z THEN (CHOOSE r \in 1..Len(s) : Dir(reverse)[r] = x) - 1 ELSE Nil
              /\ \A i, j \in Indexes :
                    zrangeGenericCommand(o, i, j, reverse) = Spec0!Plain(Spec0!Slice(Dir(reverse), i, j))
              /\ \A range \in workload.scores, m \in 0..1, n \in 1..2 :
                    genericZrangebyscoreCommand(o, range, reverse, m, n) =
                        Limited(SelectSeq(Dir(reverse), LAMBDA x : Spec0!Within(z[x], range)), m, n)
              /\ Spec0!SameScores(z) => \A range \in workload.ranges :
                    genericZrangebylexCommand(o, range, reverse, 0, 2) =
                        Limited(SelectSeq(Dir(reverse), LAMBDA x : Spec0!Within(x, range)), 0, 2)
        /\ \A range \in workload.scores :
              zcountCommand(o, range) = Cardinality({x \in DOMAIN z : Spec0!Within(z[x], range)})
        /\ Spec0!SameScores(z) => \A range \in workload.ranges :
              zlexcountCommand(o, range) = Cardinality({x \in DOMAIN z : Spec0!Within(x, range)})

ZsetReads(o, z) == OrderedReads(o, z, Spec0!Ordered(z))

\* Bits by position, counted and searched in ranges; a range that ends before
\* the string is read as one that ends with its first byte.
StringReads(o, s) ==
    LET Bits(i, j) == (8 * Start(i, Len(s)))..(8 * End(j, Len(s)) + 7)
        FirstOf(B, otherwise) == IF B = {} THEN otherwise ELSE CHOOSE b \in B : \A d \in B : b <= d
    IN  /\ getGenericCommand(o) = s
        /\ \A b \in 0..(8 * MaxStringLength) : getbitCommand(o, b) = Spec0!BitAt(s, b)
        /\ \A i, j \in -(Len(s) + 1)..(Len(s) + 1) :
              /\ j >= -Len(s) => getrangeCommand(o, i, j) = Spec0!Plain(Spec0!Slice(s, i, j))
              /\ bitcountCommand(o, i, j) = Cardinality({b \in Bits(i, j) : Spec0!BitAt(s, b) = 1})
              /\ \A bit \in {0, 1}, end \in BOOLEAN :
                    LET B == {b \in Bits(i, IF end THEN j ELSE -1) : Spec0!BitAt(s, b) = bit}
                    IN  bitposCommand(o, bit, i, j, end) =
                            IF end \/ bit = 1 \/ Bits(i, -1) = {} THEN FirstOf(B, -1)
                            ELSE FirstOf(B, 8 * Len(s))

\* A cached count is the count, and several keys count as their union.
HllReads(o, h) ==
    /\ o.card # Invalid => o.card = RawSum(h)
    /\ \A k \in DOMAIN db :
          pfcountUnion(db, <<k, k>>) = IF db[k] = NoKey THEN RawSum(NoElements) ELSE RawSum(Ideal(db[k]).v)

\* In every state every read agrees with the value: from both ends, by index,
\* rank, score and element, with ranges that are empty, open or out of bounds.
ReadsAgree ==
    \A k \in DOMAIN db :
        LET o == db[k]
            v == Ideal(o).v
        IN  CASE o.type = "none" -> TRUE
              [] o.type = "list" -> ListReads(o, v)
              [] o.type = "hash" -> HashReads(o, v)
              [] o.type = "set" -> SetReads(k, o, v)
              [] o.type = "zset" -> ZsetReads(o, v)
              [] o.type = "string" -> StringReads(o, v)
              [] o.type = "hll" -> HllReads(o, v)

\* The redundant parts of every encoding agree: the header and the lengths of a
\* ziplist with its entries, the spans, back pointers and tail of a skip list
\* with its lowest level, its table with its nodes; an intset is sorted and no
\* element was cut to its encoding; the opcodes of a sparse HyperLogLog cover
\* its registers; no compact encoding is past its limit.
EncodingOK ==
    \A k \in DOMAIN db :
        LET o == db[k]
        IN  /\ o.type \in {"list", "hash", "zset"} /\ IsZiplist(o) => ZiplistOK(o.p)
            /\ o.type = "list" /\ IsZiplist(o) => Len(o.p.e) <= list_max_ziplist_entries
            /\ o.type = "hash" /\ IsZiplist(o) => Len(o.p.e) <= 2 * hash_max_ziplist_entries
            /\ o.type = "zset" /\ IsZiplist(o) => Len(o.p.e) <= 2 * zset_max_ziplist_entries
            /\ o.type = "set" /\ IsIntset(o) =>
                  IntsetOK(o.p) /\ intsetLen(o.p) <= set_max_intset_entries
            /\ o.type = "zset" /\ ~IsZiplist(o) =>
                  /\ SkiplistOK(o.p.zsl)
                  /\ DOMAIN o.p.dict = DOMAIN o.p.zsl.node \ {Header}
                  /\ \A x \in DOMAIN o.p.dict : o.p.dict[x] = o.p.zsl.node[x].score
            /\ o.type = "hll" => HllOK(o)

\* The last reply does not influence what comes next.
StateView == <<workload, db>>
=============================================================================
