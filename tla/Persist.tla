------------------------------- MODULE Persist ------------------------------
(***************************************************************************)
(* Values written to a file and read back: the objects of an RDB file or a *)
(* DUMP payload (rdb.c), and the commands a rewrite of the AOF emits for   *)
(* them (aof.c).  Compact encodings are written as they are, the others by *)
(* their elements, and the reader chooses an encoding again.  A            *)
(* HyperLogLog is a string that no reader can take for an integer.         *)
(***************************************************************************)
EXTENDS ZsetType, SetType, HyperLogLog

CONSTANT REDIS_AOF_REWRITE_ITEMS_PER_CMD

\* What may be written: a table is written in the order of its buckets.
rdbSaveObject(o) ==
    CASE o.type = "list" -> {[raw |-> IsZiplist(o), v |-> o.p]}
      [] o.type = "set" -> {[raw |-> IsIntset(o), v |-> IF IsIntset(o) THEN o.p ELSE setTypeNext(o)]}
      [] o.type = "zset" /\ IsZiplist(o) -> {[raw |-> TRUE, v |-> o.p]}
      [] o.type = "zset" /\ ~IsZiplist(o) ->
             {[raw |-> FALSE, v |-> SetToSeq({<<x, o.p.dict[x]>> : x \in DOMAIN o.p.dict})]}
      [] o.type = "hash" /\ IsZiplist(o) -> {[raw |-> TRUE, v |-> o.p]}
      [] o.type = "hash" /\ ~IsZiplist(o) ->
             {[raw |-> FALSE, v |-> s] : s \in SetToSeqs(genericHgetallCommand(o))}
      [] o.type = "string" -> {[raw |-> FALSE, v |-> getDecodedObject(o)]}
      [] o.type = "hll" -> {[raw |-> TRUE, v |-> o]}

\* A list of elements: a ziplist unless there are too many, until one is too long.
LoadList(s) ==
    LET Load(o, v) ==
            LET a == listTypeTryConversion(o, v)
            IN  [a EXCEPT !.p = IF IsZiplist(a) THEN ziplistPushTail(@, v) ELSE Append(@, v)]
    IN  FoldLeft(Load,
                 IF Len(s) > list_max_ziplist_entries THEN listTypeConvert(NewList) ELSE NewList, s)

\* Elements of a set: an intset unless there are too many, until one is no integer.
LoadSet(s) ==
    LET Load(o, x) ==
            IF IsIntset(o) /\ x \notin NotIntegers THEN [o EXCEPT !.p = intsetAdd(@, x).is]
            ELSE LET h == IF IsIntset(o) THEN setTypeConvert(o) ELSE o IN [h EXCEPT !.p = @ \cup {x}]
    IN  FoldLeft(Load,
                 IF Len(s) > set_max_intset_entries THEN setTypeConvert(EmptyIntset) ELSE EmptyIntset, s)

\* A skip list is made in any case, and converted when it is small.
LoadZset(s, draw) ==
    LET o == [NewZset EXCEPT !.p = FoldLeft(LAMBDA zs, x : ZsetInsert(zs, x[1], x[2], draw), @, s)]
    IN  IF /\ Len(s) <= zset_max_ziplist_entries
           /\ \A j \in 1..Len(s) : ~TooLong(s[j][1], zset_max_ziplist_value)
        THEN zsetConvertToZiplist(o) ELSE o

\* The pair that is too long for a ziplist is still pushed before the conversion.
LoadHash(s) ==
    LET Long(x) == TooLong(x[1], hash_max_ziplist_value) \/ TooLong(x[2], hash_max_ziplist_value)
        Load(o, x) ==
            LET a == [o EXCEPT !.p = ziplistPushTail(ziplistPushTail(@, x[1]), x[2])]
            IN  IF ~IsZiplist(o) THEN [o EXCEPT !.p = (x[1] :> x[2]) @@ @]
                ELSE IF Long(x) THEN hashTypeConvert(a) ELSE a
    IN  FoldLeft(Load,
                 IF Len(s) > hash_max_ziplist_entries THEN hashTypeConvert(NewHash) ELSE NewHash, s)

\* A compact encoding that is too long for the configuration is converted.
LoadRaw(type, p, draw) ==
    CASE type = "list" -> ConvertIfLong([NewList EXCEPT !.p = p], list_max_ziplist_entries)
      [] type = "set" ->
             LET o == [EmptyIntset EXCEPT !.p = p]
             IN  IF intsetLen(p) > set_max_intset_entries THEN setTypeConvert(o) ELSE o
      [] type = "zset" ->
             LET o == [NewZiplistZset EXCEPT !.p = p]
             IN  IF zzlLength(p) > zset_max_ziplist_entries THEN zsetConvertToSkiplist(o, draw) ELSE Measured(o)
      [] type = "hash" -> ConvertHashIfLong([NewHash EXCEPT !.p = p])
      [] type = "hll" -> p

rdbLoadObject(type, file, draw) ==
    IF file.raw THEN LoadRaw(type, file.v, draw)
    ELSE CASE type = "list" -> LoadList(file.v)
           [] type = "set" -> LoadSet(file.v)
           [] type = "zset" -> LoadZset(file.v, draw)
           [] type = "hash" -> LoadHash(file.v)
           [] type = "string" -> tryObjectEncoding(file.v)

-----------------------------------------------------------------------------
\* The commands of a rewrite.  A command says in front how many items follow.

WriteItem(acc, x) ==
    LET first == acc.count = 0
        n == IF acc.items > REDIS_AOF_REWRITE_ITEMS_PER_CMD THEN REDIS_AOF_REWRITE_ITEMS_PER_CMD ELSE acc.items
        cmds == IF first THEN Append(acc.cmds, [n |-> n, args |-> <<>>]) ELSE acc.cmds
    IN  [cmds |-> [cmds EXCEPT ![Len(cmds)].args = Append(@, x)],
         count |-> IF acc.count + 1 = REDIS_AOF_REWRITE_ITEMS_PER_CMD THEN 0 ELSE acc.count + 1,
         items |-> acc.items - 1]

WriteItems(s, length) == FoldLeft(WriteItem, [cmds |-> <<>>, count |-> 0, items |-> length], s).cmds

rewriteListObject(o) == {WriteItems(ListForward(o), listTypeLength(o))}

rewriteSetObject(o) == {WriteItems(setTypeNext(o), setTypeSize(o))}

rewriteSortedSetObject(o) ==
    LET eles == zuiNext([o |-> o])
    IN  {WriteItems([j \in 1..Len(eles) |-> <<eles[j], zsetScore(o, eles[j])>>], zsetLength(o))}

rewriteHashObject(o) ==
    {WriteItems(s, hashTypeLength(o)) :
        s \in IF IsZiplist(o) THEN {[j \in 1..(Len(o.p.e) \div 2) |-> <<o.p.e[2*j - 1].v, o.p.e[2*j].v>>]}
              ELSE SetToSeqs(genericHgetallCommand(o))}

rewriteAppendOnlyFile(o) ==
    CASE o.type = "list" -> rewriteListObject(o)
      [] o.type = "set" -> rewriteSetObject(o)
      [] o.type = "zset" -> rewriteSortedSetObject(o)
      [] o.type = "hash" -> rewriteHashObject(o)
      [] o.type \in {"string", "hll"} -> {<<[n |-> 1, args |-> <<o>>]>>}

\* One command of the file: SET, RPUSH, SADD, ZADD or HMSET.
RunItems(type, o, args, draw) ==
    CASE type = "list" -> FoldLeft(LAMBDA a, v : pushGenericCommand(a, v, "tail").o, o, args)
      [] type = "set" -> FoldLeft(LAMBDA a, x : saddCommand([k \in {0} |-> a], 0, x).db[0], o, args)
      [] type = "zset" -> FoldLeft(LAMBDA a, x : zaddGenericCommand(a, FALSE, x[2], x[1], draw).o, o, args)
      [] type = "hash" -> hmsetCommand(o, args).o
      [] type = "string" -> setGenericCommand(o, "", getDecodedObject(args[1])).o
      [] type = "hll" -> args[1]

\* A count that does not fit the items makes the rest unreadable: the server
\* stops, and there is nothing.
loadAppendOnlyFile(type, cmds, draw) ==
    IF \E j \in 1..Len(cmds) : cmds[j].n # Len(cmds[j].args) THEN NoKey
    ELSE FoldLeft(LAMBDA a, c : RunItems(type, a, c.args, draw), NoKey, cmds)
=============================================================================
