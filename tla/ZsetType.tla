------------------------------ MODULE ZsetType ------------------------------
(***************************************************************************)
(* The sorted set commands of t_zset.c.  A sorted set is a ziplist of      *)
(* elements and scores in turn, kept in order, or a skip list with a table *)
(* from elements to scores.  Commands take and return the object under the *)
(* key, as in ListType; draw maps elements to the levels the random number *)
(* generator gives their nodes.                                            *)
(***************************************************************************)
EXTENDS HashType, Skiplist

CONSTANTS zset_max_ziplist_entries, zset_max_ziplist_value

NewZiplistZset == [type |-> "zset", enc |-> "ziplist", p |-> ziplistNew]

EmptyTable == [x \in {} |-> 0]

NewZset == [type |-> "zset", enc |-> "skiplist", p |-> [zsl |-> zslCreate, dict |-> EmptyTable]]

\* Not the score of any element.
NoScore == -1000

\* The score is stored as the string of the number and read back.
zzlGetScore(zl, p) == zl.e[p + 1].v

zzlLength(zl) == ziplistLen(zl) \div 2

\* The elements are at the odd positions; Null before the first and after the last.
zzlNext(zl, p) == LET s == ziplistNext(zl, p) IN IF s = Null THEN Null ELSE ziplistNext(zl, s)

zzlPrev(zl, p) == LET s == ziplistPrev(zl, p) IN IF s = Null THEN Null ELSE ziplistPrev(zl, s)

\* From an element, Step by Step, to the first that Stop holds of.
SeekFrom(zl, from, Step(_, _), Stop(_)) ==
    LET Seek[p \in Nat] == IF p = Null \/ Stop(p) THEN p ELSE Seek[Step(zl, p)] IN Seek[from]

zzlIsInRange(zl, range) ==
    LET last == ziplistIndex(zl, -1)
        first == ziplistIndex(zl, 1)
    IN  /\ ~EmptyRange(range)
        /\ last # Null /\ ValueGteMin(zl.e[last].v, range)
        /\ ValueLteMax(zl.e[first].v, range)

zzlFirstInRange(zl, range) ==
    LET p == SeekFrom(zl, ziplistIndex(zl, 0), zzlNext, LAMBDA q : ValueGteMin(zzlGetScore(zl, q), range))
    IN  IF zzlIsInRange(zl, range) /\ p # Null /\ ValueLteMax(zzlGetScore(zl, p), range) THEN p ELSE Null

zzlLastInRange(zl, range) ==
    LET p == SeekFrom(zl, ziplistIndex(zl, -2), zzlPrev, LAMBDA q : ValueLteMax(zzlGetScore(zl, q), range))
    IN  IF zzlIsInRange(zl, range) /\ p # Null /\ ValueGteMin(zzlGetScore(zl, p), range) THEN p ELSE Null

zzlIsInLexRange(zl, range) ==
    LET last == ziplistIndex(zl, -2)
        first == ziplistIndex(zl, 0)
    IN  /\ ~(range.min = range.max /\ (range.minex \/ range.maxex))
        /\ last # Null /\ ValueGteMin(zl.e[last].v, range)
        /\ ValueLteMax(zl.e[first].v, range)

zzlFirstInLexRange(zl, range) ==
    LET p == SeekFrom(zl, ziplistIndex(zl, 0), zzlNext, LAMBDA q : ValueGteMin(zl.e[q].v, range))
    IN  IF zzlIsInLexRange(zl, range) /\ p # Null /\ ValueLteMax(zl.e[p].v, range) THEN p ELSE Null

zzlLastInLexRange(zl, range) ==
    LET p == SeekFrom(zl, ziplistIndex(zl, -2), zzlPrev, LAMBDA q : ValueLteMax(zl.e[q].v, range))
    IN  IF zzlIsInLexRange(zl, range) /\ p # Null /\ ValueGteMin(zl.e[p].v, range) THEN p ELSE Null

zzlFind(zl, ele) == SeekFrom(zl, ziplistIndex(zl, 0), zzlNext, LAMBDA q : ziplistCompare(zl, q, ele))

zzlDelete(zl, p) == __ziplistDelete(__ziplistDelete(zl, p, 1), p, 1)

\* At the end when p is Null.
zzlInsertAt(zl, p, ele, score) ==
    LET q == IF p = Null THEN Len(zl.e) + 1 ELSE p
    IN  __ziplistInsert(__ziplistInsert(zl, q, ele), q + 1, score)

\* In front of the first element with a greater score, or with the same score
\* and greater itself.
zzlInsert(zl, ele, score) ==
    zzlInsertAt(zl, SeekFrom(zl, ziplistIndex(zl, 0), zzlNext,
                             LAMBDA q : \/ zzlGetScore(zl, q) > score
                                        \/ zzlGetScore(zl, q) = score /\ zl.e[q].v > ele),
                ele, score)

\* From p on, while Del holds of the element that has come there.
zzlDeleteWhile(zl, p, Del(_, _)) ==
    IF p = Null THEN zl
    ELSE FoldLeft(LAMBDA z, j : IF p < Len(z.e) /\ Del(z, p) THEN zzlDelete(z, p) ELSE z,
                  zl, [j \in 1..Len(zl.e) |-> j])

zzlDeleteRangeByScore(zl, range) ==
    zzlDeleteWhile(zl, zzlFirstInRange(zl, range), LAMBDA z, q : ValueLteMax(zzlGetScore(z, q), range))

zzlDeleteRangeByLex(zl, range) ==
    zzlDeleteWhile(zl, zzlFirstInLexRange(zl, range), LAMBDA z, q : ValueLteMax(z.e[q].v, range))

zzlDeleteRangeByRank(zl, start, end) == ziplistDeleteRange(zl, 2 * (start - 1), 2 * (end - start + 1))

-----------------------------------------------------------------------------
zsetLength(o) == IF IsZiplist(o) THEN zzlLength(o.p) ELSE o.p.zsl.length

\* A node for the element and its score in the table.
ZsetInsert(zs, ele, score, draw) ==
    [zsl |-> zslInsert(zs.zsl, score, ele, draw[ele]), dict |-> (ele :> score) @@ zs.dict]

zsetConvertToSkiplist(o, draw) ==
    IF ~IsZiplist(o) THEN o
    ELSE [NewZset EXCEPT !.p = FoldLeft(LAMBDA zs, j : ZsetInsert(zs, o.p.e[2*j - 1].v, o.p.e[2*j].v, draw),
                                        @, [j \in 1..(Len(o.p.e) \div 2) |-> j])]

zsetConvertToZiplist(o) ==
    [NewZiplistZset EXCEPT !.p = FoldLeft(LAMBDA zl, x : zzlInsertAt(zl, Null, x, o.p.zsl.node[x].score),
                                          @, Forward(o.p.zsl))]

zsetScore(o, ele) ==
    IF IsZiplist(o) THEN (LET p == zzlFind(o.p, ele) IN IF p = Null THEN NoScore ELSE zzlGetScore(o.p, p))
    ELSE IF ele \in DOMAIN o.p.dict THEN o.p.dict[ele] ELSE NoScore

\* In a ziplist a new element may call for the other encoding; one that only
\* changes its score does not.
ConvertZsetIfLong(o, ele, draw) ==
    IF zzlLength(o.p) > zset_max_ziplist_entries \/ SdsLen[ele] > zset_max_ziplist_value
    THEN zsetConvertToSkiplist(o, draw) ELSE Measured(o)

\* cur is the score the element has.
AddToZiplist(o, ele, cur, score, draw) ==
    CASE cur = score -> o
      [] cur # score /\ cur = NoScore ->
             ConvertZsetIfLong([o EXCEPT !.p = zzlInsert(@, ele, score)], ele, draw)
      [] cur # score /\ cur # NoScore ->
             [o EXCEPT !.p = zzlInsert(zzlDelete(@, zzlFind(@, ele)), ele, score)]

AddToSkiplist(o, ele, cur, score, draw) ==
    LET gone == IF cur = NoScore THEN o.p.zsl ELSE zslDelete(o.p.zsl, cur, ele)
    IN  IF cur = score THEN o
        ELSE [o EXCEPT !.p = ZsetInsert([@ EXCEPT !.zsl = gone], ele, score, draw)]

AddWithScore(o, incr, score, ele, cur, draw) ==
    LET s == IF incr /\ cur # NoScore THEN cur + score ELSE score
    IN  Out(IF IsZiplist(o) THEN AddToZiplist(o, ele, cur, s, draw)
            ELSE AddToSkiplist(o, ele, cur, s, draw),
            IF incr THEN s ELSE IF cur = NoScore THEN 1 ELSE 0)

zaddGenericCommand(o, incr, score, ele, draw) ==
    LET new == IF zset_max_ziplist_entries = 0 \/ zset_max_ziplist_value < SdsLen[ele]
               THEN NewZset ELSE NewZiplistZset
        a == IF o = NoKey THEN new ELSE o
    IN  AddWithScore(a, incr, score, ele, zsetScore(a, ele), draw)

DropEmptyZset(o) == IF zsetLength(o) = 0 THEN NoKey ELSE IF IsZiplist(o) THEN Measured(o) ELSE o

\* Nodes and table entries go together.
WithNodes(o, zsl) ==
    [o EXCEPT !.p = [zsl |-> zsl, dict |-> Restrict(o.p.dict, DOMAIN zsl.node \ {Header})]]

zremCommand(o, ele) ==
    LET cur == zsetScore(o, ele)
        a == IF IsZiplist(o) THEN [o EXCEPT !.p = zzlDelete(@, zzlFind(@, ele))]
             ELSE [o EXCEPT !.p.zsl = zslDelete(@, cur, ele),
                            !.p.dict = Restrict(@, DOMAIN @ \ {ele})]
    IN  IF o = NoKey \/ cur = NoScore THEN Out(o, 0) ELSE Out(DropEmptyZset(a), 1)

\* Ranks from the end when negative, cut to the range; Null if it is empty.
RankRange(llen, from, to) ==
    LET s0 == IF from < 0 THEN llen + from ELSE from
        start == IF s0 < 0 THEN 0 ELSE s0
        e0 == IF to < 0 THEN llen + to ELSE to
    IN  IF start > e0 \/ start >= llen THEN {}
        ELSE {<<start, IF e0 >= llen THEN llen - 1 ELSE e0>>}

Deleted(o, a) == Out(DropEmptyZset(a), zsetLength(o) - zsetLength(a))

zremrangebyrank(o, from, to) ==
    LET R == RankRange(zsetLength(o), from, to)
        r == CHOOSE x \in R : TRUE
    IN  IF o = NoKey \/ R = {} THEN Out(o, 0)
        ELSE Deleted(o, IF IsZiplist(o) THEN [o EXCEPT !.p = zzlDeleteRangeByRank(@, r[1] + 1, r[2] + 1)]
                        ELSE WithNodes(o, zslDeleteRangeByRank(o.p.zsl, r[1] + 1, r[2] + 1)))

zremrangebyscore(o, range) ==
    IF o = NoKey THEN Out(o, 0)
    ELSE Deleted(o, IF IsZiplist(o) THEN [o EXCEPT !.p = zzlDeleteRangeByScore(@, range)]
                    ELSE WithNodes(o, zslDeleteRangeByScore(o.p.zsl, range)))

zremrangebylex(o, range) ==
    IF o = NoKey THEN Out(o, 0)
    ELSE Deleted(o, IF IsZiplist(o) THEN [o EXCEPT !.p = zzlDeleteRangeByLex(@, range)]
                    ELSE WithNodes(o, zslDeleteRangeByLex(o.p.zsl, range)))

-----------------------------------------------------------------------------
\* ZUNIONSTORE and ZINTERSTORE.  A source is a record o, weight.

zuiLength(src) == IF src.o = NoKey THEN 0 ELSE zsetLength(src.o)

\* The elements the iterator returns.
zuiNext(src) ==
    IF src.o = NoKey THEN <<>>
    ELSE IF IsZiplist(src.o) THEN [j \in 1..(Len(src.o.p.e) \div 2) |-> src.o.p.e[2*j - 1].v]
    ELSE Forward(src.o.p.zsl)

zuiFind(src, ele) == IF src.o = NoKey THEN NoScore ELSE zsetScore(src.o, ele)

zunionInterAggregate(target, val, aggregate) ==
    CASE aggregate = "sum" -> target + val
      [] aggregate = "min" -> IF val < target THEN val ELSE target
      [] aggregate = "max" -> IF val > target THEN val ELSE target

\* The score of an element over the sources that have it, in their order.
AggregateOver(srcs, ele, aggregate) ==
    LET has == SelectSeq(srcs, LAMBDA s : zuiFind(s, ele) # NoScore)
        W(s) == zuiFind(s, ele) * s.weight
    IN  FoldLeft(LAMBDA t, s : zunionInterAggregate(t, W(s), aggregate), W(has[1]), Tail(has))

zunionInterGenericCommand(srcs, op, aggregate, draw) ==
    LET smallest == CHOOSE s \in ToSet(srcs) : \A t \in ToSet(srcs) : zuiLength(s) <= zuiLength(t)
        inter == SelectSeq(zuiNext(smallest), LAMBDA x : \A s \in ToSet(srcs) : zuiFind(s, x) # NoScore)
        union == SetToSeq(UNION {ToSet(zuiNext(s)) : s \in ToSet(srcs)})
        eles == IF op = "inter" THEN inter ELSE union
        dst == [NewZset EXCEPT !.p = FoldLeft(
                    LAMBDA zs, x : ZsetInsert(zs, x, AggregateOver(srcs, x, aggregate), draw), @, eles)]
        small == /\ Len(eles) <= zset_max_ziplist_entries
                 /\ \A x \in ToSet(eles) : ~TooLong(x, zset_max_ziplist_value)
    IN  IF eles = <<>> THEN Out(NoKey, 0)
        ELSE Out(IF small THEN zsetConvertToZiplist(dst) ELSE dst, Len(eles))

-----------------------------------------------------------------------------
\* What the readers reply.  A place is an element's position in a ziplist or
\* its node.

NoPlace(o) == IF IsZiplist(o) THEN Null ELSE None

ElementAt(o, x) == IF IsZiplist(o) THEN o.p.e[x].v ELSE x

ScoreAt(o, x) == IF IsZiplist(o) THEN zzlGetScore(o.p, x) ELSE o.p.zsl.node[x].score

NextPlace(o, x, reverse) ==
    IF IsZiplist(o) THEN (IF reverse THEN zzlPrev(o.p, x) ELSE zzlNext(o.p, x))
    ELSE IF reverse THEN o.p.zsl.node[x].back ELSE o.p.zsl.node[x].fwd[1]

\* The elements from a place on, while Go holds, at most limit of them.
ReadFrom(o, from, reverse, offset, limit, Go(_)) ==
    LET Read[x \in Int, skip \in Int, n \in Int] ==
            IF x = NoPlace(o) THEN <<>>
            ELSE IF skip > 0 THEN Read[NextPlace(o, x, reverse), skip - 1, n]
            ELSE IF n = 0 \/ ~Go(x) THEN <<>>
            ELSE <<ElementAt(o, x)>> \o Read[NextPlace(o, x, reverse), 0, n - 1]
    IN  Read[from, offset, limit]

zrangeGenericCommand(o, from, to, reverse) ==
    LET llen == zsetLength(o)
        R == RankRange(llen, from, to)
        r == CHOOSE x \in R : TRUE
        start == r[1]
        zl == o.p
        zsl == o.p.zsl
        place == IF IsZiplist(o) THEN ziplistIndex(zl, IF reverse THEN -2 - 2 * start ELSE 2 * start)
                 ELSE IF start = 0 THEN (IF reverse THEN zsl.tail ELSE FirstNode(zsl))
                 ELSE zslGetElementByRank(zsl, IF reverse THEN llen - start ELSE start + 1)
    IN  IF R = {} THEN <<>> ELSE ReadFrom(o, place, reverse, 0, r[2] - start + 1, LAMBDA x : TRUE)

genericZrangebyscoreCommand(o, range, reverse, offset, limit) ==
    LET place == IF reverse
                 THEN (IF IsZiplist(o) THEN zzlLastInRange(o.p, range) ELSE zslLastInRange(o.p.zsl, range))
                 ELSE (IF IsZiplist(o) THEN zzlFirstInRange(o.p, range) ELSE zslFirstInRange(o.p.zsl, range))
    IN  ReadFrom(o, place, reverse, offset, limit,
                 LAMBDA x : IF reverse THEN ValueGteMin(ScoreAt(o, x), range)
                            ELSE ValueLteMax(ScoreAt(o, x), range))

genericZrangebylexCommand(o, range, reverse, offset, limit) ==
    LET place == IF reverse
                 THEN (IF IsZiplist(o) THEN zzlLastInLexRange(o.p, range) ELSE zslLastInLexRange(o.p.zsl, range))
                 ELSE (IF IsZiplist(o) THEN zzlFirstInLexRange(o.p, range) ELSE zslFirstInLexRange(o.p.zsl, range))
    IN  ReadFrom(o, place, reverse, offset, limit,
                 LAMBDA x : IF reverse THEN ValueGteMin(ElementAt(o, x), range)
                            ELSE ValueLteMax(ElementAt(o, x), range))

\* Wrong: the last element of the range is left out.
CountByRankOpen(zsl, first, last) ==
    LET Rank(x) == zslGetRank(zsl, zsl.node[x].score, x)
    IN  IF first = None THEN 0
        ELSE (zsl.length - Rank(first)) - IF last = None THEN 0 ELSE zsl.length - Rank(last)

\* In a skip list the count is what lies between the ranks of the ends.
CountByRank(zsl, first, last) ==
    LET Rank(x) == zslGetRank(zsl, zsl.node[x].score, x)
    IN  IF first = None THEN 0
        ELSE (zsl.length - (Rank(first) - 1)) - IF last = None THEN 0 ELSE zsl.length - Rank(last)

zcountCommand(o, range) ==
    IF IsZiplist(o) THEN Len(genericZrangebyscoreCommand(o, range, FALSE, 0, Len(o.p.e)))
    ELSE CountByRank(o.p.zsl, zslFirstInRange(o.p.zsl, range), zslLastInRange(o.p.zsl, range))

zlexcountCommand(o, range) ==
    IF IsZiplist(o) THEN Len(genericZrangebylexCommand(o, range, FALSE, 0, Len(o.p.e)))
    ELSE CountByRank(o.p.zsl, zslFirstInLexRange(o.p.zsl, range), zslLastInLexRange(o.p.zsl, range))

zrankGenericCommand(o, ele, reverse) ==
    LET p == zzlFind(o.p, ele)
        rank == IF IsZiplist(o) THEN (p + 1) \div 2 ELSE zslGetRank(o.p.zsl, o.p.dict[ele], ele)
    IN  IF zsetScore(o, ele) = NoScore THEN Nil
        ELSE IF reverse THEN zsetLength(o) - rank ELSE rank - 1
=============================================================================
