------------------------------ MODULE Skiplist ------------------------------
(***************************************************************************)
(* The skip list of t_zset.c.  It is a record: level, length, tail and     *)
(* node, which maps the header and the elements to their nodes (score,     *)
(* fwd and span for every level of the node, back).  An element is a       *)
(* positive integer, and elements of equal score are ordered as integers.  *)
(* The level of a new node is random; the caller draws it.                 *)
(***************************************************************************)
EXTENDS Integers, Sequences, FiniteSets, SequencesExt, Functions

CONSTANT ZSKIPLIST_MAXLEVEL

Header == 0

None == -1

MaxOf(S) == CHOOSE x \in S : \A y \in S : y <= x

zslCreateNode(level, score) ==
    [score |-> score, fwd |-> [i \in 1..level |-> None], span |-> [i \in 1..level |-> 0], back |-> None]

zslCreate ==
    [level |-> 1, length |-> 0, tail |-> None,
     node |-> (Header :> zslCreateNode(ZSKIPLIST_MAXLEVEL, 0))]

FirstNode(zsl) == zsl.node[Header].fwd[1]

\* The walk every operation begins with: on each level, from the highest, go
\* forward while Go holds of the next node and of the nodes passed by then.
\* For each level: where the walk left it, and its rank.
Descend(zsl, Go(_, _)) ==
    LET Walk[i \in 1..zsl.level, x \in Nat, r \in Int] ==
            LET y == zsl.node[x].fwd[i]
                n == r + zsl.node[x].span[i]
            IN  IF y # None /\ Go(y, n) THEN Walk[i, y, n] ELSE [x |-> x, r |-> r]
        Level[i \in 1..zsl.level] ==
            IF i = zsl.level THEN Walk[i, Header, 0] ELSE Walk[i, Level[i + 1].x, Level[i + 1].r]
    IN  Level

Precedes(zsl, y, score, obj) ==
    zsl.node[y].score < score \/ (zsl.node[y].score = score /\ y < obj)

zslInsert(zsl, score, obj, level) ==
    LET D == Descend(zsl, LAMBDA y, n : Precedes(zsl, y, score, obj))
        update == [i \in 1..ZSKIPLIST_MAXLEVEL |-> IF i <= zsl.level THEN D[i] ELSE [x |-> Header, r |-> 0]]
        top == IF level > zsl.level THEN level ELSE zsl.level
        Span(i) == IF i <= zsl.level THEN zsl.node[update[i].x].span[i] ELSE zsl.length
        Between(i) == update[1].r - update[i].r
        next == zsl.node[update[1].x].fwd[1]
        new == [score |-> score,
                fwd |-> [i \in 1..level |-> zsl.node[update[i].x].fwd[i]],
                span |-> [i \in 1..level |-> Span(i) - Between(i)],
                back |-> IF update[1].x = Header THEN None ELSE update[1].x]
        Hit(x, i) == i <= top /\ update[i].x = x
        Old(x) == [zsl.node[x] EXCEPT
            !.fwd = [i \in DOMAIN @ |-> IF Hit(x, i) /\ i <= level THEN obj ELSE @[i]],
            !.span = [i \in DOMAIN @ |-> IF ~Hit(x, i) THEN @[i]
                                         ELSE IF i <= level THEN Between(i) + 1 ELSE @[i] + 1],
            !.back = IF x = next THEN obj ELSE @]
    IN  [level |-> top, length |-> zsl.length + 1,
         tail |-> IF next = None THEN obj ELSE zsl.tail,
         node |-> (obj :> new) @@ [x \in DOMAIN zsl.node |-> Old(x)]]

zslDeleteNode(zsl, x, update) ==
    LET nx == zsl.node[x]
        Unlink(y) == [zsl.node[y] EXCEPT
            !.fwd = [i \in DOMAIN @ |-> IF i <= zsl.level /\ update[i].x = y /\ @[i] = x
                                        THEN nx.fwd[i] ELSE @[i]],
            !.span = [i \in DOMAIN @ |-> IF i > zsl.level \/ update[i].x # y THEN @[i]
                                         ELSE IF zsl.node[y].fwd[i] = x THEN @[i] + nx.span[i] - 1
                                         ELSE @[i] - 1],
            !.back = IF y = nx.fwd[1] THEN nx.back ELSE @]
        node == [y \in DOMAIN zsl.node \ {x} |-> Unlink(y)]
    IN  [level |-> MaxOf({1} \cup {i \in 1..zsl.level : node[Header].fwd[i] # None}),
         length |-> zsl.length - 1,
         tail |-> IF nx.fwd[1] = None THEN nx.back ELSE zsl.tail,
         node |-> node]

\* The list without the element, the same list when it is not found.
zslDelete(zsl, score, obj) ==
    LET D == Descend(zsl, LAMBDA y, n : Precedes(zsl, y, score, obj))
        x == zsl.node[D[1].x].fwd[1]
    IN  IF x = obj /\ zsl.node[x].score = score THEN zslDeleteNode(zsl, x, D) ELSE zsl

-----------------------------------------------------------------------------
\* Ranges.  A range is a record min, max, minex, maxex.

ValueGteMin(v, range) == IF range.minex THEN v > range.min ELSE v >= range.min

ValueLteMax(v, range) == IF range.maxex THEN v < range.max ELSE v <= range.max

EmptyRange(range) ==
    range.min > range.max \/ (range.min = range.max /\ (range.minex \/ range.maxex))

zslIsInRange(zsl, range) ==
    /\ ~EmptyRange(range)
    /\ zsl.tail # None /\ ValueGteMin(zsl.node[zsl.tail].score, range)
    /\ FirstNode(zsl) # None /\ ValueLteMax(zsl.node[FirstNode(zsl)].score, range)

zslFirstInRange(zsl, range) ==
    LET D == Descend(zsl, LAMBDA y, n : ~ValueGteMin(zsl.node[y].score, range))
        x == zsl.node[D[1].x].fwd[1]
    IN  IF zslIsInRange(zsl, range) /\ ValueLteMax(zsl.node[x].score, range) THEN x ELSE None

zslLastInRange(zsl, range) ==
    LET x == Descend(zsl, LAMBDA y, n : ValueLteMax(zsl.node[y].score, range))[1].x
    IN  IF zslIsInRange(zsl, range) /\ ValueGteMin(zsl.node[x].score, range) THEN x ELSE None

\* By element: all the scores are taken to be the same.
zslIsInLexRange(zsl, range) ==
    /\ ~(range.min = range.max /\ (range.minex \/ range.maxex))
    /\ zsl.tail # None /\ ValueGteMin(zsl.tail, range)
    /\ FirstNode(zsl) # None /\ ValueLteMax(FirstNode(zsl), range)

zslFirstInLexRange(zsl, range) ==
    LET x == zsl.node[Descend(zsl, LAMBDA y, n : ~ValueGteMin(y, range))[1].x].fwd[1]
    IN  IF zslIsInLexRange(zsl, range) /\ ValueLteMax(x, range) THEN x ELSE None

zslLastInLexRange(zsl, range) ==
    LET x == Descend(zsl, LAMBDA y, n : ValueLteMax(y, range))[1].x
    IN  IF zslIsInLexRange(zsl, range) /\ ValueGteMin(x, range) THEN x ELSE None

\* Delete from where the walk ended while Del holds of the next node and its
\* rank.  The nodes the walk left the levels at stay the ones to unlink from.
DeleteWhile(zsl, D, Del(_, _)) ==
    FoldLeft(LAMBDA acc, j :
                 LET next == acc.node[D[1].x].fwd[1]
                 IN  IF next # None /\ Del(next, D[1].r + j) THEN zslDeleteNode(acc, next, D) ELSE acc,
             zsl, [j \in 1..zsl.length |-> j])

zslDeleteRangeByScore(zsl, range) ==
    DeleteWhile(zsl, Descend(zsl, LAMBDA y, n : ~ValueGteMin(zsl.node[y].score, range)),
                LAMBDA y, n : ValueLteMax(zsl.node[y].score, range))

zslDeleteRangeByLex(zsl, range) ==
    DeleteWhile(zsl, Descend(zsl, LAMBDA y, n : ~ValueGteMin(y, range)),
                LAMBDA y, n : ValueLteMax(y, range))

\* Ranks are counted from 1.
zslDeleteRangeByRank(zsl, start, end) ==
    DeleteWhile(zsl, Descend(zsl, LAMBDA y, n : n < start), LAMBDA y, n : n <= end)

\* The rank of an element, 0 if it is not there.
zslGetRank(zsl, score, obj) ==
    LET D == Descend(zsl, LAMBDA y, n : Precedes(zsl, y, score, obj) \/ (zsl.node[y].score = score /\ y = obj))
        L == {i \in 1..zsl.level : D[i].x = obj}
    IN  IF L = {} THEN 0 ELSE D[MaxOf(L)].r

zslGetElementByRank(zsl, rank) ==
    LET D == Descend(zsl, LAMBDA y, n : n <= rank)
        L == {i \in 1..zsl.level : D[i].r = rank}
    IN  IF L = {} THEN None ELSE D[MaxOf(L)].x

\* The elements along the lowest level, and backwards from the tail.
Forward(zsl) ==
    LET Walk[x \in Int] == IF x = None THEN <<>> ELSE <<x>> \o Walk[zsl.node[x].fwd[1]]
    IN  Walk[FirstNode(zsl)]

Backward(zsl) ==
    LET Walk[x \in Int] == IF x = None THEN <<>> ELSE <<x>> \o Walk[zsl.node[x].back]
    IN  Walk[zsl.tail]

\* The nodes are in order, both ways; every level skips exactly as many nodes
\* as its span says, and its last node of the level has the rest of the list
\* behind it; no level above the highest in use has a node.
SkiplistOK(zsl) ==
    LET f == Forward(zsl)
        n == Len(f)
        RankOf == [x \in ToSet(f) \cup {Header} |->
                      IF x = Header THEN 0 ELSE CHOOSE j \in 1..n : f[j] = x]
    IN  /\ n = zsl.length /\ Backward(zsl) = Reverse(f)
        /\ DOMAIN zsl.node = {Header} \cup ToSet(f)
        /\ \A j \in 1..(n - 1) : Precedes(zsl, f[j], zsl.node[f[j + 1]].score, f[j + 1])
        /\ \A x \in DOMAIN zsl.node : \A i \in DOMAIN zsl.node[x].fwd :
             LET y == zsl.node[x].fwd[i]
             IN  IF i > zsl.level THEN x = Header /\ y = None
                 ELSE zsl.node[x].span[i] = (IF y = None THEN n ELSE RankOf[y]) - RankOf[x]
=============================================================================
