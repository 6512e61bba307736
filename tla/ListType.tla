------------------------------ MODULE ListType ------------------------------
(***************************************************************************)
(* The list commands of t_list.c on one key.  A list object is a ziplist   *)
(* until it has too many elements or one that is too long, then a linked   *)
(* list for good (a sequence here).  A command takes the object under the  *)
(* key, NoKey if there is none, and returns the object it leaves there and *)
(* the reply.  An element of a list is pointed to by its position, in both *)
(* encodings.                                                              *)
(***************************************************************************)
EXTENDS Ziplist

CONSTANTS list_max_ziplist_entries, list_max_ziplist_value

NoKey == [type |-> "none"]

\* What a command replies for a missing element: a number that is no element.
Nil == -99

Out(o, r) == [o |-> o, r |-> r]

IsZiplist(o) == o.enc = "ziplist"

NewList == [type |-> "list", enc |-> "ziplist", p |-> ziplistNew]

\* An integer is not kept as a string, so it never is too long.
TooLong(v, max) == v \notin DOMAIN IntSize /\ SdsLen[v] > max

listTypeConvert(o) == [o EXCEPT !.enc = "linkedlist", !.p = Payloads(o.p)]

listTypeTryConversion(o, v) ==
    IF IsZiplist(o) /\ TooLong(v, list_max_ziplist_value) THEN listTypeConvert(o) ELSE o

listTypeLength(o) == IF IsZiplist(o) THEN ziplistLen(o.p) ELSE Len(o.p)

\* Asking a ziplist for its length may write it back.
Measured(o) == IF IsZiplist(o) THEN [o EXCEPT !.p = Counted(@)] ELSE o

ConvertIfLong(o, max) ==
    IF IsZiplist(o) /\ ziplistLen(o.p) > max THEN listTypeConvert(o) ELSE Measured(o)

listTypePush(o, v, where) ==
    LET a == ConvertIfLong(listTypeTryConversion(o, v), list_max_ziplist_entries - 1)
    IN  IF IsZiplist(a)
        THEN [a EXCEPT !.p = IF where = "head" THEN ziplistPushHead(@, v) ELSE ziplistPushTail(@, v)]
        ELSE [a EXCEPT !.p = IF where = "head" THEN <<v>> \o @ ELSE Append(@, v)]

listTypeIndex(o, index) ==
    IF IsZiplist(o) THEN ziplistIndex(o.p, index)
    ELSE LET p == IF index < 0 THEN Len(o.p) + index + 1 ELSE index + 1
         IN  IF p \in 1..Len(o.p) THEN p ELSE Null

listTypeGet(o, p) == IF IsZiplist(o) THEN o.p.e[p].v ELSE o.p[p]

listTypeEqual(o, p, v) == IF IsZiplist(o) THEN ziplistCompare(o.p, p, v) ELSE o.p[p] = v

listTypeNext(o, p, dir) ==
    IF IsZiplist(o) THEN (IF dir = "tail" THEN ziplistNext(o.p, p) ELSE ziplistPrev(o.p, p))
    ELSE IF dir = "head" THEN p - 1 ELSE IF p < Len(o.p) THEN p + 1 ELSE Null

\* The object without the element and where the iteration goes on.
listTypeDelete(o, p, dir) ==
    LET zl == __ziplistDelete(o.p, p, 1)
    IN  IF IsZiplist(o)
        THEN [o |-> [o EXCEPT !.p = zl], next |-> IF dir = "tail" THEN p ELSE ziplistPrev(zl, p)]
        ELSE [o |-> [o EXCEPT !.p = RemoveAt(@, p)],
              next |-> IF dir = "head" THEN p - 1 ELSE IF p < Len(o.p) THEN p ELSE Null]

listTypeInsert(o, p, v, where) ==
    LET q == IF where = "tail" THEN p + 1 ELSE p
    IN  [o EXCEPT !.p = IF IsZiplist(o) THEN __ziplistInsert(@, q, v) ELSE InsertAt(@, q, v)]

\* A list that has become empty is removed with its key.
DropEmptyList(o) == IF listTypeLength(o) = 0 THEN NoKey ELSE Measured(o)

-----------------------------------------------------------------------------
\* The commands.

pushGenericCommand(o, v, where) ==
    LET a == listTypePush(IF o = NoKey THEN NewList ELSE o, v, where)
    IN  Out(Measured(a), listTypeLength(a))

pushxGenericCommand(o, v, where) == IF o = NoKey THEN Out(o, 0) ELSE pushGenericCommand(o, v, where)

\* The conversion for a long value comes before the search for the pivot.
linsertCommand(o, pivot, v, where) ==
    LET a == listTypeTryConversion(o, v)
        P == {p \in 1..listTypeLength(a) : listTypeEqual(a, p, pivot)}
        at == CHOOSE p \in P : \A q \in P : p <= q
        b == ConvertIfLong(listTypeInsert(a, at, v, where), list_max_ziplist_entries)
    IN  IF o = NoKey THEN Out(o, 0)
        ELSE IF P = {} THEN Out(a, -1)
        ELSE Out(Measured(b), listTypeLength(b))

llenCommand(o) == IF o = NoKey THEN Out(o, 0) ELSE Out(Measured(o), listTypeLength(o))

\* In a ziplist the old element is deleted and the new one inserted.
lsetCommand(o, index, v) ==
    LET a == listTypeTryConversion(o, v)
        p == listTypeIndex(a, index)
    IN  IF o = NoKey THEN Out(o, "nokeyerr")
        ELSE IF p = Null THEN Out(a, "outofrangeerr")
        ELSE IF IsZiplist(a)
        THEN Out([a EXCEPT !.p = __ziplistInsert(__ziplistDelete(@, p, 1), p, v)], "ok")
        ELSE Out([a EXCEPT !.p[p] = v], "ok")

popGenericCommand(o, where) ==
    LET p == listTypeIndex(o, IF where = "head" THEN 0 ELSE -1)
    IN  IF o = NoKey THEN Out(o, Nil)
        ELSE Out(DropEmptyList(listTypeDelete(o, p, "tail").o), listTypeGet(o, p))

\* Onto the same key: what is popped at the tail is pushed at the head.
rotateCommand(o) ==
    LET p == listTypeIndex(o, -1)
        v == listTypeGet(o, p)
    IN  IF o = NoKey THEN Out(o, Nil)
        ELSE Out(DropEmptyList(listTypePush(listTypeDelete(o, p, "tail").o, v, "head")), v)

\* From and to count from the end when negative; what is out of range is cut.
ltrimCommand(o, from, to) ==
    LET llen == listTypeLength(o)
        s0 == IF from < 0 THEN llen + from ELSE from
        start == IF s0 < 0 THEN 0 ELSE s0
        end == IF to < 0 THEN llen + to ELSE to
        none == start > end \/ start >= llen
        ltrim == IF none THEN llen ELSE start
        rtrim == IF none \/ end >= llen THEN 0 ELSE llen - end - 1
        a == IF IsZiplist(o)
             THEN [o EXCEPT !.p = ziplistDeleteRange(ziplistDeleteRange(@, 0, ltrim), -rtrim, rtrim)]
             ELSE [o EXCEPT !.p = SubSeq(@, ltrim + 1, llen - rtrim)]
    IN  IF o = NoKey THEN Out(o, "ok") ELSE Out(DropEmptyList(a), "ok")

LremStep(acc, v, dir, toremove) ==
    LET d == listTypeDelete(acc.o, acc.p, dir)
    IN  IF acc.p = Null \/ acc.done THEN acc
        ELSE IF listTypeEqual(acc.o, acc.p, v)
        THEN [o |-> d.o, p |-> d.next, removed |-> acc.removed + 1,
              done |-> toremove # 0 /\ acc.removed + 1 = toremove]
        ELSE [acc EXCEPT !.p = listTypeNext(acc.o, acc.p, dir)]

lremCommand(o, count, v) ==
    LET dir == IF count < 0 THEN "head" ELSE "tail"
        n == IF count < 0 THEN -count ELSE count
        r == FoldLeft(LAMBDA acc, j : LremStep(acc, v, dir, n),
                      [o |-> o, p |-> listTypeIndex(o, IF count < 0 THEN -1 ELSE 0),
                       removed |-> 0, done |-> FALSE],
                      [j \in 1..listTypeLength(o) |-> j])
    IN  IF o = NoKey THEN Out(o, 0) ELSE Out(DropEmptyList(r.o), r.removed)

\* The elements an iteration returns, from either end, and an index.
ListForward(o) == [j \in 1..listTypeLength(o) |-> listTypeGet(o, j)]

ListBackward(o) ==
    LET At1[j \in 1..listTypeLength(o)] ==
            IF j = 1 THEN listTypeIndex(o, -1) ELSE listTypeNext(o, At1[j - 1], "head")
    IN  [j \in 1..listTypeLength(o) |-> listTypeGet(o, At1[j])]

lindexCommand(o, index) ==
    LET p == listTypeIndex(o, index) IN IF p = Null THEN Nil ELSE listTypeGet(o, p)

lrangeCommand(o, from, to) ==
    LET llen == listTypeLength(o)
        s0 == IF from < 0 THEN llen + from ELSE from
        start == IF s0 < 0 THEN 0 ELSE s0
        e0 == IF to < 0 THEN llen + to ELSE to
        end == IF e0 >= llen THEN llen - 1 ELSE e0
    IN  IF start > e0 \/ start >= llen THEN <<>>
        ELSE [j \in 1..(end - start + 1) |-> listTypeGet(o, listTypeIndex(o, start) + j - 1)]
=============================================================================
