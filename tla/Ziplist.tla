------------------------------ MODULE Ziplist -------------------------------
(***************************************************************************)
(* The ziplist of ziplist.c: one block of memory whose entries are found   *)
(* by their lengths only.  A ziplist is a record: bytes, tail and len are  *)
(* the header (the size of the block, the offset of the last entry, the    *)
(* 16 bit count of entries), e the entries.  An entry is a record: prev,   *)
(* the length of the entry before it as it is stored; pls, the bytes that  *)
(* field takes (1 or 5); body, the bytes of its encoding and content; v,   *)
(* its payload.  A pointer is the position of an entry, Len(e) + 1 for the *)
(* end marker, Null for NULL.  Payloads are integers: the string that      *)
(* writes an integer is that integer, another string is any other one.     *)
(***************************************************************************)
EXTENDS Integers, Sequences, FiniteSets, SequencesExt

CONSTANTS SdsLen,      \* the length of a payload as a string
          IntSize,     \* the bytes of a payload that is an integer, none for others
          ZIP_BIGLEN,  \* the first length that takes five bytes (254)
          LenMax,      \* the count at which the header stops counting (UINT16_MAX)
          Damaged      \* the payload of an entry that was overwritten

Null == 0

\* The bytes of encoding and content: an integer takes one byte and its size,
\* a string its length and a header of 1, 2 or 5 bytes.
zipEncodeLength(v) ==
    IF v \in DOMAIN IntSize THEN 1
    ELSE IF SdsLen[v] <= 63 THEN 1 ELSE IF SdsLen[v] <= 16383 THEN 2 ELSE 5

Body(v) == zipEncodeLength(v) + IF v \in DOMAIN IntSize THEN IntSize[v] ELSE SdsLen[v]

zipPrevEncodeLength(len) == IF len < ZIP_BIGLEN THEN 1 ELSE 5

zipPrevLenByteDiff(x, len) == zipPrevEncodeLength(len) - x.pls

zipRawEntryLength(x) == x.pls + x.body

SumRaw(e, from, to) ==
    LET Sum[j \in Nat] == IF j < from THEN 0 ELSE Sum[j - 1] + zipRawEntryLength(e[j]) IN Sum[to]

HeaderSize == 10

Offset(zl, p) == HeaderSize + SumRaw(zl.e, 1, p - 1)

\* The entry that starts at an offset; Null when none does.
At(zl, offset) ==
    LET P == {p \in 1..(Len(zl.e) + 1) : Offset(zl, p) = offset}
    IN  IF P = {} THEN Null ELSE CHOOSE p \in P : TRUE

Payloads(zl) == [j \in 1..Len(zl.e) |-> zl.e[j].v]

ziplistNew == [bytes |-> HeaderSize + 1, tail |-> HeaderSize, len |-> 0, e |-> <<>>]

ZIPLIST_INCR_LENGTH(zl, n) == IF zl.len < LenMax THEN [zl EXCEPT !.len = @ + n] ELSE zl

-----------------------------------------------------------------------------
\* The length of entry p changed: the next one must say so, and when the
\* field has to grow for it the one after that, and so on.  A field that could
\* shrink keeps its five bytes.
CascadeStep(acc, cur) ==
    LET zl == acc.zl
        rawlen == zipRawEntryLength(zl.e[cur])
        next == zl.e[cur + 1]
        extra == zipPrevEncodeLength(rawlen) - next.pls
    IN  IF acc.done \/ cur >= Len(zl.e) \/ next.prev = rawlen THEN [acc EXCEPT !.done = TRUE]
        ELSE IF extra > 0
        THEN [acc EXCEPT !.zl.bytes = @ + extra,
                         !.zl.tail = IF zl.tail # Offset(zl, cur + 1) THEN @ + extra ELSE @,
                         !.zl.e[cur + 1].pls = @ + extra, !.zl.e[cur + 1].prev = rawlen]
        ELSE [acc EXCEPT !.zl.e[cur + 1].prev = rawlen, !.done = TRUE]

\* Wrong: only the next entry is told.
cascadeOnce(zl, p) ==
    IF p < Len(zl.e) THEN CascadeStep([zl |-> zl, done |-> FALSE], p).zl ELSE zl

__ziplistCascadeUpdate(zl, p) ==
    LET Upto[j \in Nat] ==
            IF j < p THEN [zl |-> zl, done |-> FALSE] ELSE CascadeStep(Upto[j - 1], j)
    IN  Upto[Len(zl.e) - 1].zl

CascadeIfResized(zl, p, nextdiff) == IF nextdiff # 0 THEN __ziplistCascadeUpdate(zl, p) ELSE zl

\* The entry goes in front of p.  The block is resized before its content is
\* moved, so when the next entry's field shrinks by more than the new entry
\* takes, the end marker lands on the content of the last entry.
InsertEntry(zl, p, new, reqlen, nextdiff) ==
    LET n == Len(zl.e)
        old == IF reqlen + nextdiff < 0 THEN [zl.e EXCEPT ![n].v = Damaged] ELSE zl.e
        e1 == IF p <= n THEN [old EXCEPT ![p].pls = @ + nextdiff, ![p].prev = reqlen] ELSE old
    IN  ZIPLIST_INCR_LENGTH(
            CascadeIfResized([zl EXCEPT !.bytes = @ + reqlen + nextdiff,
                                        !.tail = IF p > n THEN Offset(zl, p)
                                                 ELSE @ + reqlen + IF p # n THEN nextdiff ELSE 0,
                                        !.e = InsertAt(e1, p, new)],
                             p + 1, nextdiff), 1)

\* The length of the entry in front of p.
PrevLength(zl, p) ==
    LET n == Len(zl.e)
        tailp == At(zl, zl.tail)
    IN  IF p <= n THEN zl.e[p].prev ELSE IF tailp <= n THEN zipRawEntryLength(zl.e[tailp]) ELSE 0

NewEntry(prevlen, v) ==
    [prev |-> prevlen, pls |-> zipPrevEncodeLength(prevlen), body |-> Body(v), v |-> v]

__ziplistInsert(zl, p, v) ==
    LET new == NewEntry(PrevLength(zl, p), v)
        reqlen == zipRawEntryLength(new)
    IN  InsertEntry(zl, p, new, reqlen,
                    IF p <= Len(zl.e) THEN zipPrevLenByteDiff(zl.e[p], reqlen) ELSE 0)

__ziplistDelete(zl, p, num) ==
    LET n == Len(zl.e)
        q == IF p + num <= n THEN p + num ELSE n + 1
        totlen == SumRaw(zl.e, p, q - 1)
        first == zl.e[p]
        nextdiff == IF q <= n THEN zipPrevLenByteDiff(zl.e[q], first.prev) ELSE 0
        e1 == IF q <= n THEN [zl.e EXCEPT ![q].pls = @ + nextdiff, ![q].prev = first.prev] ELSE zl.e
        z1 == [zl EXCEPT !.bytes = @ - totlen + nextdiff,
                         !.tail = IF q > n THEN Offset(zl, p) - first.prev
                                  ELSE @ - totlen + IF q # n THEN nextdiff ELSE 0,
                         !.e = SubSeq(e1, 1, p - 1) \o SubSeq(e1, q, n)]
    IN  IF totlen = 0 THEN zl
        ELSE CascadeIfResized(ZIPLIST_INCR_LENGTH(z1, p - q), p, nextdiff)

-----------------------------------------------------------------------------
\* Moving through the list.

\* From the tail by the stored lengths of the previous entries.
ziplistIndex(zl, index) ==
    LET Back[i \in Nat, p \in Nat] ==
            IF i = 0 THEN p
            ELSE IF zl.e[p].prev = 0 THEN Null
            ELSE Back[i - 1, At(zl, Offset(zl, p) - zl.e[p].prev)]
        tailp == At(zl, zl.tail)
    IN  IF index >= 0 THEN (IF index < Len(zl.e) THEN index + 1 ELSE Null)
        ELSE IF tailp > Len(zl.e) THEN Null
        ELSE Back[-index - 1, tailp]

ziplistNext(zl, p) == IF p >= Len(zl.e) THEN Null ELSE p + 1

ziplistPrev(zl, p) ==
    IF p > Len(zl.e) THEN (LET t == At(zl, zl.tail) IN IF t > Len(zl.e) THEN Null ELSE t)
    ELSE IF p = 1 THEN Null
    ELSE At(zl, Offset(zl, p) - zl.e[p].prev)

ziplistCompare(zl, p, v) == p <= Len(zl.e) /\ zl.e[p].v = v

ziplistPushTail(zl, v) == __ziplistInsert(zl, Len(zl.e) + 1, v)

ziplistPushHead(zl, v) == __ziplistInsert(zl, 1, v)

ziplistDeleteRange(zl, index, num) ==
    LET p == ziplistIndex(zl, index) IN IF p = Null THEN zl ELSE __ziplistDelete(zl, p, num)

\* The first entry with this payload among p, p + skip + 1, ...
ziplistFind(zl, p, v, skip) ==
    LET F == {q \in p..Len(zl.e) : (q - p) % (skip + 1) = 0 /\ zl.e[q].v = v}
    IN  IF F = {} THEN Null ELSE CHOOSE q \in F : \A r \in F : q <= r

\* Beyond the limit the header does not know, and the entries are counted; a
\* count below the limit is written back.
ziplistLen(zl) == IF zl.len < LenMax THEN zl.len ELSE Len(zl.e)

Counted(zl) == IF zl.len < LenMax \/ Len(zl.e) >= LenMax THEN zl ELSE [zl EXCEPT !.len = Len(zl.e)]

\* The header and the lengths agree with the entries: the list reads the same
\* from both ends, its block ends where the last entry does and its count is
\* right or unknown.
ZiplistOK(zl) ==
    LET n == Len(zl.e)
    IN  /\ zl.bytes = Offset(zl, n + 1) + 1
        /\ zl.tail = IF n = 0 THEN HeaderSize ELSE Offset(zl, n)
        /\ zl.len = LenMax \/ zl.len = n
        /\ n >= LenMax => zl.len = LenMax
        /\ \A p \in 1..n :
             /\ zl.e[p].prev = IF p = 1 THEN 0 ELSE zipRawEntryLength(zl.e[p - 1])
             /\ zipPrevEncodeLength(zl.e[p].prev) <= zl.e[p].pls
             /\ zl.e[p].v # Damaged
=============================================================================
