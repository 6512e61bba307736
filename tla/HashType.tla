------------------------------ MODULE HashType ------------------------------
(***************************************************************************)
(* The hash commands of t_hash.c on one key.  A hash object is a ziplist   *)
(* of fields and values in turn until it has too many fields or a field or *)
(* value that is too long, then a table for good (a function here; the     *)
(* table itself is the subject of Dict).                                   *)
(***************************************************************************)
EXTENDS ListType, Functions

CONSTANTS hash_max_ziplist_entries, hash_max_ziplist_value

NewHash == [type |-> "hash", enc |-> "ziplist", p |-> ziplistNew]

\* The pairs the iterator returns.
hashTypeNext(zl) == {<<zl.e[j].v, zl.e[j + 1].v>> : j \in {i \in 1..(Len(zl.e) - 1) : i % 2 = 1}}

hashTypeConvert(o) ==
    LET pairs == hashTypeNext(o.p)
        fields == {x[1] : x \in pairs}
    IN  [o EXCEPT !.enc = "ht",
                  !.p = [f \in fields |-> (CHOOSE x \in pairs : x[1] = f)[2]]]

hashTypeTryConversion(o, args) ==
    IF IsZiplist(o) /\ \E j \in 1..Len(args) : TooLong(args[j], hash_max_ziplist_value)
    THEN hashTypeConvert(o) ELSE o

hashTypeLength(o) == IF IsZiplist(o) THEN ziplistLen(o.p) \div 2 ELSE Cardinality(DOMAIN o.p)

\* Wrong: a value that equals the field is taken for it.
FieldAtAny(zl, f) == LET p == ziplistIndex(zl, 0) IN IF p = Null THEN Null ELSE ziplistFind(zl, p, f, 0)

\* The position of a field in the ziplist: values are skipped.
FieldAt(zl, f) == LET p == ziplistIndex(zl, 0) IN IF p = Null THEN Null ELSE ziplistFind(zl, p, f, 1)

hashTypeExists(o, f) == IF IsZiplist(o) THEN FieldAt(o.p, f) # Null ELSE f \in DOMAIN o.p

hashTypeGetObject(o, f) ==
    IF ~hashTypeExists(o, f) THEN Nil
    ELSE IF IsZiplist(o) THEN o.p.e[ziplistNext(o.p, FieldAt(o.p, f))].v
    ELSE o.p[f]

ConvertHashIfLong(o) ==
    IF hashTypeLength(o) > hash_max_ziplist_entries THEN hashTypeConvert(o) ELSE Measured(o)

\* An update deletes the old value and inserts the new one in its place.
hashTypeSet(o, f, v) ==
    LET fp == FieldAt(o.p, f)
        vp == ziplistNext(o.p, fp)
        zl == IF fp # Null THEN __ziplistInsert(__ziplistDelete(o.p, vp, 1), vp, v)
              ELSE ziplistPushTail(ziplistPushTail(o.p, f), v)
    IN  IF ~IsZiplist(o) THEN [o EXCEPT !.p = (f :> v) @@ @]
        ELSE ConvertHashIfLong([o EXCEPT !.p = zl])

hashTypeDelete(o, f) ==
    LET fp == FieldAt(o.p, f)
    IN  IF ~hashTypeExists(o, f) THEN o
        ELSE IF IsZiplist(o) THEN [o EXCEPT !.p = __ziplistDelete(__ziplistDelete(@, fp, 1), fp, 1)]
        ELSE [o EXCEPT !.p = Restrict(@, DOMAIN @ \ {f})]

hashTypeLookupWriteOrCreate(o) == IF o = NoKey THEN NewHash ELSE o

-----------------------------------------------------------------------------
\* The commands.

hsetCommand(o, f, v) ==
    LET a == hashTypeTryConversion(hashTypeLookupWriteOrCreate(o), <<f, v>>)
    IN  Out(hashTypeSet(a, f, v), IF hashTypeExists(a, f) THEN 0 ELSE 1)

hsetnxCommand(o, f, v) ==
    LET a == hashTypeTryConversion(hashTypeLookupWriteOrCreate(o), <<f, v>>)
    IN  IF hashTypeExists(a, f) THEN Out(a, 0) ELSE Out(hashTypeSet(a, f, v), 1)

\* args is a sequence of pairs.
hmsetCommand(o, args) ==
    LET all == FoldLeft(LAMBDA s, x : s \o x, <<>>, args)
        a == hashTypeTryConversion(hashTypeLookupWriteOrCreate(o), all)
    IN  Out(FoldLeft(LAMBDA h, x : hashTypeSet(h, x[1], x[2]), a, args), "ok")

\* The field's own length is not looked at; LLONG_MIN and LLONG_MAX are the least
\* and the greatest of the integers.
hincrbyCommand(o, f, incr) ==
    LET a == hashTypeLookupWriteOrCreate(o)
        cur == hashTypeGetObject(a, f)
        value == IF cur = Nil THEN 0 ELSE cur
        below == incr < 0 /\ value < 0 /\ \A n \in DOMAIN IntSize : incr < n - value
        above == incr > 0 /\ value > 0 /\ \A n \in DOMAIN IntSize : incr > n - value
    IN  IF cur # Nil /\ cur \notin DOMAIN IntSize THEN Out(a, "notaninteger")
        ELSE IF below \/ above THEN Out(a, "overflow")
        ELSE Out(hashTypeSet(a, f, value + incr), value + incr)

DropEmptyHash(o) == IF hashTypeLength(o) = 0 THEN NoKey ELSE Measured(o)

hdelCommand(o, f) ==
    IF o = NoKey \/ ~hashTypeExists(o, f) THEN Out(o, 0)
    ELSE Out(DropEmptyHash(hashTypeDelete(o, f)), 1)

\* The pairs HGETALL replies.
genericHgetallCommand(o) == IF IsZiplist(o) THEN hashTypeNext(o.p) ELSE {<<f, o.p[f]>> : f \in DOMAIN o.p}
=============================================================================
