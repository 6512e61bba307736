----------------------------- MODULE ValueSpec ------------------------------
(***************************************************************************)
(* What the commands on values promise, whatever the encoding: a string is *)
(* a sequence of bytes, a list a sequence, a hash and a sorted set are     *)
(* functions, a set is a set, a HyperLogLog is an array of registers, and  *)
(* a list, hash, set or sorted set that is empty does not exist.  val maps *)
(* the keys to their values; last is the last command and its reply.       *)
(***************************************************************************)
EXTENDS Integers, Sequences, FiniteSets, SequencesExt, Functions

CONSTANTS Numbers,       \* the integers a value can hold: the greatest is the limit
          Longs,         \* the integers a string can be counted in
          Text(_),       \* the text of an integer
          Read(_),       \* the integer a text is read as: a set of one, or none
          StringLimit,   \* the longest string
          Registers,
          Estimate(_)    \* the count that registers stand for

VARIABLES val, last

Absent == [type |-> "none"]

\* The reply for a missing element, a number that is no element.
Missing == -99

Value(k, empty) == IF val[k] = Absent THEN empty ELSE val[k].v

Put(k, t, v, empty) == [val EXCEPT ![k] = IF v = empty THEN Absent ELSE [type |-> t, v |-> v]]

Is(v, r) == {[val |-> v, r |-> r]}

-----------------------------------------------------------------------------
\* Lists.

PutList(k, s) == Put(k, "list", s, <<>>)

\* The position of an index that counts from either end; 0 if out of range.
Position(s, i) == LET p == IF i < 0 THEN Len(s) + i + 1 ELSE i + 1 IN IF p \in 1..Len(s) THEN p ELSE 0

\* The part of a sequence between two such indexes, both included.
Slice(s, i, j) ==
    LET from == IF i < 0 THEN Len(s) + i + 1 ELSE i + 1
        to == IF j < 0 THEN Len(s) + j + 1 ELSE j + 1
    IN  SelectSeq([p \in 1..Len(s) |-> <<p, s[p]>>], LAMBDA x : x[1] >= from /\ x[1] <= to)

Plain(s) == [p \in 1..Len(s) |-> s[p][2]]

\* Without the first n occurrences of v, the last -n, or all if n is 0.
Without(s, n, v) ==
    LET occ == {p \in 1..Len(s) : s[p] = v}
        gone == {p \in occ : \/ n = 0
                             \/ n > 0 /\ Cardinality({q \in occ : q < p}) < n
                             \/ n < 0 /\ Cardinality({q \in occ : q > p}) < -n}
    IN  [s |-> Plain(SelectSeq([p \in 1..Len(s) |-> <<p, s[p]>>], LAMBDA x : x[1] \notin gone)),
         n |-> Cardinality(gone)]

ListEffect(c) ==
    LET s == Value(c.k, <<>>)
        n == Len(s)
        occ == {p \in 1..n : s[p] = c.w}
        first == CHOOSE p \in occ : \A q \in occ : p <= q
        Pushed(t) == Is(PutList(c.k, t), Len(t))
    IN  CASE c.op = "LPUSH" -> Pushed(<<c.v>> \o s)
          [] c.op = "RPUSH" -> Pushed(Append(s, c.v))
          [] c.op = "LPUSHX" -> IF n = 0 THEN Is(val, 0) ELSE Pushed(<<c.v>> \o s)
          [] c.op = "LINSERT" ->
                 IF n = 0 THEN Is(val, 0) ELSE IF occ = {} THEN Is(val, -1)
                 ELSE Pushed(InsertAt(s, IF c.after THEN first + 1 ELSE first, c.v))
          [] c.op = "LLEN" -> Is(val, n)
          [] c.op = "LSET" ->
                 IF n = 0 THEN Is(val, "nokeyerr") ELSE IF Position(s, c.i) = 0 THEN Is(val, "outofrangeerr")
                 ELSE Is(PutList(c.k, [s EXCEPT ![Position(s, c.i)] = c.v]), "ok")
          [] c.op = "LPOP" -> IF n = 0 THEN Is(val, Missing) ELSE Is(PutList(c.k, Tail(s)), s[1])
          [] c.op = "RPOP" -> IF n = 0 THEN Is(val, Missing) ELSE Is(PutList(c.k, Front(s)), s[n])
          [] c.op = "ROTATE" -> IF n = 0 THEN Is(val, Missing) ELSE Is(PutList(c.k, <<s[n]>> \o Front(s)), s[n])
          [] c.op = "LTRIM" -> Is(PutList(c.k, Plain(Slice(s, c.i, c.j))), "ok")
          [] c.op = "LREM" -> Is(PutList(c.k, Without(s, c.i, c.v).s), Without(s, c.i, c.v).n)

-----------------------------------------------------------------------------
\* Hashes and sorted sets are functions.

EmptyMap == [x \in {} |-> 0]

With(m, x, y) == (x :> y) @@ m

Minus(m, S) == Restrict(m, DOMAIN m \ S)

HashEffect(c) ==
    LET h == Value(c.k, EmptyMap)
        PutHash(m) == Put(c.k, "hash", m, EmptyMap)
        old == IF c.f \in DOMAIN h THEN h[c.f] ELSE 0
    IN  CASE c.op = "HSET" -> Is(PutHash(With(h, c.f, c.v)), IF c.f \in DOMAIN h THEN 0 ELSE 1)
          [] c.op = "HSETNX" -> IF c.f \in DOMAIN h THEN Is(val, 0) ELSE Is(PutHash(With(h, c.f, c.v)), 1)
          [] c.op = "HMSET" -> Is(PutHash(With(With(h, c.f, c.v), c.g, c.w)), "ok")
          [] c.op = "HINCRBY" ->
                 IF c.f \in DOMAIN h /\ old \notin Numbers THEN Is(val, "notaninteger")
                 ELSE IF old + c.i \notin Numbers THEN Is(val, "overflow")
                 ELSE Is(PutHash(With(h, c.f, old + c.i)), old + c.i)
          [] c.op = "HDEL" -> Is(PutHash(Minus(h, {c.f})), IF c.f \in DOMAIN h THEN 1 ELSE 0)

\* The elements in order of score, then of element.
Ordered(z) ==
    LET Before(x, y) == z[x] < z[y] \/ (z[x] = z[y] /\ x < y)
    IN  [r \in 1..Cardinality(DOMAIN z) |->
            CHOOSE x \in DOMAIN z : Cardinality({y \in DOMAIN z : Before(y, x)}) = r - 1]

Within(x, r) ==
    /\ x > r.min \/ (x = r.min /\ ~r.minex)
    /\ x < r.max \/ (x = r.max /\ ~r.maxex)

SameScores(z) == \A x, y \in DOMAIN z : z[x] = z[y]

\* The weighted scores an element has in the sources.
Combined(c, x) ==
    LET m == [j \in 1..Len(c.ks) |-> Value(c.ks[j], EmptyMap)]
        has == SelectSeq([j \in 1..Len(c.ks) |-> j], LAMBDA j : x \in DOMAIN m[j])
        S == {m[has[j]][x] * c.weights[has[j]] : j \in 1..Len(has)}
    IN  CASE c.aggregate = "sum" -> FoldLeft(LAMBDA n, j : n + m[j][x] * c.weights[j], 0, has)
          [] c.aggregate = "min" -> CHOOSE x1 \in S : \A y1 \in S : x1 <= y1
          [] c.aggregate = "max" -> CHOOSE x1 \in S : \A y1 \in S : x1 >= y1

\* With different scores a range by element is unspecified: any elements may
\* be removed.
ZsetEffect(c) ==
    LET z == Value(c.k, EmptyMap)
        PutZset(m) == Put(c.k, "zset", m, EmptyMap)
        Removing(S) == Is(PutZset(Minus(z, S)), Cardinality(S \cap DOMAIN z))
        all == {DOMAIN Value(c.ks[j], EmptyMap) : j \in 1..Len(c.ks)}
        Stored(D) == Is(PutZset([x \in D |-> Combined(c, x)]), Cardinality(D))
        lex == {x \in DOMAIN z : Within(x, c.range)}
    IN  CASE c.op = "ZADD" -> Is(PutZset(With(z, c.v, c.i)), IF c.v \in DOMAIN z THEN 0 ELSE 1)
          [] c.op = "ZINCRBY" ->
                 LET s == c.i + IF c.v \in DOMAIN z THEN z[c.v] ELSE 0 IN Is(PutZset(With(z, c.v, s)), s)
          [] c.op = "ZREM" -> Removing({c.v})
          [] c.op = "ZREMRANGEBYRANK" -> Removing(ToSet(Plain(Slice(Ordered(z), c.i, c.j))))
          [] c.op = "ZREMRANGEBYSCORE" -> Removing({x \in DOMAIN z : Within(z[x], c.range)})
          [] c.op = "ZREMRANGEBYLEX" ->
                 IF SameScores(z) THEN Removing(lex) ELSE UNION {Removing(S) : S \in SUBSET DOMAIN z}
          [] c.op = "ZUNIONSTORE" -> Stored(UNION all)
          [] c.op = "ZINTERSTORE" -> Stored({x \in UNION all : \A D \in all : x \in D})

-----------------------------------------------------------------------------
\* Sets.  Moving an element to the set it is in always succeeds.
SetEffect(c) ==
    LET PutSet(k, S) == Put(k, "set", S, {})
        s == Value(c.k, {})
        all == {Value(c.ks[j], {}) : j \in 1..Len(c.ks)}
        rest == UNION {Value(c.ks[j], {}) : j \in 2..Len(c.ks)}
        Stored(S) == Is(PutSet(c.k, S), Cardinality(S))
    IN  CASE c.op = "SADD" -> Is(PutSet(c.k, s \cup {c.v}), IF c.v \in s THEN 0 ELSE 1)
          [] c.op = "SREM" -> Is(PutSet(c.k, s \ {c.v}), IF c.v \in s THEN 1 ELSE 0)
          [] c.op = "SMOVE" ->
                 IF s = {} THEN Is(val, 0) ELSE IF c.k = c.d THEN Is(val, 1)
                 ELSE IF c.v \notin s THEN Is(val, 0)
                 ELSE Is([val EXCEPT ![c.k] = PutSet(c.k, s \ {c.v})[c.k],
                                     ![c.d] = PutSet(c.d, Value(c.d, {}) \cup {c.v})[c.d]], 1)
          [] c.op = "SPOP" -> IF s = {} THEN Is(val, Missing) ELSE UNION {Is(PutSet(c.k, s \ {x}), x) : x \in s}
          [] c.op = "SINTERSTORE" -> Stored({x \in UNION all : \A S \in all : x \in S})
          [] c.op = "SUNIONSTORE" -> Stored(UNION all)
          [] c.op = "SDIFFSTORE" -> Stored(Value(c.ks[1], {}) \ rest)

-----------------------------------------------------------------------------
\* Strings.

PutString(k, s) == [val EXCEPT ![k] = [type |-> "string", v |-> s]]

\* Bit i of a string counts from the highest of the first byte; behind the end
\* all are clear.
BitAt(s, i) == IF i \div 8 < Len(s) THEN (s[(i \div 8) + 1] \div 2^(7 - (i % 8))) % 2 ELSE 0

FromBits(len, B(_)) ==
    [j \in 1..len |-> FoldLeft(LAMBDA n, i : 2 * n + B(8 * (j - 1) + i - 1), 0, <<1, 2, 3, 4, 5, 6, 7, 8>>)]

Longer(m, n) == IF m > n THEN m ELSE n

Combine(op, bits) ==
    CASE op = "AND" -> IF 0 \in ToSet(bits) THEN 0 ELSE 1
      [] op = "OR" -> IF 1 \in ToSet(bits) THEN 1 ELSE 0
      [] op = "XOR" -> Cardinality({j \in 1..Len(bits) : bits[j] = 1}) % 2
      [] op = "NOT" -> 1 - bits[1]

Exists(k) == val[k] # Absent

StringEffect(c) ==
    LET s == Value(c.k, <<>>)
        Written(t) == Is(PutString(c.k, t), Len(t))
        InLimit(n, e) == IF n > StringLimit THEN Is(val, "toolong") ELSE e
        Counted(n) == LET now == IF Exists(c.k) THEN Read(s) ELSE {0}
                          sum == (CHOOSE m \in now : TRUE) + n
                      IN  IF now = {} THEN Is(val, "notinteger") ELSE IF sum \notin Longs THEN Is(val, "overflow")
                          ELSE Is(PutString(c.k, Text(sum)), sum)
        Src(j) == Value(c.ks[j], <<>>)
        len == FoldLeft(LAMBDA n, k : Longer(n, Len(Value(k, <<>>))), 0, c.ks)
    IN  CASE c.op = "SET" -> IF c.flag = (IF Exists(c.k) THEN "NX" ELSE "XX") THEN Is(val, Missing)
                             ELSE Is(PutString(c.k, c.s), "ok")
          [] c.op = "GETSET" -> Is(PutString(c.k, c.s), IF Exists(c.k) THEN s ELSE <<"nil">>)
          [] c.op = "APPEND" -> InLimit(Len(s) + Len(c.s), Written(s \o c.s))
          [] c.op = "SETRANGE" ->
                 IF c.s = <<>> THEN Is(val, Len(s))
                 ELSE InLimit(c.i + Len(c.s),
                              Written([j \in 1..Longer(Len(s), c.i + Len(c.s)) |->
                                          IF j > c.i /\ j <= c.i + Len(c.s) THEN c.s[j - c.i]
                                          ELSE IF j <= Len(s) THEN s[j] ELSE 0]))
          [] c.op = "INCRBY" -> Counted(c.i)
          [] c.op = "DECRBY" -> Counted(-c.i)
          [] c.op = "MSET" -> Is([k \in DOMAIN val |->
                                     IF k \in {c.k, c.d} THEN [type |-> "string", v |-> IF k = c.d THEN c.t ELSE c.s]
                                     ELSE val[k]], "ok")
          [] c.op = "MSETNX" -> IF Exists(c.k) \/ Exists(c.d) THEN Is(val, 0)
                                ELSE Is([val EXCEPT ![c.k] = [type |-> "string", v |-> c.s],
                                                    ![c.d] = [type |-> "string", v |-> c.t]], 1)
          [] c.op = "SETBIT" ->
                 IF c.i \div 8 >= StringLimit THEN Is(val, "badoffset")
                 ELSE Is(PutString(c.k, FromBits(Longer(Len(s), (c.i \div 8) + 1),
                                                 LAMBDA i : IF i = c.i THEN c.on ELSE BitAt(s, i))),
                         BitAt(s, c.i))
          [] c.op = "BITOP" ->
                 Is(IF len = 0 THEN [val EXCEPT ![c.k] = Absent]
                    ELSE PutString(c.k, FromBits(len, LAMBDA i :
                             Combine(c.what, [j \in 1..Len(c.ks) |-> BitAt(Src(j), i)]))),
                    len)

-----------------------------------------------------------------------------
\* HyperLogLog: an element is a register and a number it is at least from then on.

Empty == [i \in Registers |-> 0]

Highest(all) == [i \in Registers |-> CHOOSE m \in {h[i] : h \in all} : \A h \in all : h[i] <= m]

HllEffect(c) ==
    LET h == Value(c.k, Empty)
        PutHll(g) == [val EXCEPT ![c.k] = [type |-> "hll", v |-> g]]
        added == FoldLeft(LAMBDA g, x : [g EXCEPT ![x.index] = Longer(@, x.count)], h, c.eles)
        sources == {Value(k, Empty) : k \in ToSet(c.ks)}
    IN  CASE c.op = "PFADD" -> Is(PutHll(added), IF added = h /\ Exists(c.k) THEN 0 ELSE 1)
          [] c.op = "PFCOUNT" -> Is(val, Estimate(h))
          [] c.op = "PFMERGE" -> Is(PutHll(Highest(sources \cup {h})), "ok")

-----------------------------------------------------------------------------
ListOps == {"LPUSH", "RPUSH", "LPUSHX", "LINSERT", "LLEN", "LSET", "LPOP", "RPOP", "ROTATE", "LTRIM", "LREM"}

HashOps == {"HSET", "HSETNX", "HMSET", "HINCRBY", "HDEL"}

SetOps == {"SADD", "SREM", "SMOVE", "SPOP", "SINTERSTORE", "SUNIONSTORE", "SDIFFSTORE"}

StringOps == {"SET", "GETSET", "APPEND", "SETRANGE", "INCRBY", "DECRBY", "MSET", "MSETNX", "SETBIT", "BITOP"}

HllOps == {"PFADD", "PFCOUNT", "PFMERGE"}

\* A value that was written to a file and read back is the same.
Reloads == {"RESTORE", "LOADAOF"}

Effect(c) ==
    CASE c.op \in ListOps -> ListEffect(c)
      [] c.op \in HashOps -> HashEffect(c)
      [] c.op \in SetOps -> SetEffect(c)
      [] c.op \in StringOps -> StringEffect(c)
      [] c.op \in HllOps -> HllEffect(c)
      [] c.op \in Reloads -> Is(val, "ok")
      [] OTHER -> ZsetEffect(c)

NoCommand == [op |-> "none"]

Init ==
    /\ \A k \in DOMAIN val : val[k] = Absent
    /\ last = [cmd |-> NoCommand, r |-> 0]

\* One command: its effect and its reply.
Next == [val |-> val', r |-> last'.r] \in Effect(last'.cmd)

Spec == Init /\ [][Next]_<<val, last>>
=============================================================================
