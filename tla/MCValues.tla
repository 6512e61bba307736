------------------------------ MODULE MCValues ------------------------------
EXTENDS Values

\* Strings: 101 just too short for a five byte length after it, 102 long, 103
\* too long for a ziplist.  Integers of two bytes: -1 to 4.
MCSdsLen == [n \in -1..4 |-> 3] @@ (101 :> 250) @@ (102 :> 300) @@ (103 :> 600)
            @@ (201 :> 5) @@ (202 :> 250) @@ (203 :> 600)

MCIntSize == [n \in -1..4 |-> 2]

MCBits == <<2, 4, 8>>

Lists ==
    [type |-> "list", keys |-> {"a"}, elements |-> {1, 101, 102, 103},
     commands |->
        {[op |-> o, k |-> "a", v |-> x] : o \in {"LPUSH", "RPUSH", "LPUSHX"}, x \in {1, 101, 102, 103}}
        \cup {[op |-> "LINSERT", k |-> "a", w |-> p, v |-> x, after |-> b] :
                 p \in {1, 101}, x \in {1, 101, 102, 103}, b \in BOOLEAN}
        \cup {[op |-> o, k |-> "a"] : o \in {"LLEN", "LPOP", "RPOP", "ROTATE"}}
        \cup {[op |-> "LSET", k |-> "a", i |-> n, v |-> x] : n \in {0, 1, -1, 3}, x \in {1, 101, 102, 103}}
        \cup {[op |-> "LREM", k |-> "a", i |-> n, v |-> x] : n \in {0, 1, -1, -2}, x \in {1, 101}}
        \cup {[op |-> "LTRIM", k |-> "a", i |-> n, j |-> m] : n \in {0, 1, -2}, m \in {0, 2, -1, -2}}]

Hashes ==
    [type |-> "hash", keys |-> {"a"}, elements |-> {1, 101, 103},
     commands |->
        {[op |-> o, k |-> "a", f |-> x, v |-> y] :
            o \in {"HSET", "HSETNX"}, x \in {1, 101, 103}, y \in {1, 101, 102, 103}}
        \cup {[op |-> "HMSET", k |-> "a", f |-> x, v |-> y, g |-> 101, w |-> 1] : x \in {1, 101}, y \in {2, 102}}
        \cup {[op |-> "HINCRBY", k |-> "a", f |-> x, i |-> 1] : x \in {1, 101, 103}}
        \cup {[op |-> "HINCRBY", k |-> "a", f |-> 1, i |-> -1]}
        \cup {[op |-> "HDEL", k |-> "a", f |-> x] : x \in {1, 101, 103}}]

SetValues == {-9, -2, 1, 3, 100}

Sets ==
    [type |-> "set", keys |-> {"a", "b"}, elements |-> SetValues,
     commands |->
        {[op |-> o, k |-> k, v |-> x] : o \in {"SADD", "SREM"}, k \in {"a", "b"}, x \in SetValues}
        \cup {[op |-> "SMOVE", k |-> k, d |-> d, v |-> x] : k \in {"a", "b"}, d \in {"a", "b"}, x \in {-9, 1, 100}}
        \cup {[op |-> "SPOP", k |-> k] : k \in {"a", "b"}}
        \cup {[op |-> o, k |-> d, ks |-> ks] : o \in {"SINTERSTORE", "SUNIONSTORE", "SDIFFSTORE"},
                 d \in {"a", "b"}, ks \in {<<"a", "b">>, <<"a", "b", "b", "b">>, <<"b", "a", "b">>}}]

Interval(lo, hi, lox, hix) == [min |-> lo, max |-> hi, minex |-> lox, maxex |-> hix]

ScoreRanges == {Interval(1, 2, x, y) : x \in BOOLEAN, y \in BOOLEAN}
               \cup {Interval(0, 1, FALSE, TRUE), Interval(1, 1, FALSE, FALSE), Interval(1, 1, TRUE, FALSE),
                     Interval(2, 1, FALSE, FALSE), Interval(2, 9, FALSE, FALSE)}

LexRanges == {Interval(201, 202, x, y) : x \in BOOLEAN, y \in BOOLEAN}
             \cup {Interval(0, 202, FALSE, TRUE), Interval(202, 202, FALSE, TRUE), Interval(203, 201, FALSE, FALSE)}

SortedSets ==
    [type |-> "zset", keys |-> {"a"}, elements |-> {201, 202, 203}, scores |-> ScoreRanges, ranges |-> LexRanges,
     commands |->
        {[op |-> "ZADD", k |-> "a", v |-> x, i |-> n] : x \in {201, 202, 203}, n \in 0..2}
        \cup {[op |-> "ZINCRBY", k |-> "a", v |-> x, i |-> n] : x \in {201, 202}, n \in {1, -1}}
        \cup {[op |-> "ZREM", k |-> "a", v |-> x] : x \in {201, 202, 203}}
        \cup {[op |-> "ZREMRANGEBYRANK", k |-> "a", i |-> n, j |-> m] : n \in {0, 1, -2}, m \in {0, 1, -1}}
        \cup {[op |-> "ZREMRANGEBYSCORE", k |-> "a", range |-> r] : r \in ScoreRanges}
        \cup {[op |-> "ZREMRANGEBYLEX", k |-> "a", range |-> r] : r \in LexRanges}]

SortedSetStores ==
    [type |-> "zset", keys |-> {"a", "b"}, elements |-> {201, 203}, scores |-> {}, ranges |-> {},
     commands |->
        {[op |-> "ZADD", k |-> "a", v |-> x, i |-> n] : x \in {201, 203}, n \in 1..2}
        \cup {[op |-> "ZADD", k |-> "b", v |-> x, i |-> 1] : x \in {201, 203}}
        \cup {[op |-> "ZREM", k |-> k, v |-> x] : k \in {"a", "b"}, x \in {201, 203}}
        \cup {[op |-> o, k |-> "a", ks |-> ks, weights |-> <<1, 1>>, aggregate |-> g] :
                 o \in {"ZUNIONSTORE", "ZINTERSTORE"},
                 ks \in {<<"a", "b">>, <<"b", "b">>}, g \in {"sum", "min", "max"}}
        \cup {[op |-> "ZUNIONSTORE", k |-> "a", ks |-> <<"a", "b">>, weights |-> <<1, 0>>, aggregate |-> "sum"]}]

Texts == {<<53>>, <<49, 53>>, <<45, 49, 54>>, <<48>>, <<97, 98, 99>>, <<>>}

\* Texts: 5, 15 (the greatest integer), -16 (the least), 0, abc and nothing.
Strings ==
    [type |-> "string", keys |-> {"a", "b"}, elements |-> {},
     commands |->
        {[op |-> "SET", k |-> "a", s |-> s, flag |-> f] : s \in Texts, f \in {"", "NX", "XX"}}
        \cup {[op |-> "GETSET", k |-> "a", s |-> s] : s \in Texts}
        \cup {[op |-> "APPEND", k |-> "a", s |-> s] : s \in {<<53>>, <<49, 53>>, <<>>}}
        \cup {[op |-> "SETRANGE", k |-> "a", i |-> n, s |-> s] : n \in {0, 1, 2, 4}, s \in {<<53>>, <<48, 97>>, <<>>}}
        \cup {[op |-> "INCRBY", k |-> "a", i |-> n] : n \in {1, 10, -10, -16, 15}}
        \cup {[op |-> "DECRBY", k |-> "a", i |-> n] : n \in {1, 15, -15}}
        \cup {[op |-> o, k |-> k, d |-> d, s |-> <<53>>, t |-> <<97, 98, 99>>] :
                 o \in {"MSET", "MSETNX"}, k \in {"a", "b"}, d \in {"a", "b"}}]

Bitmaps ==
    [type |-> "string", keys |-> {"a", "b", "c"}, elements |-> {},
     commands |->
        {[op |-> "SETBIT", k |-> "a", i |-> n, on |-> b] : n \in {0, 17, 32}, b \in {0, 1}}
        \cup {[op |-> "SET", k |-> "a", s |-> <<255, 255, 255>>, flag |-> ""]}
        \cup {[op |-> "SET", k |-> "b", s |-> s, flag |-> ""] : s \in {<<>>, <<15, 240, 255, 254>>}}
        \cup {[op |-> "BITOP", what |-> w, k |-> "c", ks |-> ks] :
                 w \in {"AND", "OR", "XOR"}, ks \in {<<"a", "b">>, <<"b", "b", "a">>}}
        \cup {[op |-> "BITOP", what |-> "NOT", k |-> "c", ks |-> <<"a">>]}]

Hashed(I, N) == {[index |-> i, count |-> n] : i \in I, n \in N}

Counters ==
    [type |-> "hll", keys |-> {"a"}, elements |-> {},
     commands |->
        {[op |-> "PFADD", k |-> "a", eles |-> <<x>>] :
            x \in Hashed(Registers, 1..2) \cup Hashed({0, 3}, {3})}
        \cup {[op |-> "PFADD", k |-> "a", eles |-> <<>>], [op |-> "PFCOUNT", k |-> "a"]}]

Unions ==
    [type |-> "hll", keys |-> {"a", "b"}, elements |-> {},
     commands |->
        {[op |-> "PFADD", k |-> k, eles |-> <<x, y>>] :
            k \in {"a", "b"}, x \in Hashed({0, 2}, {1, 3}), y \in Hashed({1}, {1, 2})}
        \cup {[op |-> "PFCOUNT", k |-> k] : k \in {"a", "b"}}
        \cup {[op |-> "PFMERGE", k |-> k, ks |-> ks] : k \in {"a", "b"}, ks \in {<<"a", "b">>, <<"b">>, <<>>}}]

MCWorkloads == {Lists, Hashes, Sets, SortedSets, SortedSetStores, Strings, Bitmaps, Counters, Unions}
=============================================================================
