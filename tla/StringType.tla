----------------------------- MODULE StringType -----------------------------
(***************************************************************************)
(* The commands on strings (t_string.c) and on their bits (bitops.c).  A   *)
(* string is a sequence of bytes; a value that is the text of an integer   *)
(* is kept as the integer, a short one inside its object, and a command    *)
(* that changes bytes in place makes a raw string first.                   *)
(***************************************************************************)
EXTENDS ListType

CONSTANTS LLONG_MAX, REDIS_ENCODING_EMBSTR_SIZE_LIMIT,
          MaxStringLength,      \* 512MB
          sizeof_long,          \* bytes of a machine word
          BITOP_CHUNK           \* bytes of four machine words

LLONG_MIN == -LLONG_MAX - 1

\* What addition of two machine integers leaves when it does not fit.
Wrap(n) == ((n - LLONG_MIN) % (2 * (LLONG_MAX + 1))) + LLONG_MIN

-----------------------------------------------------------------------------
\* Texts of integers: numbers of at most two digits.

Digit(n) == 48 + n

ll2string(n) ==
    LET a == IF n < 0 THEN -n ELSE n
        digits == IF a < 10 THEN <<Digit(a)>> ELSE <<Digit(a \div 10), Digit(a % 10)>>
    IN  IF n < 0 THEN <<45>> \o digits ELSE digits

\* Only the text that ll2string makes of an integer is one.
string2ll(s) == {n \in LLONG_MIN..LLONG_MAX : ll2string(n) = s}

\* The C library reads to the first zero byte, takes a sign and leading zeroes,
\* and nothing at all as 0; the caller refuses a space in front.
strtoll(s) ==
    LET zero == {j \in 1..Len(s) : s[j] = 0}
        t == IF zero = {} THEN s ELSE SubSeq(s, 1, (CHOOSE j \in zero : \A l \in zero : j <= l) - 1)
        signed == t # <<>> /\ t[1] \in {43, 45}
        d == IF signed THEN Tail(t) ELSE t
        n == FoldLeft(LAMBDA a, b : 10 * a + b - 48, 0, d)
        value == IF signed /\ t[1] = 45 THEN -n ELSE n
    IN  IF t = <<>> THEN {0}
        ELSE IF d = <<>> \/ \E j \in 1..Len(d) : d[j] \notin 48..57 THEN {}
        ELSE {value} \cap (LLONG_MIN..LLONG_MAX)

-----------------------------------------------------------------------------
\* Objects.

StringObject(enc, p) == [type |-> "string", enc |-> enc, p |-> p]

tryObjectEncoding(s) ==
    IF string2ll(s) # {} THEN StringObject("int", CHOOSE n \in string2ll(s) : TRUE)
    ELSE StringObject(IF Len(s) <= REDIS_ENCODING_EMBSTR_SIZE_LIMIT THEN "embstr" ELSE "raw", s)

getDecodedObject(o) == IF o.enc = "int" THEN ll2string(o.p) ELSE o.p

stringObjectLen(o) == Len(getDecodedObject(o))

getLongLongFromObject(o) ==
    IF o = NoKey THEN {0} ELSE IF o.enc = "int" THEN {o.p} ELSE strtoll(o.p)

\* The bytes of a string that may be changed in place.
dbUnshareStringValue(o) == IF o = NoKey THEN <<>> ELSE getDecodedObject(o)

sdsgrowzero(s, len) == IF Len(s) >= len THEN s ELSE s \o [j \in 1..(len - Len(s)) |-> 0]

checkStringLength(size) == size <= MaxStringLength

-----------------------------------------------------------------------------
\* t_string.c

setGenericCommand(o, flag, s) ==
    IF (flag = "NX" /\ o # NoKey) \/ (flag = "XX" /\ o = NoKey) THEN Out(o, Nil)
    ELSE Out(tryObjectEncoding(s), "ok")

getGenericCommand(o) == IF o = NoKey THEN <<"nil">> ELSE getDecodedObject(o)

getsetCommand(o, s) == Out(tryObjectEncoding(s), getGenericCommand(o))

setrangeCommand(o, offset, s) ==
    IF s = <<>> THEN Out(o, IF o = NoKey THEN 0 ELSE stringObjectLen(o))
    ELSE IF ~checkStringLength(offset + Len(s)) THEN Out(o, "toolong")
    ELSE LET t == sdsgrowzero(dbUnshareStringValue(o), offset + Len(s))
         IN  Out(StringObject("raw", [j \in 1..Len(t) |->
                     IF j \in (offset + 1)..(offset + Len(s)) THEN s[j - offset] ELSE t[j]]),
                 Len(t))

\* Indexes that count from the end, cut to the string.
Start(i, len) == LET a == IF i < 0 THEN len + i ELSE i IN IF a < 0 THEN 0 ELSE a

End(j, len) == LET b == Start(j, len) IN IF b >= len THEN len - 1 ELSE b

getrangeCommand(o, i, j) ==
    LET s == getDecodedObject(o)
    IN  IF Start(i, Len(s)) > End(j, Len(s)) \/ s = <<>> THEN <<>>
        ELSE SubSeq(s, Start(i, Len(s)) + 1, End(j, Len(s)) + 1)

msetGenericCommand(db, pairs, nx) ==
    IF nx /\ \E j \in 1..Len(pairs) : db[pairs[j][1]] # NoKey THEN [db |-> db, r |-> 0]
    ELSE [db |-> FoldLeft(LAMBDA d, x : [d EXCEPT ![x[1]] = tryObjectEncoding(x[2])], db, pairs),
          r |-> IF nx THEN 1 ELSE "ok"]

incrDecrCommand(o, incr) ==
    LET parsed == getLongLongFromObject(o)
        oldvalue == CHOOSE n \in parsed : TRUE
        value == Wrap(oldvalue + incr)
    IN  IF parsed = {} THEN Out(o, "notinteger")
        ELSE IF \/ incr < 0 /\ oldvalue < 0 /\ incr < LLONG_MIN - oldvalue
                \/ incr > 0 /\ oldvalue > 0 /\ incr > LLONG_MAX - oldvalue
        THEN Out(o, "overflow")
        ELSE Out(StringObject("int", value), value)

decrbyCommand(o, incr) == incrDecrCommand(o, Wrap(-incr))

appendCommand(o, s) ==
    IF o = NoKey THEN Out(tryObjectEncoding(s), Len(s))
    ELSE IF ~checkStringLength(stringObjectLen(o) + Len(s)) THEN Out(o, "toolong")
    ELSE LET t == dbUnshareStringValue(o) \o s IN Out(StringObject("raw", t), Len(t))

-----------------------------------------------------------------------------
\* bitops.c.  Bit 0 of a string is the highest of its first byte.

Bit(byte, i) == (byte \div 2^i) % 2

Bitwise1(op, a, b) ==
    LET One(x, y) == CASE op = "AND" -> x * y
                       [] op = "OR" -> x + y - x * y
                       [] op = "XOR" -> (x + y) % 2
    IN  FoldLeft(LAMBDA n, i : n + One(Bit(a, i), Bit(b, i)) * 2^i, 0, [i \in 1..8 |-> i - 1])

setbitCommand(o, bitoffset, on) ==
    IF bitoffset \div 8 >= MaxStringLength THEN Out(o, "badoffset")
    ELSE LET byte == (bitoffset \div 8) + 1
             bit == 7 - (bitoffset % 8)
             s == sdsgrowzero(dbUnshareStringValue(o), byte)
             bitval == Bit(s[byte], bit)
         IN  Out(StringObject("raw", [s EXCEPT ![byte] = @ + (on - bitval) * 2^bit]), bitval)

getbitCommand(o, bitoffset) ==
    LET s == getDecodedObject(o)
        byte == (bitoffset \div 8) + 1
    IN  IF byte <= Len(s) THEN Bit(s[byte], 7 - (bitoffset % 8)) ELSE 0

\* A missing key makes the shortest length zero, which keeps to the slow path;
\* the fast one takes whole chunks of the bytes that all the sources have.
bitopCommand(db, op, ks, target) ==
    LET src == [j \in 1..Len(ks) |-> IF db[ks[j]] = NoKey THEN <<>> ELSE getDecodedObject(db[ks[j]])]
        len == [j \in 1..Len(ks) |-> Len(src[j])]
        maxlen == FoldLeft(LAMBDA a, n : IF n > a THEN n ELSE a, 0, len)
        minlen == FoldLeft(LAMBDA a, j : IF db[ks[j]] = NoKey THEN 0
                                         ELSE IF j = 1 \/ len[j] < a THEN len[j] ELSE a,
                           0, [j \in 1..Len(ks) |-> j])
        fast == IF Len(ks) > 16 THEN 0 ELSE (minlen \div BITOP_CHUNK) * BITOP_CHUNK
        Byte(i, j) == IF len[i] < j THEN 0 ELSE src[i][j]
        Get(i, j) == IF j <= fast THEN src[i][j] ELSE Byte(i, j)
        res == [j \in 1..maxlen |->
                   IF op = "NOT" THEN 255 - Get(1, j)
                   ELSE FoldLeft(LAMBDA a, i : Bitwise1(op, a, Get(i, j)), Get(1, j),
                                 [i \in 1..(Len(ks) - 1) |-> i + 1])]
    IN  [db |-> [db EXCEPT ![target] = IF maxlen > 0 THEN StringObject("raw", res) ELSE NoKey],
         r |-> maxlen]

redisPopcount(s) ==
    FoldLeft(LAMBDA n, b : n + Bit(b, 0) + Bit(b, 1) + Bit(b, 2) + Bit(b, 3)
                             + Bit(b, 4) + Bit(b, 5) + Bit(b, 6) + Bit(b, 7), 0, s)

bitcountCommand(o, i, j) ==
    LET s == getDecodedObject(o)
    IN  IF Start(i, Len(s)) > End(j, Len(s)) THEN 0
        ELSE redisPopcount(SubSeq(s, Start(i, Len(s)) + 1, End(j, Len(s)) + 1))

\* The elements in front that equal b.
Lead(s, b) ==
    LET other == {j \in 1..Len(s) : s[j] # b}
    IN  IF other = {} THEN Len(s) ELSE (CHOOSE j \in other : \A l \in other : j <= l) - 1

\* Bytes up to a word boundary, then whole words, are skipped while all their
\* bits are the other ones; the next word, with zeroes after the end, decides.
redisBitpos(s, start, bit) ==
    LET skipval == IF bit = 1 THEN 0 ELSE 255
        head == (sizeof_long - (start % sizeof_long)) % sizeof_long
        lead == Lead(s, skipval)
        bytes == IF lead < head THEN lead ELSE head
        words == (lead - bytes) \div sizeof_long
        c == bytes + words * sizeof_long
        word == [j \in 1..sizeof_long |-> IF c + j <= Len(s) THEN s[c + j] ELSE 0]
        found == {i \in 0..(8 * sizeof_long - 1) : Bit(word[(i \div 8) + 1], 7 - (i % 8)) = bit}
    IN  IF bit = 1 /\ \A j \in 1..sizeof_long : word[j] = 0 THEN -1
        ELSE 8 * c + (CHOOSE i \in found : \A l \in found : i <= l)

\* end_given tells a range from an open end, behind which all bits are clear.
bitposCommand(o, bit, i, j, end_given) ==
    LET s == getDecodedObject(o)
        start == Start(i, Len(s))
        end == End(IF end_given THEN j ELSE Len(s) - 1, Len(s))
        bytes == end - start + 1
        pos == redisBitpos(SubSeq(s, start + 1, end + 1), start, bit)
    IN  IF start > end THEN -1
        ELSE IF end_given /\ bit = 0 /\ pos = bytes * 8 THEN -1
        ELSE IF pos # -1 THEN pos + start * 8 ELSE -1
=============================================================================
