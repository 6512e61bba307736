--------------------------- MODULE ReplBacklogProofs ---------------------------
(***************************************************************************)
(* Proofs about ReplBacklog, for every buffer size, feed length and byte   *)
(* alphabet: the ring always holds the newest bytes of the stream at the   *)
(* places the reader looks for them, so a partial resynchronization is     *)
(* byte-exact.                                                             *)
(***************************************************************************)
EXTENDS ReplBacklog, TLAPS

\* The bytes still to be copied are the end of the stream (the loop of
\* feedReplicationBacklog reads p, the reader will be promised the stream).
PendingInStream ==
    /\ len <= moff
    /\ \A i \in 1..len : p[pos + i] = stream[moff - len + i]

\* The bookkeeping between calls, and inside the loop.
Bookkeeping ==
    /\ feeding => exists
    /\ ~feeding => len = 0
    /\ exists => histlen <= moff - len
    /\ exists /\ ~feeding => histlen <= size /\ off = moff - histlen + 1

\* Inductive strengthening of TypeOK, HistoryInPlace and ServedBytesExact.
BacklogInv == TypeOK /\ Bookkeeping /\ PendingInStream /\ HistoryInPlace

\* Below twice the modulus, % subtracts at most once: the two uses of % in
\* addReplyReplicationBacklog.
LEMMA ModOnce ==
    ASSUME NEW x \in Nat, NEW s \in Nat \ {0}, x < s + s
    PROVE  x % s = IF x < s THEN x ELSE x - s
  OBVIOUS

\* The same for a sum, the form in which the reader uses it.
LEMMA ModSum ==
    ASSUME NEW a \in Nat, NEW b \in Nat, NEW s \in Nat \ {0}, a + b < s + s
    PROVE  (a + b) % s = IF a + b < s THEN a + b ELSE a + b - s
  OBVIOUS

\* No feed is in progress and no backlog exists at start-up.
LEMMA InitInv == Init => BacklogInv
<1> SUFFICES ASSUME Init PROVE BacklogInv
  OBVIOUS
<1> USE SizeAssumption, BoundAssumption DEF Init, Sizes, Fresh
<1>1. TypeOK
  BY DEF TypeOK
<1>2. Bookkeeping /\ PendingInStream /\ HistoryInPlace
  BY DEF Bookkeeping, PendingInStream, HistoryInPlace
<1>3. QED
  BY <1>1, <1>2 DEF BacklogInv

\* Every operation on the backlog keeps the invariant.
LEMMA NextInv == BacklogInv /\ [Next]_vars => BacklogInv'
<1> SUFFICES ASSUME BacklogInv, [Next]_vars PROVE BacklogInv'
  OBVIOUS
<1> USE SizeAssumption, BoundAssumption DEF Sizes
<1> USE DEF BacklogInv
<1>1. CASE createReplicationBacklog
  <2>1. TypeOK'
    BY <1>1 DEF createReplicationBacklog, TypeOK, Fresh
  <2>2. (Bookkeeping /\ PendingInStream /\ HistoryInPlace)'
    BY <1>1 DEF createReplicationBacklog, TypeOK, Bookkeeping, PendingInStream,
                HistoryInPlace
  <2>3. QED BY <2>1, <2>2
<1>2. ASSUME NEW n \in 0..MaxSize, resizeReplicationBacklog(n) PROVE BacklogInv'
  <2>1. TypeOK'
    BY <1>2 DEF resizeReplicationBacklog, TypeOK, Fresh
  <2>2. (Bookkeeping /\ PendingInStream)'
    BY <1>2 DEF resizeReplicationBacklog, TypeOK, Bookkeeping, PendingInStream
  <2>3. HistoryInPlace'
    BY <1>2 DEF resizeReplicationBacklog, TypeOK, HistoryInPlace
  <2>4. QED BY <2>1, <2>2, <2>3
<1>3. CASE freeReplicationBacklog
  <2>1. TypeOK'
    BY <1>3 DEF freeReplicationBacklog, TypeOK, Fresh
  <2>2. (Bookkeeping /\ PendingInStream /\ HistoryInPlace)'
    BY <1>3 DEF freeReplicationBacklog, TypeOK, Bookkeeping, PendingInStream,
                HistoryInPlace
  <2>3. QED BY <2>1, <2>2
<1>4. ASSUME NEW n \in 1..MaxFeed, NEW q \in [1..n -> Bytes], FeedBegin(q, n)
      PROVE  BacklogInv'
  <2>1. TypeOK'
    <3>1. q \in Feeds
      BY DEF Feeds
    <3>2. stream' \in [1..MaxOffset -> Bytes \cup {NoByte}]
      BY <1>4 DEF FeedBegin, TypeOK
    <3>3. QED
      BY <1>4, <3>1, <3>2 DEF FeedBegin, TypeOK
  <2>2. PendingInStream'
    BY <1>4 DEF FeedBegin, TypeOK, PendingInStream
  <2>3. Bookkeeping'
    BY <1>4 DEF FeedBegin, TypeOK, Bookkeeping
  <2>4. HistoryInPlace'
    BY <1>4 DEF FeedBegin, TypeOK, Bookkeeping, HistoryInPlace
  <2>5. QED BY <2>1, <2>2, <2>3, <2>4
<1>5. CASE FeedCopy
  <2> DEFINE this == IF size - idx > len THEN len ELSE size - idx
  <2>1. /\ size \in Nat \ {0} /\ idx \in 0..(size - 1) /\ this \in 1..len
        /\ idx + this <= size
        /\ idx' = (IF idx + this = size THEN 0 ELSE idx + this)
        /\ len' = len - this /\ pos' = pos + this /\ histlen' = histlen + this
        /\ exists /\ UNCHANGED <<exists, size, moff, off, p, stream, feeding>>
    BY <1>5 DEF FeedCopy, TypeOK, Bookkeeping
  <2>2. \A i \in 0..(size - 1) :
           buf'[i] = IF idx <= i /\ i < idx + this THEN p[pos + (i - idx) + 1]
                                                   ELSE buf[i]
    BY <1>5 DEF FeedCopy
  <2> HIDE DEF this
  <2>3. ASSUME NEW i \in idx..(idx + this - 1)
        PROVE  /\ buf'[i] = stream[moff - len + (i - idx) + 1]
               /\ moff - len + (i - idx) + 1 \in 1..MaxOffset
    <3> DEFINE m == i - idx + 1
    <3>1. m \in 1..len /\ i \in 0..(size - 1) /\ pos + (i - idx) + 1 = pos + m
          /\ moff - len + (i - idx) + 1 = moff - len + m
          /\ moff - len + m \in 1..MaxOffset
      BY <2>1 DEF TypeOK, PendingInStream
    <3>2. buf'[i] = p[pos + m]
      BY <2>1, <2>2, <3>1
    <3>3. p[pos + m] = stream[moff - len + m]
      BY <3>1 DEF PendingInStream
    <3>4. QED BY <3>1, <3>2, <3>3
  <2>4. TypeOK'
    <3>1. buf' \in [0..(size - 1) -> Bytes \cup {NoByte}]
      <4>1. buf' = [i \in 0..(size - 1) |-> buf'[i]]
        BY <1>5 DEF FeedCopy
      <4>2. ASSUME NEW i \in 0..(size - 1) PROVE buf'[i] \in Bytes \cup {NoByte}
        <5>1. CASE idx <= i /\ i < idx + this
          <6>1. i \in idx..(idx + this - 1)
            BY <2>1, <5>1
          <6>2. QED BY <2>3, <6>1 DEF TypeOK
        <5>2. CASE ~(idx <= i /\ i < idx + this)
          BY <2>2, <5>2 DEF TypeOK
        <5>3. QED BY <5>1, <5>2
      <4>3. QED BY <4>1, <4>2
    <3>2. QED
      BY <2>1, <3>1 DEF TypeOK
  <2>5. Bookkeeping'
    BY <2>1, <1>5 DEF TypeOK, Bookkeeping, FeedCopy
  <2>8. PendingInStream'
    <3> SUFFICES ASSUME NEW i \in 1..len'
                 PROVE  p[pos' + i] = stream[moff - len' + i]
      BY <2>1 DEF PendingInStream, TypeOK
    <3>1. this + i \in 1..len /\ pos' + i = pos + (this + i)
          /\ moff - len' + i = moff - len + (this + i)
      BY <2>1 DEF TypeOK
    <3>2. QED BY <3>1 DEF PendingInStream
  <2>6. HistoryInPlace'
    <3> SUFFICES ASSUME NEW k \in 1..(IF histlen' > size THEN size ELSE histlen')
                 PROVE  buf'[IF idx' >= k THEN idx' - k ELSE idx' - k + size]
                          = stream[moff - len' - k + 1]
      BY <2>1 DEF HistoryInPlace, TypeOK
    <3>1. CASE k <= this
      BY <2>1, <2>3, <3>1 DEF TypeOK
    <3>2. CASE k > this
      <4> DEFINE k0 == k - this
                 at == IF idx >= k0 THEN idx - k0 ELSE idx - k0 + size
      <4>1. /\ k0 \in 1..(IF histlen > size THEN size ELSE histlen)
            /\ at \in 0..(size - 1) /\ ~(idx <= at /\ at < idx + this)
            /\ at = IF idx' >= k THEN idx' - k ELSE idx' - k + size
        BY <2>1, <3>2 DEF TypeOK
      <4>2. buf[at] = stream[moff - len - k0 + 1]
        BY <2>1, <4>1 DEF HistoryInPlace
      <4>3. buf'[at] = buf[at]
        BY <2>2, <4>1
      <4>4. moff - len - k0 + 1 = moff - len' - k + 1
        BY <2>1 DEF TypeOK
      <4>5. QED BY <4>1, <4>2, <4>3, <4>4
    <3>3. QED BY <2>1, <3>1, <3>2 DEF TypeOK
  <2>7. QED BY <2>4, <2>5, <2>6, <2>8
<1>6. CASE FeedEnd
  <2>1. TypeOK'
    <3>1. histlen' \in Nat /\ off' \in Nat
      BY <1>6 DEF FeedEnd, TypeOK, Bookkeeping
    <3>2. QED
      BY <1>6, <3>1 DEF FeedEnd, TypeOK
  <2>2. (Bookkeeping /\ PendingInStream)'
    BY <1>6 DEF FeedEnd, TypeOK, Bookkeeping, PendingInStream
  <2>3. HistoryInPlace'
    BY <1>6 DEF FeedEnd, TypeOK, Bookkeeping, HistoryInPlace
  <2>4. QED BY <2>1, <2>2, <2>3
<1>7. CASE UNCHANGED vars
  BY <1>7 DEF vars, TypeOK, Bookkeeping, PendingInStream, HistoryInPlace
<1>8. QED
  BY <1>1, <1>2, <1>3, <1>4, <1>5, <1>6, <1>7 DEF Next

\* Between feeds, the reader's index arithmetic finds every byte it promises.
LEMMA InvServes == BacklogInv => ServedBytesExact
<1> SUFFICES ASSUME BacklogInv, ~feeding,
                    NEW o \in 1..(MaxOffset + 1), CanServe(o)
             PROVE  /\ ReadLen(o) = moff - o + 1
                    /\ \A i \in 1..ReadLen(o) : ReadByte(o, i) = stream[o + i - 1]
  BY DEF ServedBytesExact
<1> USE SizeAssumption, BoundAssumption DEF Sizes
<1> DEFINE skip == o - off
           oldest == (idx + (size - histlen)) % size
           start == (oldest + skip) % size
<1>1. /\ size \in Nat \ {0} /\ idx \in 0..(size - 1) /\ histlen \in 0..size
      /\ off = moff - histlen + 1 /\ len = 0 /\ exists /\ moff \in Nat
      /\ skip \in 0..histlen
  BY DEF BacklogInv, TypeOK, Bookkeeping, CanServe
<1>2. oldest = IF idx + (size - histlen) < size
               THEN idx + (size - histlen) ELSE idx - histlen
  <2> DEFINE x == idx + (size - histlen)
  <2>1. x \in Nat /\ x < size + size /\ x - size = idx - histlen
    BY <1>1
  <2> HIDE DEF x
  <2>2. x % size = IF x < size THEN x ELSE x - size
    BY <1>1, <2>1, ModOnce
  <2>3. QED
    BY <2>1, <2>2 DEF x
<1>3. start = IF oldest + skip < size THEN oldest + skip ELSE oldest + skip - size
  <2>1. oldest \in Nat /\ skip \in Nat /\ oldest + skip < size + size
    <3> HIDE DEF oldest
    <3>1. QED BY <1>1, <1>2
  <2> HIDE DEF oldest, skip
  <2>2. QED
    BY <1>1, <2>1, ModSum, Zenon
<1>4. ReadLen(o) = moff - o + 1
  BY <1>1 DEF ReadLen
<1>5. ASSUME NEW i \in 1..ReadLen(o) PROVE ReadByte(o, i) = stream[o + i - 1]
  <2> DEFINE k == histlen - skip - i + 1
             j == start + (i - 1)
             at == IF j < size THEN j ELSE j - size
  <2>1. k \in 1..histlen /\ k <= size /\ moff - len - k + 1 = o + i - 1
    BY <1>1, <1>4, <1>5 DEF ReadLen
  <2>2. at = IF idx >= k THEN idx - k ELSE idx - k + size
    <3> HIDE DEF oldest, start
    <3>1. QED
      BY <1>1, <1>2, <1>3, <2>1 DEF ReadLen
  <2>3. ReadByte(o, i) = buf[at]
    BY DEF ReadByte, ReadStart
  <2>4. buf[at] = stream[moff - len - k + 1]
    <3> HIDE DEF at
    <3>1. QED
      BY <1>1, <2>1, <2>2 DEF BacklogInv, HistoryInPlace
  <2>5. QED BY <2>1, <2>3, <2>4
<1>6. QED BY <1>4, <1>5

\* The strengthened invariant holds throughout: types, bookkeeping and the
\* position of every byte, also between two memcpy calls of one feed.
THEOREM BacklogCorrect == Spec => []BacklogInv
<1>1. QED
  BY InitInv, NextInv, PTL DEF Spec

\* The ring, its index and its counters keep to their ranges, also in the middle
\* of a feed that wraps.
THEOREM BacklogTypes == Spec => []TypeOK
<1>1. BacklogInv => TypeOK
  BY DEF BacklogInv
<1>2. QED
  BY BacklogCorrect, <1>1, PTL

\* The ring holds the newest bytes of the stream where its index says.
THEOREM BacklogHistory == Spec => []HistoryInPlace
<1>1. BacklogInv => HistoryInPlace
  BY DEF BacklogInv
<1>2. QED
  BY BacklogCorrect, <1>1, PTL

\* Partial resynchronization is byte-exact for every size of the backlog.
THEOREM PsyncByteExact == Spec => []ServedBytesExact
<1>1. QED
  BY BacklogCorrect, InvServes, PTL

================================================================================
