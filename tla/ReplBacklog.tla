------------------------------ MODULE ReplBacklog ------------------------------
(***************************************************************************)
(* The replication backlog of a master (replication.c): a circular buffer  *)
(* of the last bytes of the replication stream, from which a slave that    *)
(* lost its connection is brought up to date without a full resync.        *)
(*                                                                         *)
(* The loop of feedReplicationBacklog is modelled one memcpy per step, so  *)
(* that the loop invariant is an invariant of the specification.  Bytes    *)
(* are members of a small set; offsets and indexes keep the code's values. *)
(***************************************************************************)
EXTENDS Integers

CONSTANTS
    Bytes,          \* what one byte of the stream can be
    MinSize,        \* REDIS_REPL_BACKLOG_MIN_SIZE
    MaxSize,        \* bound on the size CONFIG SET repl-backlog-size asks for
    MaxFeed,        \* bound on the length of one call of feedReplicationBacklog
    MaxOffset,      \* bound on server.master_repl_offset
    NoByte          \* an offset at which nothing was ever fed

ASSUME SizeAssumption == MinSize \in Nat \ {0} /\ MaxSize \in Nat /\ MinSize <= MaxSize
ASSUME BoundAssumption == MaxFeed \in Nat /\ MaxOffset \in Nat
ASSUME ByteAssumption == NoByte \notin Bytes

VARIABLES
    exists,     \* server.repl_backlog # NULL
    size,       \* server.repl_backlog_size
    buf,        \* the buffer, indexed from 0 as in C
    idx,        \* server.repl_backlog_idx
    histlen,    \* server.repl_backlog_histlen
    off,        \* server.repl_backlog_off
    moff,       \* server.master_repl_offset
    feeding,    \* inside feedReplicationBacklog
    p,          \* the bytes it was called with
    pos,        \* how many of them its loop has copied
    len,        \* and how many are left
    stream      \* history: the byte fed at each offset

vars == <<exists, size, buf, idx, histlen, off, moff, feeding, p, pos, len, stream>>

Sizes == MinSize..MaxSize

\* What a call of feedReplicationBacklog can be given.
Feeds == UNION {[1..n -> Bytes] : n \in 1..MaxFeed}

\* malloc does not clear: the code never reads a byte it did not write, and
\* NoByte in its place makes such a read visible.
Fresh(n) == [i \in 0..(n - 1) |-> NoByte]

Init ==
    /\ exists = FALSE
    /\ size \in Sizes
    /\ buf = Fresh(size)
    /\ idx = 0 /\ histlen = 0 /\ off = 0 /\ moff = 0
    /\ feeding = FALSE /\ p = << >> /\ pos = 0 /\ len = 0
    /\ stream = [o \in 1..MaxOffset |-> NoByte]

\* syncCommand creates the backlog when the first slave attaches.  The offset
\* is moved by one so that no earlier slave can resume across the gap.
createReplicationBacklog ==
    /\ ~feeding /\ ~exists
    /\ moff < MaxOffset
    /\ exists' = TRUE
    /\ buf' = Fresh(size)
    /\ histlen' = 0
    /\ idx' = 0
    /\ moff' = moff + 1
    /\ off' = moff + 2
    /\ UNCHANGED <<size, feeding, p, pos, len, stream>>

\* Wrong: the index and the history survive the new buffer.
resizeKeepsIndex(newsize) ==
    LET n == IF newsize < MinSize THEN MinSize ELSE newsize IN
    /\ ~feeding
    /\ n # size
    /\ size' = n
    /\ buf' = Fresh(n)
    /\ UNCHANGED <<histlen, idx, off, exists, moff, feeding, p, pos, len, stream>>
\* CONFIG SET repl-backlog-size: an existing buffer is dropped, not copied.
resizeReplicationBacklog(newsize) ==
    LET n == IF newsize < MinSize THEN MinSize ELSE newsize IN
    /\ ~feeding
    /\ n # size
    /\ size' = n
    /\ buf' = Fresh(n)
    /\ IF exists
       THEN histlen' = 0 /\ idx' = 0 /\ off' = moff + 1
       ELSE UNCHANGED <<histlen, idx, off>>
    /\ UNCHANGED <<exists, moff, feeding, p, pos, len, stream>>

freeReplicationBacklog ==
    /\ ~feeding /\ exists
    /\ exists' = FALSE
    /\ buf' = Fresh(size)
    /\ UNCHANGED <<size, idx, histlen, off, moff, feeding, p, pos, len, stream>>

\* feedReplicationBacklog(q, Len(q)): the offset covers the whole of q at once.
FeedBegin(q, n) ==
    /\ ~feeding /\ exists
    /\ moff + n <= MaxOffset
    /\ moff' = moff + n
    /\ feeding' = TRUE
    /\ p' = q /\ pos' = 0 /\ len' = n
    /\ stream' = [o \in 1..MaxOffset |->
                    IF moff < o /\ o <= moff + n THEN q[o - moff] ELSE stream[o]]
    /\ UNCHANGED <<exists, size, buf, idx, histlen, off>>

\* Wrong: the index is not taken back to 0 at the physical end.
FeedCopyNoWrap ==
    LET room == size - idx
        this == IF room > len THEN len ELSE room
    IN
    /\ feeding /\ len > 0
    /\ buf' = [i \in 0..(size - 1) |->
                 IF idx <= i /\ i < idx + this THEN p[pos + (i - idx) + 1] ELSE buf[i]]
    /\ idx' = idx + this
    /\ len' = len - this
    /\ pos' = pos + this
    /\ histlen' = histlen + this
    /\ UNCHANGED <<exists, size, off, moff, feeding, p, stream>>
\* One iteration of the while(len) loop: copy up to the physical end.
FeedCopy ==
    LET room == size - idx
        this == IF room > len THEN len ELSE room
    IN
    /\ feeding /\ len > 0
    /\ buf' = [i \in 0..(size - 1) |->
                 IF idx <= i /\ i < idx + this THEN p[pos + (i - idx) + 1] ELSE buf[i]]
    /\ idx' = (IF idx + this = size THEN 0 ELSE idx + this)
    /\ len' = len - this
    /\ pos' = pos + this
    /\ histlen' = histlen + this
    /\ UNCHANGED <<exists, size, off, moff, feeding, p, stream>>

\* Wrong: the first byte held is taken to be one earlier.
FeedEndOffByOne ==
    LET h == IF histlen > size THEN size ELSE histlen IN
    /\ feeding /\ len = 0
    /\ histlen' = h
    /\ off' = moff - h
    /\ feeding' = FALSE
    /\ p' = << >> /\ pos' = 0 /\ len' = 0
    /\ UNCHANGED <<exists, size, buf, idx, moff, stream>>
\* After the loop: the history is never longer than the buffer, and the first
\* byte held is histlen bytes back from the last one.
FeedEnd ==
    LET h == IF histlen > size THEN size ELSE histlen IN
    /\ feeding /\ len = 0
    /\ histlen' = h
    /\ off' = moff - h + 1
    /\ feeding' = FALSE
    /\ p' = << >> /\ pos' = 0 /\ len' = 0
    /\ UNCHANGED <<exists, size, buf, idx, moff, stream>>

Next ==
    \/ createReplicationBacklog
    \/ \E n \in 0..MaxSize : resizeReplicationBacklog(n)
    \/ freeReplicationBacklog
    \/ \E n \in 1..MaxFeed : \E q \in [1..n -> Bytes] : FeedBegin(q, n)
    \/ FeedCopy
    \/ FeedEnd

Spec == Init /\ [][Next]_vars

(***************************************************************************)
(* Reading the backlog.                                                    *)
(***************************************************************************)

\* The test masterTryPartialResynchronization makes on the offset a slave
\* asks for (the runid test belongs to the Replication module).
CanServe(psync_offset) ==
    /\ exists
    /\ psync_offset >= off
    /\ psync_offset <= off + histlen

\* Index of the first byte addReplyReplicationBacklog sends: the oldest byte,
\* then `skip' bytes on, both modulo the size.
ReadStart(offset) ==
    LET skip == offset - off
        oldest == (idx + (size - histlen)) % size
    IN  (oldest + skip) % size

ReadLen(offset) == histlen - (offset - off)

\* The i-th byte sent (i from 1).  The copying loop runs to the end of the
\* buffer, then continues from index 0.
ReadByte(offset, i) ==
    LET j == ReadStart(offset) + (i - 1) IN
    buf[IF j < size THEN j ELSE j - size]

(***************************************************************************)
(* Properties.                                                             *)
(***************************************************************************)

\* The variables have the types of the C fields.
TypeOK ==
    /\ exists \in BOOLEAN
    /\ size \in Sizes
    /\ buf \in [0..(size - 1) -> Bytes \cup {NoByte}]
    /\ idx \in Nat /\ (exists => idx < size)
    /\ histlen \in Nat
    /\ off \in Nat
    /\ moff \in 0..MaxOffset
    /\ feeding \in BOOLEAN
    /\ p \in Feeds \cup {<< >>}
    /\ pos \in Nat
    /\ len \in Nat
    /\ stream \in [1..MaxOffset -> Bytes \cup {NoByte}]

\* A slave whose request is accepted is sent exactly the bytes of the stream
\* from the offset it asked for to the end: none missing, none twice, none of
\* another position, whatever wrap-arounds and resizes came before
\* (addReplyReplicationBacklog, after masterTryPartialResynchronization).
ServedBytesExact ==
    ~feeding => \A o \in 1..(MaxOffset + 1) : CanServe(o) =>
        /\ ReadLen(o) = moff - o + 1
        /\ \A i \in 1..ReadLen(o) : ReadByte(o, i) = stream[o + i - 1]

\* The backlog holds one contiguous run of offsets that ends at
\* master_repl_offset, also while a feed is between two memcpy calls: the
\* part already copied is the newest part of the run.
HistoryInPlace ==
    exists => \A k \in 1..(IF histlen > size THEN size ELSE histlen) :
        buf[IF idx >= k THEN idx - k ELSE idx - k + size] = stream[moff - len - k + 1]

================================================================================
