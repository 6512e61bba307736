------------------------ MODULE ReplicationExactProofs -------------------------
(***************************************************************************)
(* As long as fork() works, a slave that is connected is going to have     *)
(* exactly the master's writes, and the offset a slave keeps names its     *)
(* data: SyncExact and OffsetNamesData, for every set of slaves and        *)
(* connections, every backlog size and every bound on the rest.            *)
(***************************************************************************)
EXTENDS ReplicationProofs

St(d, x) == [db |-> d, data |-> x]

\* A reader in state st is where the stream is at g.
Compat(st, g) == st.data = g.data /\ g.db \in {-1, st.db}

\* Element e takes every reader that is at g to h.
StepOK(g, e, h) ==
    \A d \in Dbs : Compat(St(d, g.data), g) => Compat(Exec(St(d, g.data), e), h)

\* The elements q are the stream of history h from offset o on.
Follows(q, h, o) ==
    /\ o \in Nat /\ o + Len(q) < Len(h)
    /\ \A i \in 1..Len(q) : StepOK(h[o + i], q[i], h[o + i + 1])

\* History g continues h; at the end of h any database may have been selected.
Grows(h, g) ==
    /\ Len(h) <= Len(g)
    /\ \A i \in 1..Len(h) : g[i].data = h[i].data /\ g[i].db \in {-1, h[i].db}
    /\ \A i \in 1..Len(h) : i < Len(h) => g[i] = h[i]

(***************************************************************************)
(* Lemmas about the stream.                                                *)
(***************************************************************************)

\* A reader at g takes the step.
LEMMA StepIs ==
    ASSUME NEW g, NEW e, NEW h, StepOK(g, e, h), NEW st \in State, Compat(st, g)
    PROVE  Compat(Exec(st, e), h)
  <1>1. st = St(st.db, g.data) /\ st.db \in Dbs BY DEF State, St, Compat
  <1>2. Compat(St(st.db, g.data), g) BY <1>1
  <1> QED BY <1>1, <1>2 DEF StepOK

\* A reader at the beginning of some elements is at their end after them.
LEMMA FollowsExec ==
    ASSUME NEW q \in Seq(Msg), NEW h \in Seq(Point), NEW o, Follows(q, h, o),
           NEW st \in State, Compat(st, h[o + 1])
    PROVE  Compat(Executed(st, q), h[o + Len(q) + 1]) /\ Executed(st, q) \in State
  <1>1. Len(q) \in Nat /\ o \in Nat BY DEF Follows
  <1>2. PICK f : Steps(f, st, q) /\ Executed(st, q) = f[Len(q)] BY <1>1, ExecutedSteps
  <1> DEFINE T == {m \in Nat : m <= Len(q) => f[m] \in State /\ Compat(f[m], h[o + m + 1])}
  <1>3. 0 \in T
    <2>1. f[0] = st /\ o + 0 + 1 = o + 1 BY <1>1, <1>2 DEF Steps
    <2> QED BY <2>1
  <1>4. ASSUME NEW n \in T PROVE n + 1 \in T
    <2> SUFFICES ASSUME n + 1 <= Len(q) PROVE f[n + 1] \in State /\ Compat(f[n + 1], h[o + (n + 1) + 1])
      OBVIOUS
    <2>1. n \in Nat /\ f[n] \in State /\ Compat(f[n], h[o + n + 1]) BY <1>1
    <2>2. n + 1 \in 1..Len(q) /\ (n + 1) - 1 = n /\ o + (n + 1) = o + n + 1 BY <1>1, <2>1
    <2>3. f[n + 1] = Exec(f[n], q[n + 1]) BY <1>2, <2>2 DEF Steps
    <2>4. q[n + 1] \in Msg BY <2>2
    <2>5. StepOK(h[o + n + 1], q[n + 1], h[o + (n + 1) + 1]) BY <2>2 DEF Follows
    <2>6. f[n + 1] \in State BY <2>1, <2>3, <2>4, ExecType
    <2>7. Compat(Exec(f[n], q[n + 1]), h[o + (n + 1) + 1]) BY <2>1, <2>5, StepIs
    <2> QED BY <2>3, <2>6, <2>7
  <1>5. T = Nat
    <2>1. T \subseteq Nat OBVIOUS
    <2> HIDE DEF T
    <2> QED BY <1>3, <1>4, <2>1, SetInduction
  <1>6. Len(q) \in T BY <1>1, <1>5
  <1> QED BY <1>1, <1>2, <1>6

\* Nothing follows any place.
LEMMA FollowsNone ==
    ASSUME NEW h, NEW o \in Nat, o < Len(h), Len(h) \in Nat
    PROVE  Follows(<< >>, h, o)
  <1>1. Len(<< >>) = 0 /\ o + 0 = o OBVIOUS
  <1> QED BY <1>1 DEF Follows

\* The stream in two parts.
LEMMA FollowsConcat ==
    ASSUME NEW p \in Seq(Msg), NEW q \in Seq(Msg), NEW h, NEW o,
           Follows(p, h, o), Follows(q, h, o + Len(p))
    PROVE  Follows(p \o q, h, o)
  <1> DEFINE w == p \o q
  <1>1. Len(w) = Len(p) + Len(q) /\ Len(p) \in Nat /\ Len(q) \in Nat /\ o \in Nat BY DEF Follows
  <1>2. \A i \in 1..Len(p) : w[i] = p[i] OBVIOUS
  <1>3. \A i \in 1..Len(q) : w[Len(p) + i] = q[i] OBVIOUS
  <1> HIDE DEF w
  <1>4. o + Len(w) < Len(h)
    <2>1. (o + Len(p)) + Len(q) < Len(h) BY DEF Follows
    <2>2. (o + Len(p)) + Len(q) = o + Len(w) BY <1>1
    <2> QED BY <2>1, <2>2
  <1>5. ASSUME NEW i \in 1..Len(w) PROVE StepOK(h[o + i], w[i], h[o + i + 1])
    <2>1. CASE i <= Len(p)
      <3>1. i \in 1..Len(p) BY <1>1, <2>1
      <3> QED BY <1>2, <3>1 DEF Follows
    <2>2. CASE i > Len(p)
      <3> DEFINE j == i - Len(p)
      <3>1. j \in 1..Len(q) /\ Len(p) + j = i BY <1>1, <2>2
      <3>2. (o + Len(p)) + j = o + i BY <1>1, <3>1
      <3> HIDE DEF j
      <3>3. StepOK(h[(o + Len(p)) + j], q[j], h[(o + Len(p)) + j + 1]) BY <3>1 DEF Follows
      <3>4. w[i] = q[j] BY <1>3, <3>1
      <3> QED BY <3>2, <3>3, <3>4
    <2> QED BY <1>1, <2>1, <2>2
  <1>6. Follows(w, h, o) BY <1>1, <1>4, <1>5 DEF Follows
  <1> QED BY <1>6 DEF w

\* The rest of the stream, from its a-th element on.
LEMMA FollowsSub ==
    ASSUME NEW S, NEW q \in Seq(S), NEW h, NEW o, Len(h) \in Nat, Follows(q, h, o), NEW a \in 1..(Len(q) + 1)
    PROVE  /\ Follows(SubSeq(q, a, Len(q)), h, o + a - 1)
           /\ Len(SubSeq(q, a, Len(q))) = Len(q) - a + 1
           /\ SubSeq(q, a, Len(q)) \in Seq(S)
  <1> DEFINE w == SubSeq(q, a, Len(q))
  <1>1. Len(q) \in Nat /\ o \in Nat /\ a \in Nat /\ a <= Len(q) + 1 /\ a >= 1 BY DEF Follows
  <1>2. \A i \in a..Len(q) : q[i] \in S BY <1>1
  <1>3. /\ w \in Seq(S) /\ Len(w) = (IF a <= Len(q) THEN Len(q) - a + 1 ELSE 0)
        /\ \A i \in 1..(Len(q) - a + 1) : w[i] = q[a + i - 1]
    <2>1. a \in Int /\ Len(q) \in Int BY <1>1
    <2> QED BY <1>2, <2>1, SubSeqProperties
  <1> HIDE DEF w
  <1>4. Len(w) = Len(q) - a + 1 BY <1>1, <1>3
  <1>5. o + a - 1 \in Nat /\ (o + a - 1) + Len(w) < Len(h)
    <2>1. o + Len(q) < Len(h) BY DEF Follows
    <2> QED BY <1>1, <1>4, <2>1
  <1>6. ASSUME NEW i \in 1..Len(w) PROVE StepOK(h[(o + a - 1) + i], w[i], h[(o + a - 1) + i + 1])
    <2> DEFINE j == a + i - 1
    <2>1. j \in 1..Len(q) /\ (o + a - 1) + i = o + j BY <1>1, <1>4
    <2>2. w[i] = q[j] BY <1>3, <1>4
    <2> HIDE DEF j
    <2>3. StepOK(h[o + j], q[j], h[o + j + 1]) BY <2>1 DEF Follows
    <2> QED BY <2>1, <2>2, <2>3
  <1>7. Follows(w, h, o + a - 1) BY <1>5, <1>6 DEF Follows
  <1> QED BY <1>3, <1>4, <1>7 DEF w

\* The first element of the stream and the others.
LEMMA FollowsTail ==
    ASSUME NEW q \in Seq(Msg), q # << >>, NEW h, NEW o, Follows(q, h, o), Len(h) \in Nat
    PROVE  /\ StepOK(h[o + 1], Head(q), h[o + 2])
           /\ Follows(Tail(q), h, o + 1)
           /\ o + 2 \in 1..Len(h)
  <1> DEFINE w == Tail(q)
  <1>1. Len(q) \in Nat /\ Len(q) >= 1 /\ o \in Nat /\ o + Len(q) < Len(h) BY DEF Follows
  <1>2. Len(w) = Len(q) - 1 /\ \A i \in 1..Len(w) : w[i] = q[i + 1] BY <1>1
  <1>3. Head(q) = q[1] OBVIOUS
  <1> HIDE DEF w
  <1>4. StepOK(h[o + 1], q[1], h[o + 2])
    <2>1. 1 \in 1..Len(q) /\ o + 1 + 1 = o + 2 BY <1>1
    <2> QED BY <2>1 DEF Follows
  <1>5. o + 1 \in Nat /\ (o + 1) + Len(w) < Len(h) BY <1>1, <1>2
  <1>6. ASSUME NEW i \in 1..Len(w) PROVE StepOK(h[(o + 1) + i], w[i], h[(o + 1) + i + 1])
    <2>1. i + 1 \in 1..Len(q) /\ (o + 1) + i = o + (i + 1) BY <1>1, <1>2
    <2>2. StepOK(h[o + (i + 1)], q[i + 1], h[o + (i + 1) + 1]) BY <2>1 DEF Follows
    <2>3. w[i] = q[i + 1] BY <1>2
    <2> QED BY <2>1, <2>2, <2>3
  <1>7. Follows(w, h, o + 1) BY <1>5, <1>6 DEF Follows
  <1>8. o + 2 \in 1..Len(h) BY <1>1
  <1> QED BY <1>3, <1>4, <1>7, <1>8 DEF w

\* The history may grow.
LEMMA GrowsCompat ==
    ASSUME NEW h, NEW g, Grows(h, g), NEW i \in 1..Len(h), NEW st, Compat(st, h[i])
    PROVE  Compat(st, g[i])
  BY DEF Grows, Compat

\* And the stream still follows it.
LEMMA GrowsFollows ==
    ASSUME NEW h, NEW g, Len(h) \in Nat, Len(g) \in Nat, Grows(h, g), NEW q, Len(q) \in Nat,
           NEW o, Follows(q, h, o)
    PROVE  Follows(q, g, o)
  <1>1. o \in Nat /\ o + Len(q) < Len(h) /\ Len(h) <= Len(g) BY DEF Follows, Grows
  <1>2. o + Len(q) < Len(g) BY <1>1
  <1>3. ASSUME NEW i \in 1..Len(q) PROVE StepOK(g[o + i], q[i], g[o + i + 1])
    <2>1. o + i \in 1..Len(h) /\ o + i < Len(h) /\ o + i + 1 \in 1..Len(h) BY <1>1
    <2>2. g[o + i] = h[o + i] BY <2>1 DEF Grows
    <2>3. \A st : Compat(st, h[o + i + 1]) => Compat(st, g[o + i + 1]) BY <2>1, GrowsCompat
    <2>4. StepOK(h[o + i], q[i], h[o + i + 1]) BY DEF Follows
    <2> QED BY <2>2, <2>3, <2>4 DEF StepOK
  <1> QED BY <1>1, <1>2, <1>3 DEF Follows

\* A history that stays, or is appended to, grows.
LEMMA GrowsSame ==
    ASSUME NEW h \in Seq(Point), NEW p \in Seq(Point)
    PROVE  Grows(h, h) /\ Grows(h, h \o p)
  <1>1. Len(h) \in Nat /\ Len(p) \in Nat /\ Len(h \o p) = Len(h) + Len(p) OBVIOUS
  <1>2. \A i \in 1..Len(h) : (h \o p)[i] = h[i] OBVIOUS
  <1> QED BY <1>1, <1>2 DEF Grows

(***************************************************************************)
(* The invariant.  What the master holds for connection c, in one value:   *)
(* the rest is said of such views, and of the channel and the slave at its *)
(* other end.                                                              *)
(***************************************************************************)
Now == [db |-> seldb, data |-> mdata]
View(c) ==
    [hist |-> hist, run |-> runid, off |-> moff, now |-> Now, net |-> chan[c].net,
     k |-> cl[c], child |-> child, mine |-> c \in child.ids]
IsView(v) ==
    /\ v.run \in Nat /\ v.off \in Nat /\ v.hist \in [0..v.run -> Seq(Point)]
    /\ v.now \in Point /\ v.net \in BOOLEAN /\ v.k \in Client
    /\ v.child \in ChildType /\ v.mine \in BOOLEAN

\* The history ends at the master's offset, and the backlog is its end.
HistInv ==
    /\ Len(hist[runid]) = moff + 1
    /\ bl.on => hist[runid][moff + 1] = Now
    /\ ~bl.on => bl.win = << >>
    /\ Follows(bl.win, hist[runid], moff - Len(bl.win))

\* The client's buffer takes a reader of rdb to the master's data.  It is the
\* stream since the offset of rdb, or has a SELECT more.
RdbOK(v, rdb) ==
    /\ Compat(Executed(St(0, rdb.data), v.k.out), v.now)
    /\ rdb.snap \in 0..v.off /\ rdb.snap + Len(v.k.out) >= v.off
    /\ rdb.snap + Len(v.k.out) = v.off =>
         /\ Compat(St(0, rdb.data), v.hist[v.run][rdb.snap + 1])
         /\ Follows(v.k.out, v.hist[v.run], rdb.snap)
\* Before the RDB is started the buffer only selects databases.
Waiting(v) ==
    \A x \in Data : Compat(Executed(St(0, x), v.k.out), [db |-> v.now.db, data |-> x])

\* The master's client and its channel.
ClientOK(v, ch) ==
    /\ v.k.state = "NONE" => v.k = NewClient /\ (ch.mopen => ch.m2s = << >> /\ ~v.mine)
    /\ v.k.state # "NONE" => ch.mopen
    /\ v.k.wh => v.k.state = "ONLINE"
    /\ v.k.state = "START" => Waiting(v)
    /\ v.k.state = "END" => v.child.type # "NONE" /\ RdbOK(v, v.child.rdb)
    /\ v.k.state = "BULK" => RdbOK(v, v.k.rdb)
    /\ v.mine => /\ v.child.type = "SOCKET" /\ v.k.state \in {"NONE", "END"}
                 /\ v.child.rdb.snap \in 0..v.off

\* What the master writes can arrive.
Live(v) == v.net /\ v.k.state # "NONE"
\* The RDB is on its way or has arrived.
Served(v) ==
    /\ v.k.state \in {"NONE", "ONLINE", "END"}
    /\ v.k.state = "END" => v.mine
    /\ v.mine => v.child.wrote

\* A reader in state st at offset o of run r, with q on its way to it.
Exact(v, st, r, o, q) ==
    /\ r \in 0..v.run /\ Follows(q, v.hist[r], o) /\ Compat(st, v.hist[r][o + 1])
    /\ Live(v) => /\ r = v.run /\ o + Len(q) + Len(v.k.out) = v.off
                  /\ Follows(v.k.out, v.hist[v.run], o + Len(q))
\* The reader is going to have the master's data.
Caught(v, st, q) == Live(v) => Compat(Executed(st, q \o v.k.out), v.now)
\* The same of the reader that loads rdb and was announced i.
Loads(v, rdb, q, i) ==
    /\ Caught(v, St(0, rdb.data), q)
    /\ i.off = rdb.snap => Exact(v, St(0, rdb.data), i.run, rdb.snap, q)
\* A slave that was announced i and is sent nothing yet.
Awaits(v, i) ==
    /\ i.off >= -1
    /\ Live(v) => /\ v.k.state \in {"START", "END", "BULK"}
                  /\ v.mine => ~v.child.wrote
                  /\ i.off <= v.off /\ (i.off >= 0 => i.run = v.run)
                  /\ v.k.state = "START" /\ i.off = v.off => v.k.out = << >>
    /\ v.net /\ v.mine /\ ~v.child.wrote /\ i.off = v.child.rdb.snap =>
         i.run = v.run /\ Compat(St(0, v.child.rdb.data), v.hist[v.run][v.child.rdb.snap + 1])
\* A slave that reads an RDB next, or was answered a second time.
Transfer(v, q, i) ==
    \/ q = << >> /\ Awaits(v, i)
    \/ q # << >> /\ Head(q)[1] \in {"bulk", "eof"} /\ Served(v) /\ Loads(v, Head(q)[2], Tail(q), i)
    \/ q # << >> /\ Head(q)[1] \in {"full", "cont"}

PsyncMsg(m) == <<"PSYNC", IF m.on THEN m.run ELSE -1, IF m.on THEN m.off + 1 ELSE -1>>
InConnecting(v, ch) == ch.m2s = << >> /\ ch.s2m = << >> /\ v.k.state = "NONE" /\ ~v.mine
InPsync(v, ch, m, i, x, p) ==
    LET q == ch.m2s IN
    /\ i = NoInit
    /\ \A j \in 1..Len(ch.s2m) : ch.s2m[j] = PsyncMsg(m)
    /\ q = << >> => ~v.net \/ (v.k.state = "NONE" /\ ~v.mine)
    /\ q # << >> =>
         \/ /\ Head(q)[1] = "full" /\ Head(q)[3] >= -1
            /\ Transfer(v, Tail(q), [run |-> Head(q)[2], off |-> Head(q)[3]])
         \/ /\ Head(q)[1] = "cont" /\ m.on /\ m.run >= 0 /\ Served(v)
            /\ p = "exact" => Exact(v, St(m.db, x), m.run, m.off, Tail(q))
InTransfer(v, ch, i) ==
    /\ Transfer(v, ch.m2s, i) /\ i.off >= -1
    /\ v.k.state = "NONE" /\ ch.mopen => i = NoInit
InConnected(v, ch, m, x, p) ==
    /\ Served(v)
    /\ ch.mopen => v.k.state # "NONE"
    /\ p # "tainted" => Caught(v, St(m.db, x), ch.m2s)
    /\ p = "exact" /\ m.run >= 0 => Exact(v, St(m.db, x), m.run, m.off, ch.m2s)

\* A slave in state r at its end of a channel.
AtConn(v, ch, r, m, q, i, x, p) ==
    /\ r = "CONNECTING" => InConnecting(v, ch)
    /\ r = "PSYNC" => InPsync(v, ch, q, i, x, p)
    /\ r = "TRANSFER" => InTransfer(v, ch, i)
    /\ r = "CONNECTED" => InConnected(v, ch, m, x, p)
\* What a slave resumes from.
CachedOK(h, run, m, x, p) ==
    p = "exact" /\ m.on /\ m.run >= 0 =>
        m.run \in 0..run /\ Follows(<< >>, h[m.run], m.off) /\ Compat(St(m.db, x), h[m.run][m.off + 1])

SlaveAt(s) ==
    /\ sc[s] # NoConn => AtConn(View(sc[s]), chan[sc[s]], rs[s], master[s], cached[s], init[s],
                                sdata[s], pos[s])
    /\ CachedOK(hist, runid, cached[s], sdata[s], pos[s])

Clients == \A c \in Conns : ClientOK(View(c), chan[c])
ExactInv == TypeInv /\ HistInv /\ Clients /\ \A s \in Slaves : SlaveAt(s)

(***************************************************************************)
(* What a step must keep of a view for the slave not to notice.            *)
(***************************************************************************)
Older(v, u) == v.run <= u.run /\ \A r \in 0..v.run : Grows(v.hist[r], u.hist[r])
KeepsExact(v, u) ==
    \A st \in State, q \in Seq(Msg) : \A r, o : Exact(v, st, r, o, q) => Exact(u, st, r, o, q)
KeepsCaught(v, u) == \A st \in State, q \in Seq(Msg) : Caught(v, st, q) => Caught(u, st, q)
Kept(v, u) ==
    /\ u.net = v.net /\ Older(v, u)
    /\ v.k.state = "NONE" /\ ~v.mine => u.k.state = "NONE" /\ ~u.mine
    /\ Served(v) => Served(u) /\ KeepsExact(v, u) /\ KeepsCaught(v, u)
    /\ \A i \in [run : Int, off : Int] : Awaits(v, i) => Awaits(u, i)
KeptChan(v, ch, u, j) ==
    /\ j.m2s = ch.m2s
    /\ j.mopen => ch.mopen
    /\ \A a \in 1..Len(j.s2m) : \E b \in 1..Len(ch.s2m) : j.s2m[a] = ch.s2m[b]
    /\ u.k.state = "NONE" /\ j.mopen => v.k.state = "NONE"

\* The state a slave's RDB is loaded into.
LEMMA LoadState == ASSUME NEW x \in Data PROVE St(0, x) \in State
  BY InitialTypes DEF St, State

\* What is sent is kept.
LEMMA KeptTransfer ==
    ASSUME NEW v, NEW u, Kept(v, u), NEW q \in Seq(Msg), NEW i \in [run : Int, off : Int],
           Transfer(v, q, i)
    PROVE  Transfer(u, q, i)
  <1>1. CASE q = << >> /\ Awaits(v, i) BY <1>1 DEF Transfer, Kept
  <1>2. CASE q # << >> /\ Head(q)[1] \in {"full", "cont"} BY <1>2 DEF Transfer
  <1>3. CASE q # << >> /\ Head(q)[1] \in {"bulk", "eof"} /\ Served(v) /\ Loads(v, Head(q)[2], Tail(q), i)
    <2> DEFINE rdb == Head(q)[2]
               t == Tail(q)
    <2>1. Head(q) \in Msg /\ t \in Seq(Msg) BY <1>3
    <2>2. rdb \in Rdb BY <1>3, <2>1, MsgIs
    <2>3. St(0, rdb.data) \in State BY <2>2, LoadState DEF Rdb
    <2>4. Served(u) /\ KeepsExact(v, u) /\ KeepsCaught(v, u) BY <1>3 DEF Kept
    <2>5. Loads(v, rdb, t, i) BY <1>3
    <2> HIDE DEF rdb, t
    <2>6. Caught(u, St(0, rdb.data), t) BY <2>1, <2>3, <2>4, <2>5 DEF Loads, KeepsCaught
    <2>7. i.off = rdb.snap => Exact(u, St(0, rdb.data), i.run, rdb.snap, t)
      BY <2>1, <2>3, <2>4, <2>5 DEF Loads, KeepsExact
    <2>8. Loads(u, rdb, t, i) BY <2>6, <2>7 DEF Loads
    <2> QED BY <1>3, <2>4, <2>8 DEF Transfer, rdb, t
  <1> QED BY <1>1, <1>2, <1>3 DEF Transfer

\* A slave does not notice a step that keeps the view.
LEMMA KeptAt ==
    ASSUME NEW v, NEW u, Kept(v, u), NEW ch \in Channel, NEW j \in Channel, KeptChan(v, ch, u, j),
           NEW r, NEW m \in Link, NEW q \in Link, NEW i \in [run : Int, off : Int], NEW x \in Data,
           NEW p, AtConn(v, ch, r, m, q, i, x, p)
    PROVE  AtConn(u, j, r, m, q, i, x, p)
  <1>1. ch.m2s \in Seq(Msg) /\ j.m2s = ch.m2s /\ ch.s2m \in Seq(Request) /\ j.s2m \in Seq(Request)
    BY DEF Channel, KeptChan
  <1>2. ch.s2m = << >> => j.s2m = << >>
    <2> SUFFICES ASSUME ch.s2m = << >>, j.s2m # << >> PROVE FALSE OBVIOUS
    <2>1. 1 \in 1..Len(j.s2m) BY <1>1
    <2>2. \E b \in 1..Len(ch.s2m) : j.s2m[1] = ch.s2m[b] BY <2>1 DEF KeptChan
    <2> QED BY <2>2
  <1>3. r = "CONNECTING" => InConnecting(u, j)
    BY <1>1, <1>2 DEF AtConn, InConnecting, Kept
  <1>4. ASSUME r = "PSYNC" PROVE InPsync(u, j, q, i, x, p)
    <2> DEFINE w == ch.m2s
    <2>1. InPsync(v, ch, q, i, x, p) BY <1>4 DEF AtConn
    <2>2. i = NoInit /\ \A a \in 1..Len(j.s2m) : j.s2m[a] = PsyncMsg(q)
      BY <2>1 DEF InPsync, KeptChan
    <2>3. w = << >> => ~u.net \/ (u.k.state = "NONE" /\ ~u.mine) BY <2>1 DEF InPsync, Kept
    <2>4. ASSUME w # << >>, Head(w)[1] = "full",
                 Transfer(v, Tail(w), [run |-> Head(w)[2], off |-> Head(w)[3]])
          PROVE  Transfer(u, Tail(w), [run |-> Head(w)[2], off |-> Head(w)[3]])
      <3> DEFINE n == [run |-> Head(w)[2], off |-> Head(w)[3]]
                 t == Tail(w)
      <3>1. Head(w) \in Msg /\ t \in Seq(Msg) BY <1>1, <2>4
      <3>2. Head(w)[2] \in Int /\ Head(w)[3] \in Int BY <2>4, <3>1, MsgIs
      <3>3. n \in [run : Int, off : Int] BY <3>2
      <3>4. Transfer(v, t, n) BY <2>4
      <3> HIDE DEF n, t
      <3>5. Transfer(u, t, n) BY <3>1, <3>3, <3>4, KeptTransfer
      <3> QED BY <3>5 DEF n, t
    <2>5. ASSUME w # << >>, Head(w)[1] = "cont", q.on, q.run >= 0, Served(v),
                 p = "exact" => Exact(v, St(q.db, x), q.run, q.off, Tail(w))
          PROVE  Served(u) /\ (p = "exact" => Exact(u, St(q.db, x), q.run, q.off, Tail(w)))
      <3>1. St(q.db, x) \in State /\ Tail(w) \in Seq(Msg) BY <1>1, <2>5 DEF St, State, Link
      <3>2. Served(u) /\ KeepsExact(v, u) BY <2>5 DEF Kept
      <3> QED BY <2>5, <3>1, <3>2 DEF KeepsExact
    <2>6. w # << >> =>
            \/ /\ Head(w)[1] = "full" /\ Head(w)[3] >= -1
               /\ Transfer(u, Tail(w), [run |-> Head(w)[2], off |-> Head(w)[3]])
            \/ /\ Head(w)[1] = "cont" /\ q.on /\ q.run >= 0 /\ Served(u)
               /\ p = "exact" => Exact(u, St(q.db, x), q.run, q.off, Tail(w))
      BY <2>1, <2>4, <2>5 DEF InPsync
    <2> QED BY <1>1, <2>2, <2>3, <2>6 DEF InPsync
  <1>5. r = "TRANSFER" => InTransfer(u, j, i)
    BY <1>1, KeptTransfer DEF AtConn, InTransfer, KeptChan
  <1>6. ASSUME r = "CONNECTED" PROVE InConnected(u, j, m, x, p)
    <2>1. InConnected(v, ch, m, x, p) BY <1>6 DEF AtConn
    <2>2. St(m.db, x) \in State BY DEF St, State, Link
    <2>3. Served(u) /\ KeepsExact(v, u) /\ KeepsCaught(v, u) BY <2>1 DEF Kept, InConnected
    <2>4. j.mopen => u.k.state # "NONE" BY <2>1 DEF InConnected, KeptChan
    <2>5. p # "tainted" => Caught(u, St(m.db, x), j.m2s)
      BY <1>1, <2>1, <2>2, <2>3 DEF InConnected, KeepsCaught
    <2>6. p = "exact" /\ m.run >= 0 => Exact(u, St(m.db, x), m.run, m.off, j.m2s)
      BY <1>1, <2>1, <2>2, <2>3 DEF InConnected, KeepsExact
    <2> QED BY <2>3, <2>4, <2>5, <2>6 DEF InConnected
  <1> QED BY <1>3, <1>4, <1>5, <1>6 DEF AtConn

\* What a slave resumes from stays in the history.
LEMMA KeptCached ==
    ASSUME NEW v, NEW u, IsView(v), IsView(u), Older(v, u), NEW m, NEW x, NEW p,
           CachedOK(v.hist, v.run, m, x, p)
    PROVE  CachedOK(u.hist, u.run, m, x, p)
  <1> SUFFICES ASSUME p = "exact", m.on, m.run >= 0
               PROVE  /\ m.run \in 0..u.run /\ Follows(<< >>, u.hist[m.run], m.off)
                      /\ Compat(St(m.db, x), u.hist[m.run][m.off + 1])
    BY DEF CachedOK
  <1> DEFINE h == v.hist[m.run]
             g == u.hist[m.run]
  <1>1. m.run \in 0..v.run /\ Follows(<< >>, h, m.off) /\ Compat(St(m.db, x), h[m.off + 1])
    BY DEF CachedOK
  <1>2. m.run \in 0..u.run /\ Grows(h, g) BY <1>1 DEF Older, IsView
  <1>3. h \in Seq(Point) /\ g \in Seq(Point) BY <1>1, <1>2 DEF IsView
  <1>4. Len(h) \in Nat /\ Len(g) \in Nat /\ Len(<< >>) = 0 BY <1>3
  <1>5. m.off \in Nat /\ m.off + 0 < Len(h) BY <1>1, <1>4 DEF Follows
  <1> HIDE DEF h, g
  <1>6. Follows(<< >>, g, m.off) BY <1>1, <1>2, <1>4, GrowsFollows
  <1>7. m.off + 1 \in 1..Len(h) BY <1>4, <1>5
  <1>8. Compat(St(m.db, x), g[m.off + 1]) BY <1>1, <1>2, <1>7, GrowsCompat
  <1> QED BY <1>2, <1>6, <1>8 DEF g

\* What is exact stays so in a history that goes on.
LEMMA OlderExact ==
    ASSUME NEW v, NEW u, IsView(v), IsView(u), Older(v, u),
           NEW st, NEW q \in Seq(Msg), NEW r, NEW o, Exact(v, st, r, o, q)
    PROVE  /\ r \in 0..u.run /\ Follows(q, u.hist[r], o) /\ Compat(st, u.hist[r][o + 1])
           /\ Grows(v.hist[r], u.hist[r]) /\ v.hist[r] \in Seq(Point) /\ u.hist[r] \in Seq(Point)
  <1> DEFINE h == v.hist[r]
             g == u.hist[r]
  <1>1. r \in 0..v.run /\ Follows(q, h, o) /\ Compat(st, h[o + 1]) BY DEF Exact
  <1>2. r \in 0..u.run /\ Grows(h, g) BY <1>1 DEF Older, IsView
  <1>3. h \in Seq(Point) /\ g \in Seq(Point) BY <1>1, <1>2 DEF IsView
  <1>4. Len(h) \in Nat /\ Len(g) \in Nat /\ Len(q) \in Nat BY <1>3
  <1> HIDE DEF h, g
  <1>5. Follows(q, g, o) BY <1>1, <1>2, <1>4, GrowsFollows
  <1>6. o + 1 \in 1..Len(h) BY <1>1, <1>4 DEF Follows
  <1>7. Compat(st, g[o + 1]) BY <1>1, <1>2, <1>6, GrowsCompat
  <1> QED BY <1>2, <1>3, <1>5, <1>7 DEF h, g

\* A connection nothing comes through any more.
LEMMA DeadKept ==
    ASSUME NEW v, NEW u, IsView(v), IsView(u), Older(v, u), u.net = v.net, ~Live(u),
           v.k.state = "NONE" /\ ~v.mine => u.k.state = "NONE" /\ ~u.mine,
           Served(v) => Served(u),
           u.mine => /\ v.mine /\ u.child.wrote = v.child.wrote /\ u.child.rdb = v.child.rdb
                     /\ u.run = v.run /\ v.child.rdb.snap + 1 \in 1..Len(v.hist[v.run])
    PROVE  Kept(v, u)
  <1>1. KeepsExact(v, u)
    <2> SUFFICES ASSUME NEW st \in State, NEW q \in Seq(Msg), NEW r, NEW o, Exact(v, st, r, o, q)
                 PROVE  Exact(u, st, r, o, q)
      BY DEF KeepsExact
    <2>1. r \in 0..u.run /\ Follows(q, u.hist[r], o) /\ Compat(st, u.hist[r][o + 1])
      BY OlderExact
    <2> QED BY <2>1 DEF Exact
  <1>2. KeepsCaught(v, u) BY DEF KeepsCaught, Caught
  <1>3. ASSUME NEW i \in [run : Int, off : Int], Awaits(v, i) PROVE Awaits(u, i)
    <2>1. i.off >= -1 BY <1>3 DEF Awaits
    <2>2. ASSUME u.net, u.mine, ~u.child.wrote, i.off = u.child.rdb.snap
          PROVE  /\ i.run = u.run
                 /\ Compat(St(0, u.child.rdb.data), u.hist[u.run][u.child.rdb.snap + 1])
      <3> DEFINE h == v.hist[v.run]
                 g == u.hist[u.run]
                 n == v.child.rdb.snap + 1
      <3>1. i.run = v.run /\ Compat(St(0, v.child.rdb.data), h[n]) BY <1>3, <2>2 DEF Awaits
      <3>2. Grows(h, g) /\ n \in 1..Len(h) BY <2>2 DEF Older, IsView
      <3> HIDE DEF h, g, n
      <3>3. Compat(St(0, v.child.rdb.data), g[n]) BY <3>1, <3>2, GrowsCompat
      <3> QED BY <2>2, <3>1, <3>3 DEF g, n
    <2> QED BY <2>1, <2>2 DEF Awaits
  <1> QED BY <1>1, <1>2, <1>3 DEF Kept

\* A slave that is given the stream elements es.
LEMMA LiveKept ==
    ASSUME NEW v, NEW u, IsView(v), IsView(u), Older(v, u), u.net = v.net, u.run = v.run,
           u.k.state = v.k.state, NEW es \in Seq(Reply), u.k.out = v.k.out \o es,
           u.off = v.off + Len(es), Follows(es, u.hist[u.run], v.off),
           \A st \in State : Compat(st, v.now) => Compat(Executed(st, es), u.now)
    PROVE  KeepsExact(v, u) /\ KeepsCaught(v, u)
  <1>1. v.k.out \in Seq(Reply) /\ Reply \subseteq Msg BY MakesMsg DEF IsView, Client
  <1>2. v.k.out \in Seq(Msg) /\ es \in Seq(Msg) BY <1>1, SeqMonotonic
  <1>3. Live(u) = Live(v) BY DEF Live
  <1>4. ASSUME NEW st \in State, NEW q \in Seq(Msg), NEW r, NEW o, Exact(v, st, r, o, q)
        PROVE  Exact(u, st, r, o, q)
    <2>1. /\ r \in 0..u.run /\ Follows(q, u.hist[r], o) /\ Compat(st, u.hist[r][o + 1])
          /\ Grows(v.hist[r], u.hist[r]) /\ v.hist[r] \in Seq(Point) /\ u.hist[r] \in Seq(Point)
      BY <1>4, OlderExact
    <2>2. ASSUME Live(u)
          PROVE  /\ r = u.run /\ o + Len(q) + Len(u.k.out) = u.off
                 /\ Follows(u.k.out, u.hist[u.run], o + Len(q))
      <3> DEFINE a == v.k.out
                 g == u.hist[u.run]
                 p == o + Len(q)
      <3>1. r = v.run /\ o + Len(q) + Len(a) = v.off /\ Follows(a, v.hist[v.run], p)
        BY <1>3, <1>4, <2>2 DEF Exact
      <3>2. Grows(v.hist[v.run], g) /\ Len(v.hist[v.run]) \in Nat /\ Len(g) \in Nat BY <2>1, <3>1
      <3>3. Len(a) \in Nat /\ Len(es) \in Nat /\ Len(a \o es) = Len(a) + Len(es) /\ Len(q) \in Nat
        BY <1>2
      <3>4. o \in Nat BY <2>1 DEF Follows
      <3>5. Follows(es, g, p + Len(a))
        <4>1. p + Len(a) = v.off BY <3>1
        <4> QED BY <4>1
      <3> HIDE DEF a, g, p
      <3>6. Follows(a, g, p) BY <3>1, <3>2, <3>3, GrowsFollows
      <3>7. a \in Seq(Msg) BY <1>2 DEF a
      <3>8. Follows(a \o es, g, p) BY <1>2, <3>5, <3>6, <3>7, FollowsConcat
      <3>9. o + Len(q) + Len(u.k.out) = u.off
        <4>1. Len(u.k.out) = Len(a) + Len(es) BY <3>3 DEF a
        <4> HIDE DEF a
        <4> QED BY <3>1, <3>3, <3>4, <4>1
      <3> QED BY <3>1, <3>8, <3>9 DEF a, g, p
    <2> QED BY <2>1, <2>2 DEF Exact
  <1>5. ASSUME NEW st \in State, NEW q \in Seq(Msg), Caught(v, st, q) PROVE Caught(u, st, q)
    <2> SUFFICES ASSUME Live(u) PROVE Compat(Executed(st, q \o u.k.out), u.now) BY DEF Caught
    <2> DEFINE w == q \o v.k.out
    <2>1. Compat(Executed(st, w), v.now) BY <1>3, <1>5 DEF Caught
    <2>5. w \in Seq(Msg) BY <1>2
    <2>6. q \o u.k.out = w \o es
      <3> DEFINE a == v.k.out
      <3>1. a \in Seq(Msg) /\ q \in Seq(Msg) /\ es \in Seq(Msg) BY <1>2
      <3> HIDE DEF a
      <3>2. q \o (a \o es) = (q \o a) \o es BY <3>1, ConcatAssociative
      <3> QED BY <3>2 DEF a
    <2>2. w \in Seq(Msg) /\ q \o u.k.out = w \o es BY <2>5, <2>6
    <2> HIDE DEF w
    <2>3. Executed(st, w) \in State BY <2>2, ExecutedType
    <2>4. Executed(st, w \o es) = Executed(Executed(st, w), es) BY <1>2, <2>2, ExecutedConcat
    <2> QED BY <2>1, <2>2, <2>3, <2>4
  <1> QED BY <1>4, <1>5 DEF KeepsExact, KeepsCaught

\* Nothing happens to a view.
LEMMA SameKept ==
    ASSUME NEW v, IsView(v)
    PROVE  Kept(v, v)
  <1>1. \A r \in 0..v.run : v.hist[r] \in Seq(Point) BY DEF IsView
  <1>2. << >> \in Seq(Point) OBVIOUS
  <1>3. Older(v, v) BY <1>1, <1>2, GrowsSame DEF Older, IsView
  <1> QED BY <1>3 DEF Kept, KeepsExact, KeepsCaught

\* The view after a step.
ViewN(c) ==
    [hist |-> hist', run |-> runid', off |-> moff', now |-> [db |-> seldb', data |-> mdata'],
     net |-> chan'[c].net, k |-> cl'[c], child |-> child', mine |-> c \in child'.ids]

\* What is in a view.
LEMMA ViewIs ==
    ASSUME NEW c
    PROVE  /\ View(c).hist = hist /\ View(c).run = runid /\ View(c).off = moff
           /\ View(c).now.db = seldb /\ View(c).now.data = mdata /\ View(c).now = Now
           /\ View(c).net = chan[c].net /\ View(c).k = cl[c] /\ View(c).child = child
           /\ View(c).mine = (c \in child.ids)
  BY DEF View, Now

\* And in the next one.
LEMMA ViewNIs ==
    ASSUME NEW c
    PROVE  /\ ViewN(c).hist = hist' /\ ViewN(c).run = runid' /\ ViewN(c).off = moff'
           /\ ViewN(c).now.db = seldb' /\ ViewN(c).now.data = mdata' /\ ViewN(c).now = Now'
           /\ ViewN(c).net = chan'[c].net /\ ViewN(c).k = cl'[c] /\ ViewN(c).child = child'
           /\ ViewN(c).mine = (c \in child'.ids)
           /\ ViewN(c) = View(c)'
  BY DEF ViewN, View, Now

\* They are views.
LEMMA ViewTypes ==
    ASSUME NEW c \in Conns
    PROVE  (TypeInv => IsView(View(c))) /\ (TypeInv' => IsView(ViewN(c)))
  <1>1. TypeInv => IsView(View(c))
    <2> SUFFICES ASSUME TypeInv PROVE IsView(View(c)) OBVIOUS
    <2>1. Now \in Point BY DEF TypeInv, MasterTypes, Now, Point
    <2>2. chan[c].net \in BOOLEAN BY DEF TypeInv, ChanTypes, Channel
    <2>3. cl[c] \in Client BY DEF TypeInv, ClientTypes
    <2> DEFINE v == View(c)
    <2>4. /\ v.hist = hist /\ v.run = runid /\ v.off = moff /\ v.now = Now /\ v.net = chan[c].net
          /\ v.k = cl[c] /\ v.child = child /\ v.mine = (c \in child.ids)
      BY ViewIs
    <2>5. v.mine \in BOOLEAN BY DEF View
    <2> HIDE DEF v
    <2>6. IsView(v) BY <2>1, <2>2, <2>3, <2>4, <2>5 DEF TypeInv, MasterTypes, IsView
    <2> QED BY <2>6 DEF v
  <1>2. TypeInv' => IsView(ViewN(c))
    <2> SUFFICES ASSUME TypeInv' PROVE IsView(ViewN(c)) OBVIOUS
    <2>1. Now' \in Point BY DEF TypeInv, MasterTypes, Now, Point
    <2>2. chan'[c].net \in BOOLEAN BY DEF TypeInv, ChanTypes, Channel
    <2>3. cl'[c] \in Client BY DEF TypeInv, ClientTypes
    <2> DEFINE v == ViewN(c)
    <2>4. /\ v.hist = hist' /\ v.run = runid' /\ v.off = moff' /\ v.now = Now' /\ v.net = chan'[c].net
          /\ v.k = cl'[c] /\ v.child = child' /\ v.mine = (c \in child'.ids)
      BY ViewNIs
    <2>5. v.mine \in BOOLEAN BY DEF ViewN
    <2> HIDE DEF v
    <2>6. IsView(v) BY <2>1, <2>2, <2>3, <2>4, <2>5 DEF TypeInv, MasterTypes, IsView
    <2> QED BY <2>6 DEF v
  <1> QED BY <1>1, <1>2

\* The histories go on.
Onward == runid <= runid' /\ \A r \in 0..runid : Grows(hist[r], hist'[r])
\* The slave at connection c does not notice.
Unnoticed(c) == Kept(View(c), ViewN(c)) /\ KeptChan(View(c), chan[c], ViewN(c), chan'[c])
\* Or what holds of it is shown otherwise.
AtNext(s, c) ==
    AtConn(ViewN(c), chan'[c], rs[s], master[s], cached[s], init[s], sdata[s], pos[s])

\* A step of the master or of the network.
LEMMA SlavesKept ==
    ASSUME ExactInv, TypeInv', UNCHANGED <<rs, sc, master, cached, init, sdata, pos>>, Onward,
           \A c \in Conns : chan[c].sopen =>
               Unnoticed(c) \/ \A s \in Slaves : sc[s] = c => AtNext(s, c)
    PROVE  \A s \in Slaves : SlaveAt(s)'
  <1> TAKE s \in Slaves
  <1> DEFINE c == sc[s]
  <1>1. TypeInv /\ SlaveAt(s) BY DEF ExactInv
  <1>2. SlaveOK(rs[s], sc[s], master[s], cached[s], init[s], sdata[s], pos[s])
    BY <1>1, SlaveIs DEF TypeInv
  <1>3. ASSUME c # NoConn PROVE AtNext(s, c)
    <2>1. c \in Conns /\ rs[s] \notin {"NONE", "CONNECT"} BY <1>2, <1>3 DEF SlaveOK
    <2>2. chan[c].sopen BY <1>1, <2>1, OwnLink DEF LinkOK
    <2>3. chan[c] \in Channel /\ chan'[c] \in Channel BY <1>1, <2>1 DEF TypeInv, ChanTypes
    <2>4. AtConn(View(c), chan[c], rs[s], master[s], cached[s], init[s], sdata[s], pos[s])
      BY <1>1, <1>3 DEF SlaveAt
    <2>5. Unnoticed(c) \/ AtNext(s, c) BY <2>1, <2>2
    <2> HIDE DEF c
    <2>6. CASE Unnoticed(c)
      BY <1>2, <2>3, <2>4, <2>6, KeptAt DEF Unnoticed, AtNext, SlaveOK
    <2> QED BY <2>5, <2>6
  <1>4. CachedOK(hist', runid', cached[s], sdata[s], pos[s])
    <2> DEFINE v == [hist |-> hist, run |-> runid, off |-> moff, now |-> Now, net |-> TRUE,
                     k |-> NewClient, child |-> child, mine |-> FALSE]
               u == [hist |-> hist', run |-> runid', off |-> moff', now |-> Now', net |-> TRUE,
                     k |-> NewClient, child |-> child', mine |-> FALSE]
    <2>1. Now \in Point /\ Now' \in Point BY <1>1 DEF TypeInv, MasterTypes, Now, Point
    <2>2. IsView(v) /\ IsView(u) BY <1>1, <2>1, InitialTypes DEF IsView, TypeInv, MasterTypes
    <2>3. v.hist = hist /\ v.run = runid /\ u.hist = hist' /\ u.run = runid' OBVIOUS
    <2> HIDE DEF v, u
    <2>4. Older(v, u) BY <2>3 DEF Older, Onward
    <2>5. CachedOK(v.hist, v.run, cached[s], sdata[s], pos[s]) BY <1>1, <2>3 DEF SlaveAt
    <2>6. CachedOK(u.hist, u.run, cached[s], sdata[s], pos[s]) BY <2>2, <2>4, <2>5, KeptCached
    <2> QED BY <2>3, <2>6
  <1>5. sc[s] # NoConn => AtConn(View(sc[s])', chan'[sc[s]], rs[s], master[s], cached[s], init[s],
                                 sdata[s], pos[s])
    <2>1. ASSUME NEW d PROVE ViewN(d) = View(d)' BY ViewNIs
    <2> QED BY <1>3, <2>1 DEF AtNext, ViewN, View, Now
  <1> QED BY <1>4, <1>5 DEF SlaveAt, View, Now

(***************************************************************************)
(* Feeding the stream.                                                     *)
(***************************************************************************)

\* Arithmetic and sequences, without the rest.
LEMMA Cancel ==
    ASSUME NEW a \in Nat, NEW b \in Nat, NEW c \in Nat, NEW d \in Nat, a + (b + c) = d + c
    PROVE  a + b = d
  OBVIOUS


Joined(g, h, b) == g = h \o b
OneMoreThan(g, h, z) ==
    Len(g) = Len(h) + 1 /\ g[Len(h) + 1] = z /\ \A i \in 1..Len(h) : g[i] = h[i]

\* One element more.
LEMMA OneMore ==
    ASSUME NEW S, NEW h \in Seq(S), NEW b \in Seq(S), NEW z, Len(b) = 1, b[1] = z,
           NEW g, Joined(g, h, b)
    PROVE  g \in Seq(S) /\ OneMoreThan(g, h, z)
  <1> USE DEF Joined
  <1>1. /\ g \in Seq(S) /\ Len(g) = Len(h) + Len(b)
        /\ \A i \in 1..(Len(h) + Len(b)) : g[i] = IF i <= Len(h) THEN h[i] ELSE b[i - Len(h)]
    BY ConcatProperties
  <1>2. Len(h) \in Nat OBVIOUS
  <1>3. g[Len(h) + 1] = b[1]
    <2>1. Len(h) + 1 \in 1..(Len(h) + 1) /\ ~(Len(h) + 1 <= Len(h)) /\ (Len(h) + 1) - Len(h) = 1
      BY <1>2
    <2> QED BY <1>1, <2>1
  <1>4. \A i \in 1..Len(h) : g[i] = h[i]
    <2> TAKE i \in 1..Len(h)
    <2>1. i \in 1..(Len(h) + Len(b)) /\ i <= Len(h) BY <1>2
    <2> QED BY <1>1, <2>1
  <1> QED BY <1>1, <1>3, <1>4 DEF OneMoreThan

\* A buffer that continues rdb still does after the elements es.
LEMMA RdbFed ==
    ASSUME NEW v, NEW u, IsView(v), IsView(u), Older(v, u), u.run = v.run,
           Len(v.hist[v.run]) = v.off + 1,
           NEW es \in Seq(Reply), u.k.out = v.k.out \o es, u.off = v.off + Len(es),
           Follows(es, u.hist[u.run], v.off),
           \A st \in State : Compat(st, v.now) => Compat(Executed(st, es), u.now),
           NEW rdb \in Rdb, RdbOK(v, rdb)
    PROVE  RdbOK(u, rdb)
  <1> DEFINE a == v.k.out
             st == St(0, rdb.data)
             h == v.hist[v.run]
             g == u.hist[u.run]
  <1>1. a \in Seq(Reply) /\ Reply \subseteq Msg BY MakesMsg DEF IsView, Client
  <1>2. a \in Seq(Msg) /\ es \in Seq(Msg) BY <1>1, SeqMonotonic
  <1>3. st \in State BY LoadState DEF Rdb
  <1>4. Grows(h, g) /\ h \in Seq(Point) /\ g \in Seq(Point) BY DEF Older, IsView
  <1>5. /\ Compat(Executed(st, a), v.now)
        /\ rdb.snap \in 0..v.off /\ rdb.snap + Len(a) >= v.off
        /\ rdb.snap + Len(a) = v.off => Compat(st, h[rdb.snap + 1]) /\ Follows(a, h, rdb.snap)
    BY DEF RdbOK
  <1>6. /\ v.off \in Nat /\ u.off = v.off + Len(es) /\ Len(h) = v.off + 1
        /\ Follows(es, g, v.off) /\ u.k.out = a \o es
    BY DEF IsView
  <1> HIDE DEF a, st, h, g
  <1>7. Compat(Executed(st, a \o es), u.now)
    <2>1. Executed(st, a) \in State BY <1>2, <1>3, ExecutedType
    <2>2. Executed(st, a \o es) = Executed(Executed(st, a), es) BY <1>2, ExecutedConcat
    <2> QED BY <1>5, <2>1, <2>2
  <1>8. Len(a \o es) = Len(a) + Len(es) /\ Len(a) \in Nat /\ Len(es) \in Nat BY <1>2
  <1>9. rdb.snap \in 0..u.off /\ rdb.snap + Len(a \o es) >= u.off BY <1>5, <1>6, <1>8
  <1>10. ASSUME rdb.snap + Len(a \o es) = u.off
         PROVE  Compat(st, g[rdb.snap + 1]) /\ Follows(a \o es, g, rdb.snap)
    <2>8. rdb.snap + (Len(a) + Len(es)) = v.off + Len(es) BY <1>6, <1>8, <1>10
    <2>9. rdb.snap \in Nat BY <1>5
    <2>1. rdb.snap + Len(a) = v.off BY <1>6, <1>8, <2>8, <2>9, Cancel
    <2>2. Compat(st, h[rdb.snap + 1]) /\ Follows(a, h, rdb.snap) BY <1>5, <2>1
    <2>3. rdb.snap + 1 \in 1..Len(h) BY <1>5, <1>6
    <2>4. Compat(st, g[rdb.snap + 1]) BY <1>4, <2>2, <2>3, GrowsCompat
    <2>5. Len(h) \in Nat /\ Len(g) \in Nat BY <1>4
    <2>6. Follows(a, g, rdb.snap) BY <1>4, <1>8, <2>2, <2>5, GrowsFollows
    <2>7. Follows(a \o es, g, rdb.snap) BY <1>2, <1>6, <2>1, <2>6, FollowsConcat
    <2> QED BY <2>4, <2>7
  <1> QED BY <1>6, <1>7, <1>9, <1>10 DEF RdbOK, st, g

\* A slave that waits for its RDB.
LEMMA AwaitsKept ==
    ASSUME NEW v, NEW u, IsView(v), IsView(u), Older(v, u), u.net = v.net, u.run = v.run,
           u.k.state = v.k.state, u.mine = v.mine, u.mine => u.child = v.child,
           v.off <= u.off, u.off = v.off => u.k.out = v.k.out,
           v.mine => v.child.rdb.snap + 1 \in 1..Len(v.hist[v.run]),
           NEW i \in [run : Int, off : Int], Awaits(v, i)
    PROVE  Awaits(u, i)
  <1>1. i.off >= -1 BY DEF Awaits
  <1>2. ASSUME Live(u)
        PROVE  /\ u.k.state \in {"START", "END", "BULK"}
               /\ u.mine => ~u.child.wrote
               /\ i.off <= u.off /\ (i.off >= 0 => i.run = u.run)
               /\ u.k.state = "START" /\ i.off = u.off => u.k.out = << >>
    <2>1. Live(v) BY <1>2 DEF Live
    <2>2. /\ v.k.state \in {"START", "END", "BULK"}
          /\ v.mine => ~v.child.wrote
          /\ i.off <= v.off /\ (i.off >= 0 => i.run = v.run)
          /\ v.k.state = "START" /\ i.off = v.off => v.k.out = << >>
      BY <2>1 DEF Awaits
    <2>3. v.off \in Nat /\ u.off \in Nat /\ i.off \in Int BY DEF IsView
    <2>4. i.off = u.off => u.off = v.off BY <2>2, <2>3
    <2>5. i.off <= u.off BY <2>2, <2>3
    <2> QED BY <2>2, <2>4, <2>5
  <1>3. ASSUME u.net, u.mine, ~u.child.wrote, i.off = u.child.rdb.snap
        PROVE  /\ i.run = u.run
               /\ Compat(St(0, u.child.rdb.data), u.hist[u.run][u.child.rdb.snap + 1])
    <2> DEFINE h == v.hist[v.run]
               g == u.hist[u.run]
               n == v.child.rdb.snap + 1
    <2>1. i.run = v.run /\ Compat(St(0, v.child.rdb.data), h[n]) BY <1>3 DEF Awaits
    <2>2. Grows(h, g) /\ n \in 1..Len(h) BY <1>3 DEF Older, IsView
    <2> HIDE DEF h, g, n
    <2>3. Compat(St(0, v.child.rdb.data), g[n]) BY <2>1, <2>2, GrowsCompat
    <2> QED BY <1>3, <2>1, <2>3 DEF g, n
  <1> QED BY <1>1, <1>2, <1>3 DEF Awaits

\* The connection of a slave that is fed es, or only sel of it.
LEMMA FedView ==
    ASSUME NEW v, NEW u, IsView(v), IsView(u), Older(v, u), NEW ch, ClientOK(v, ch),
           Len(v.hist[v.run]) = v.off + 1, v.k.state # "NONE",
           u.net = v.net, u.run = v.run, u.mine = v.mine, v.child.type # "NONE" => u.child = v.child,
           u.k.state = v.k.state, u.k.rdb = v.k.rdb, u.k.wh => v.k.wh \/ v.k.state \in {"NONE", "ONLINE"},
           NEW es \in Seq(Reply), NEW sel \in Seq(Reply), es # << >> \/ sel = << >>,
           u.k.out = v.k.out \o (IF v.k.state = "START" THEN sel ELSE es),
           u.off = v.off + Len(es), Follows(es, u.hist[u.run], v.off),
           \A st \in State : Compat(st, v.now) => Compat(Executed(st, es), u.now),
           \A st \in State, x \in Data : Compat(st, [db |-> v.now.db, data |-> x]) =>
               Compat(Executed(st, sel), [db |-> u.now.db, data |-> x])
    PROVE  Kept(v, u) /\ ClientOK(u, ch)
  <1>1. v.k \in Client /\ v.k.out \in Seq(Reply) /\ Reply \subseteq Msg BY MakesMsg DEF IsView, Client
  <1>2. v.k.out \in Seq(Msg) /\ es \in Seq(Msg) /\ sel \in Seq(Msg) BY <1>1, SeqMonotonic
  <1>3. v.mine => /\ v.child.type = "SOCKET" /\ u.child = v.child
                  /\ v.child.rdb.snap + 1 \in 1..Len(v.hist[v.run]) /\ v.child.rdb.snap \in 0..v.off
    BY DEF ClientOK, IsView
  <1>4. v.off <= u.off /\ v.off \in Nat /\ Len(es) \in Nat BY DEF IsView
  <1>5. u.off = v.off => u.k.out = v.k.out
    <2> SUFFICES ASSUME u.off = v.off PROVE u.k.out = v.k.out OBVIOUS
    <2>1. Len(es) = 0 BY <1>4
    <2>2. es = << >> BY <2>1
    <2>3. sel = << >> BY <2>2
    <2>4. v.k.out \o << >> = v.k.out BY <1>1
    <2> QED BY <2>2, <2>3, <2>4
  <1>6. \A i \in [run : Int, off : Int] : Awaits(v, i) => Awaits(u, i)
    BY <1>3, <1>4, <1>5, AwaitsKept
  <1>7. v.k.state # "START" => KeepsExact(v, u) /\ KeepsCaught(v, u) BY LiveKept
  <1>8. Served(v) => Served(u) BY <1>3 DEF Served
  <1>9. Kept(v, u)
    <2>1. Served(v) => v.k.state # "START" BY DEF Served
    <2> QED BY <1>6, <1>7, <1>8, <2>1 DEF Kept
  <1>10. v.k.state = "START" => Waiting(u)
    <2> SUFFICES ASSUME v.k.state = "START", NEW x \in Data
                 PROVE  Compat(Executed(St(0, x), u.k.out), [db |-> u.now.db, data |-> x])
      BY DEF Waiting
    <2> DEFINE st == St(0, x)
               a == v.k.out
    <2>1. st \in State BY LoadState
    <2>2. Compat(Executed(st, a), [db |-> v.now.db, data |-> x]) BY DEF ClientOK, Waiting
    <2>3. u.k.out = a \o sel OBVIOUS
    <2>4. a \in Seq(Msg) BY <1>2
    <2> HIDE DEF st, a
    <2>5. Executed(st, a) \in State BY <2>1, <2>4, ExecutedType
    <2>6. Executed(st, a \o sel) = Executed(Executed(st, a), sel) BY <1>2, <2>4, ExecutedConcat
    <2>7. Compat(Executed(Executed(st, a), sel), [db |-> u.now.db, data |-> x]) BY <2>2, <2>5
    <2> QED BY <2>3, <2>6, <2>7 DEF st
  <1>11. v.k.state = "END" => u.child.type # "NONE" /\ RdbOK(u, u.child.rdb)
    <2> SUFFICES ASSUME v.k.state = "END" PROVE u.child.type # "NONE" /\ RdbOK(u, u.child.rdb)
      OBVIOUS
    <2>1. v.child.type # "NONE" /\ RdbOK(v, v.child.rdb) BY DEF ClientOK
    <2>2. v.child.rdb \in Rdb BY DEF IsView, ChildType
    <2>3. u.k.out = v.k.out \o es OBVIOUS
    <2>4. RdbOK(u, v.child.rdb) BY <2>1, <2>2, <2>3, RdbFed
    <2> QED BY <2>1, <2>4
  <1>12. v.k.state = "BULK" => RdbOK(u, u.k.rdb)
    <2> SUFFICES ASSUME v.k.state = "BULK" PROVE RdbOK(u, v.k.rdb) OBVIOUS
    <2>1. RdbOK(v, v.k.rdb) BY DEF ClientOK
    <2>2. v.k.rdb \in Rdb BY DEF IsView, Client
    <2>3. u.k.out = v.k.out \o es OBVIOUS
    <2> QED BY <2>1, <2>2, <2>3, RdbFed
  <1>13. u.mine => u.child.rdb.snap \in 0..u.off BY <1>3, <1>4
  <1>14. ClientOK(u, ch) BY <1>3, <1>10, <1>11, <1>12, <1>13 DEF ClientOK
  <1> QED BY <1>9, <1>14

\* A connection without a slave: the master goes on without it.
LEMMA IdleView ==
    ASSUME NEW v, NEW u, IsView(v), IsView(u), Older(v, u), NEW ch, ClientOK(v, ch),
           Len(v.hist[v.run]) = v.off + 1, v.k.state = "NONE", u.k = v.k,
           u.net = v.net, u.run = v.run, u.mine = v.mine, v.child.type # "NONE" => u.child = v.child,
           v.off <= u.off
    PROVE  Kept(v, u) /\ ClientOK(u, ch)
  <1>1. v.mine => /\ v.child.type = "SOCKET" /\ u.child = v.child
                  /\ v.child.rdb.snap + 1 \in 1..Len(v.hist[v.run]) /\ v.child.rdb.snap \in 0..v.off
    BY DEF ClientOK, IsView
  <1>2. ~Live(u) BY DEF Live
  <1>3. Served(v) => Served(u) BY <1>1 DEF Served
  <1>4. Kept(v, u) BY <1>1, <1>2, <1>3, DeadKept
  <1>5. u.mine => u.child.rdb.snap \in 0..u.off BY <1>1 DEF IsView
  <1>6. ClientOK(u, ch) BY <1>1, <1>5 DEF ClientOK
  <1> QED BY <1>4, <1>6

\* One command fed, as the readers of the stream see it.
LEMMA ElsExec ==
    ASSUME NEW d \in Dbs \cup {-1}, NEW e \in Elem, NEW data \in Data, NEW x \in Data,
           \/ e = Ping /\ data = x
           \/ \E n \in Nat : e = Cmd(n) /\ d \in Dbs /\ data = Append(x, <<n, d>>)
    PROVE  StepOK([db |-> d, data |-> x], e, [db |-> d, data |-> data])
  <1> SUFFICES ASSUME NEW b \in Dbs, Compat(St(b, x), [db |-> d, data |-> x])
               PROVE  Compat(Exec(St(b, x), e), [db |-> d, data |-> data])
    BY DEF StepOK
  <1>1. d \in {-1, b} BY DEF Compat, St
  <1>2. CASE e = Ping /\ data = x
    <2>1. e[1] = "ping" BY <1>2 DEF Ping
    <2>2. Exec(St(b, x), e) = St(b, x) BY <2>1 DEF Exec
    <2> QED BY <1>2, <2>2
  <1>3. CASE \E n \in Nat : e = Cmd(n) /\ d \in Dbs /\ data = Append(x, <<n, d>>)
    <2>1. PICK n \in Nat : e = Cmd(n) /\ d \in Dbs /\ data = Append(x, <<n, d>>) BY <1>3
    <2>2. d = b BY <1>1, <2>1, InitialTypes
    <2>3. e[1] = "cmd" /\ e[2] = n BY <2>1 DEF Cmd
    <2>4. Exec(St(b, x), e) = [St(b, x) EXCEPT !.data = Append(@, <<n, St(b, x).db>>)]
      BY <2>3 DEF Exec
    <2>5. Exec(St(b, x), e).data = data /\ Exec(St(b, x), e).db = d BY <2>1, <2>2, <2>4 DEF St
    <2> QED BY <2>5 DEF Compat
  <1> QED BY <1>2, <1>3

\* A SELECT takes every reader to its database.
LEMMA SelExec ==
    ASSUME NEW g, NEW d \in Dbs, NEW x, g.data = x
    PROVE  StepOK(g, Sel(d), [db |-> d, data |-> x])
  <1> SUFFICES ASSUME NEW b \in Dbs
               PROVE  Compat(Exec(St(b, g.data), Sel(d)), [db |-> d, data |-> x])
    BY DEF StepOK
  <1>1. Sel(d)[1] = "sel" /\ Sel(d)[2] = d BY DEF Sel
  <1>2. Exec(St(b, x), Sel(d)) = [St(b, x) EXCEPT !.db = d] BY <1>1 DEF Exec
  <1>3. Exec(St(b, x), Sel(d)).db = d /\ Exec(St(b, x), Sel(d)).data = x BY <1>2 DEF St
  <1> QED BY <1>3 DEF Compat

\* A reader that waits only selects.
LEMMA SelOfExec ==
    ASSUME NEW d, d = seldb \/ d \in Dbs, NEW st \in State, NEW x \in Data,
           Compat(st, [db |-> seldb, data |-> x])
    PROVE  Compat(Executed(st, SelOf(d)), [db |-> d, data |-> x])
  <1>1. CASE seldb = d
    <2>1. SelOf(d) = << >> BY <1>1 DEF SelOf
    <2>2. Executed(st, << >>) = st BY ExecutedEmpty
    <2> QED BY <1>1, <2>1, <2>2
  <1>2. CASE seldb # d
    <2>1. SelOf(d) = <<Sel(d)>> /\ d \in Dbs BY <1>2 DEF SelOf
    <2>2. Executed(st, <<Sel(d)>>) = Exec(st, Sel(d)) BY ExecutedOne
    <2>3. StepOK([db |-> seldb, data |-> x], Sel(d), [db |-> d, data |-> x]) BY <2>1, SelExec
    <2>4. Compat(Exec(st, Sel(d)), [db |-> d, data |-> x]) BY <2>3, StepIs
    <2> QED BY <2>1, <2>2, <2>4
  <1> QED BY <1>1, <1>2

\* The history of the run after a command was fed.
HistFed(d, data) ==
    hist[runid] \o [i \in 1..Len(SelOf(d)) |-> [db |-> d, data |-> mdata]]
                \o << [db |-> d, data |-> data] >>

\* The elements follow it.
LEMMA FedHist ==
    ASSUME TypeInv, HistInv, bl.on, NEW d \in Dbs \cup {-1}, NEW e \in Elem, NEW data \in Data,
           d = seldb \/ d \in Dbs,
           \/ e = Ping /\ data = mdata
           \/ \E n \in Nat : e = Cmd(n) /\ d \in Dbs /\ data = Append(mdata, <<n, d>>),
           NEW g, g = HistFed(d, data)
    PROVE  /\ g \in Seq(Point) /\ Grows(hist[runid], g)
           /\ Len(g) = moff + Len(ElsOf(d, e)) + 1
           /\ g[Len(g)] = [db |-> d, data |-> data]
           /\ g[moff + 1] = Now
           /\ Follows(ElsOf(d, e), g, moff)
  <1> DEFINE h == hist[runid]
             a == [i \in 1..Len(SelOf(d)) |-> [db |-> d, data |-> mdata]]
             z == [db |-> d, data |-> data]
             y == [db |-> d, data |-> mdata]
             b == <<z>>
  <1>1. runid \in Nat /\ moff \in Nat /\ mdata \in Data /\ hist \in [0..runid -> Seq(Point)]
    BY DEF TypeInv, MasterTypes
  <1>2. h \in Seq(Point) /\ Len(h) = moff + 1 /\ h[moff + 1] = Now BY <1>1 DEF HistInv
  <1>3. z \in Point /\ y \in Point BY <1>1 DEF Point
  <1>4. b \in Seq(Point) /\ Len(b) = 1 /\ b[1] = z BY <1>3
  <1>5. Now.data = mdata /\ Now.db = seldb BY DEF Now
  <1>6. StepOK(y, e, z) BY <1>1, ElsExec
  <1>7. CASE seldb = d
    <2>1. SelOf(d) = << >> BY <1>7 DEF SelOf
    <2>2. Len(SelOf(d)) = 0 BY <2>1
    <2>3. a = << >> BY <2>2
    <2>4. ElsOf(d, e) = <<e>> BY <2>1 DEF ElsOf
    <2> DEFINE f == <<e>>
    <2>5. f[1] = e /\ Len(f) = 1 OBVIOUS
    <2>6. h \o << >> = h BY <1>2
    <2>14. g = h \o a \o b BY DEF HistFed
    <2>7. g = h \o b BY <2>3, <2>6, <2>14
    <2> HIDE DEF a, h, b, f, z, y
    <2>8. g \in Seq(Point) /\ Len(g) = Len(h) + 1 /\ g[Len(h) + 1] = z /\ \A i \in 1..Len(h) : g[i] = h[i]
      <3>1. Joined(g, h, b) BY <2>7 DEF Joined
      <3>2. g \in Seq(Point) /\ OneMoreThan(g, h, z) BY <1>2, <1>4, <3>1, OneMore
      <3> QED BY <3>2 DEF OneMoreThan
    <2>9. Grows(h, g) BY <1>2, <1>4, <2>7, GrowsSame
    <2>10. g[moff + 1] = Now
      <3>1. moff + 1 \in 1..Len(h) BY <1>1, <1>2
      <3> QED BY <1>2, <2>8, <3>1
    <2>11. Now = y BY <1>7 DEF Now, y
    <2>12. Follows(f, g, moff)
      <3>1. moff + Len(f) < Len(g) /\ Len(f) = 1 BY <1>1, <1>2, <2>5, <2>8
      <3>2. g[moff + 1 + 1] = z BY <1>1, <1>2, <2>8
      <3>3. StepOK(g[moff + 1], f[1], g[moff + 1 + 1]) BY <1>6, <2>5, <2>10, <2>11, <3>2
      <3>4. ASSUME NEW i \in 1..Len(f) PROVE StepOK(g[moff + i], f[i], g[moff + i + 1])
        <4>1. i = 1 BY <3>1
        <4> QED BY <3>3, <4>1
      <3> QED BY <1>1, <3>1, <3>4 DEF Follows
    <2>13. Len(g) = moff + 1 + 1 /\ g[Len(g)] = z BY <1>1, <1>2, <2>8
    <2> QED BY <2>4, <2>5, <2>8, <2>9, <2>10, <2>12, <2>13 DEF h, f, z
  <1>8. CASE seldb # d
    <2>1. SelOf(d) = <<Sel(d)>> /\ d \in Dbs BY <1>8 DEF SelOf
    <2>2. Len(SelOf(d)) = 1 BY <2>1
    <2>3. a = <<y>> BY <2>2
    <2> DEFINE f == ElsOf(d, e)
    <2>5. f[1] = Sel(d) /\ f[2] = e /\ Len(f) = 2
      <3> DEFINE w == SelOf(d)
      <3>1. w \in Seq(Elem) /\ Len(w) = 1 /\ w[1] = Sel(d) BY <2>1, MakesMsg
      <3>2. w \o <<e>> = Append(w, e) BY <3>1, AppendIsConcat
      <3>3. Joined(f, w, <<e>>) BY <3>2 DEF w, ElsOf, Joined
      <3> DEFINE b0 == <<e>>
      <3>4. b0 \in Seq(Elem) /\ Len(b0) = 1 /\ b0[1] = e OBVIOUS
      <3> HIDE DEF w, f, b0
      <3>5. f \in Seq(Elem) /\ OneMoreThan(f, w, e)
        <4>1. Joined(f, w, b0) BY <3>3 DEF b0
        <4> QED BY <3>1, <3>4, <4>1, OneMore
      <3>6. Len(w) + 1 = 2 /\ 1 \in 1..Len(w) BY <3>1
      <3>7. Len(f) = Len(w) + 1 /\ f[Len(w) + 1] = e /\ \A i \in 1..Len(w) : f[i] = w[i]
        BY <3>5 DEF OneMoreThan
      <3> QED BY <3>1, <3>6, <3>7
    <2> HIDE DEF a, h, b, f, z
    <2>6. a \in Seq(Point) /\ Len(a) = 1 /\ a[1] = y BY <1>3, <2>3
    <2> HIDE DEF y
    <2>7. g = h \o a \o b BY DEF h, a, b, z, HistFed
    <2>14. g = h \o (a \o b)
      <3>1. (h \o a) \o b = h \o (a \o b) BY <1>2, <1>4, <2>6, ConcatAssociative
      <3> QED BY <2>7, <3>1
    <2>15. a \o b \in Seq(Point) BY <1>4, <2>6
    <2>8. /\ g \in Seq(Point) /\ Len(g) = Len(h) + 2 /\ g[Len(h) + 1] = y /\ g[Len(h) + 2] = z
          /\ \A i \in 1..Len(h) : g[i] = h[i]
      <3> DEFINE f0 == h \o a
      <3>5. Joined(f0, h, a) BY DEF Joined
      <3> HIDE DEF f0
      <3>6. f0 \in Seq(Point) /\ OneMoreThan(f0, h, y) BY <1>2, <2>6, <3>5, OneMore
      <3>1. /\ f0 \in Seq(Point) /\ Len(f0) = Len(h) + 1 /\ f0[Len(h) + 1] = y
            /\ \A i \in 1..Len(h) : f0[i] = h[i]
        BY <3>6 DEF OneMoreThan
      <3>2. Joined(g, f0, b) BY <2>7 DEF f0, Joined
      <3>7. g \in Seq(Point) /\ OneMoreThan(g, f0, z) BY <1>4, <3>1, <3>2, OneMore
      <3>3. /\ g \in Seq(Point) /\ Len(g) = Len(f0) + 1 /\ g[Len(f0) + 1] = z
            /\ \A i \in 1..Len(f0) : g[i] = f0[i]
        BY <3>7 DEF OneMoreThan
      <3>4. Len(h) \in Nat /\ Len(h) + 1 + 1 = Len(h) + 2 /\ Len(h) + 1 \in 1..Len(f0)
            /\ \A i \in 1..Len(h) : i \in 1..Len(f0)
        <4>1. Len(h) \in Nat BY <1>2
        <4> QED BY <3>1, <4>1
      <3> QED BY <3>1, <3>3, <3>4
    <2>9. Grows(h, g) BY <1>2, <2>14, <2>15, GrowsSame
    <2>10. g[moff + 1] = Now
      <3>1. moff + 1 \in 1..Len(h) BY <1>1, <1>2
      <3> QED BY <1>2, <2>8, <3>1
    <2>11. StepOK(Now, Sel(d), y) BY <1>5, <2>1, SelExec DEF y
    <2>12. Follows(f, g, moff)
      <3>1. moff + Len(f) < Len(g) /\ Len(f) = 2 BY <1>1, <1>2, <2>5, <2>8
      <3>6. moff + 1 + 1 = Len(h) + 1 /\ moff + 2 = Len(h) + 1 /\ moff + 2 + 1 = Len(h) + 2 BY <1>1, <1>2
      <3>2. g[moff + 1 + 1] = y /\ g[moff + 2] = y /\ g[moff + 2 + 1] = z BY <2>8, <3>6
      <3>3. StepOK(g[moff + 1], f[1], g[moff + 1 + 1]) BY <2>5, <2>10, <2>11, <3>2
      <3>5. StepOK(g[moff + 2], f[2], g[moff + 2 + 1]) BY <1>6, <2>5, <3>2
      <3>4. ASSUME NEW i \in 1..Len(f) PROVE StepOK(g[moff + i], f[i], g[moff + i + 1])
        <4>1. i = 1 \/ i = 2 BY <3>1
        <4>2. CASE i = 1 BY <3>3, <4>2
        <4>3. CASE i = 2 BY <3>5, <4>3
        <4> QED BY <4>1, <4>2, <4>3
      <3> QED BY <1>1, <3>1, <3>4 DEF Follows
    <2>13. Len(g) = moff + 2 + 1 /\ g[Len(g)] = z BY <1>1, <1>2, <2>8
    <2> QED BY <2>5, <2>8, <2>9, <2>10, <2>12, <2>13 DEF h, f, z
  <1> QED BY <1>7, <1>8

\* The window of the backlog is still the end of the history.
LEMMA FedWindow ==
    ASSUME NEW win \in Seq(Elem), NEW els \in Seq(Elem), NEW g \in Seq(Point), NEW n \in Nat,
           Len(win) <= n, Follows(win, g, n - Len(win)), Follows(els, g, n)
    PROVE  Follows(Window(win, els), g, n + Len(els) - Len(Window(win, els)))
  <1> DEFINE w == win \o els
             a == 1 + (IF Len(w) > BacklogSize THEN Len(w) - BacklogSize ELSE 0)
             o == n - Len(win)
  <1>1. Elem \subseteq Msg BY MakesMsg
  <1>2. win \in Seq(Msg) /\ els \in Seq(Msg) BY <1>1, SeqMonotonic
  <1>3. w \in Seq(Elem) /\ Len(w) = Len(win) + Len(els) /\ Len(w) \in Nat /\ Len(win) \in Nat
        /\ Len(els) \in Nat
    OBVIOUS
  <1>4. a \in 1..(Len(w) + 1) BY <1>3, ReplAssumption
  <1>5. Window(win, els) = SubSeq(w, a, Len(w)) BY DEF Window
  <1>6. o + Len(win) = n /\ o \in Nat BY <1>3
  <1> HIDE DEF a, o
  <1>7. Follows(els, g, o + Len(win)) BY <1>6
  <1>8. Follows(win, g, o) BY DEF o
  <1>9. Follows(w, g, o) BY <1>2, <1>7, <1>8, FollowsConcat
  <1> HIDE DEF w
  <1>10. Len(g) \in Nat OBVIOUS
  <1>11. Follows(SubSeq(w, a, Len(w)), g, o + a - 1) /\ Len(SubSeq(w, a, Len(w))) = Len(w) - a + 1
    BY <1>3, <1>4, <1>9, <1>10, FollowsSub
  <1>12. o + a - 1 = n + Len(els) - (Len(w) - a + 1)
    <2>1. ASSUME NEW b \in Nat, NEW x \in Nat, NEW y \in Nat, NEW z \in Nat, NEW m \in Nat,
                 m = x + y, b + x = n
          PROVE  b + z - 1 = n + y - (m - z + 1)
      BY <2>1
    <2>2. a \in Nat BY <1>3, <1>4
    <2> QED BY <1>3, <1>6, <2>1, <2>2
  <1> QED BY <1>5, <1>11, <1>12

\* What the steps of the following lemmas keep, beside the types.
Rest == HistInv /\ Clients /\ \A s \in Slaves : SlaveAt(s)

\* What ExactInv says of connection c.
LEMMA ConnIs ==
    ASSUME ExactInv, NEW c \in Conns
    PROVE  /\ TypeInv /\ HistInv /\ IsView(View(c)) /\ ClientOK(View(c), chan[c])
           /\ Len(View(c).hist[View(c).run]) = View(c).off + 1
  BY ViewIs, ViewTypes DEF ExactInv, HistInv, Clients

\* The clients, after a step.
LEMMA ClientsNext ==
    ASSUME \A c \in Conns : ClientOK(ViewN(c), chan'[c])
    PROVE  Clients'
  BY DEF Clients, ViewN, View, Now

\* Only the histories matter to Older.
LEMMA OnwardOlder == ASSUME NEW c, Onward PROVE Older(View(c), ViewN(c))
  BY ViewIs, ViewNIs DEF Onward, Older

\* The histories stay.
LEMMA OnwardSame == ASSUME TypeInv, UNCHANGED <<runid, hist>> PROVE Onward
  <1>1. runid \in Nat /\ \A r \in 0..runid : hist[r] \in Seq(Point) BY DEF TypeInv, MasterTypes
  <1>2. << >> \in Seq(Point) OBVIOUS
  <1> QED BY <1>1, <1>2, GrowsSame DEF Onward

\* The history of the current run grows.
LEMMA OnwardGrows ==
    ASSUME TypeInv, runid' = runid, NEW g, hist' = [hist EXCEPT ![runid] = g], Grows(hist[runid], g)
    PROVE  Onward /\ hist'[runid] = g
  <1>1. runid \in Nat /\ hist \in [0..runid -> Seq(Point)] BY DEF TypeInv, MasterTypes
  <1>2. << >> \in Seq(Point) OBVIOUS
  <1>3. ASSUME NEW r \in 0..runid PROVE Grows(hist[r], hist'[r])
    <2>1. CASE r = runid
      <3>1. hist'[r] = g BY <1>1, <2>1
      <3> QED BY <2>1, <3>1
    <2>2. CASE r # runid
      <3>1. hist'[r] = hist[r] BY <1>1, <2>2
      <3>2. hist[r] \in Seq(Point) BY <1>1
      <3>3. Grows(hist[r], hist[r]) BY <1>2, <3>2, GrowsSame
      <3> QED BY <3>1, <3>3
    <2> QED BY <2>1, <2>2
  <1> QED BY <1>1, <1>3 DEF Onward

\* The channel of a connection stays.
LEMMA ChanSame ==
    ASSUME NEW c, chan'[c] = chan[c], chan[c] \in Channel, cl'[c].state = cl[c].state
    PROVE  KeptChan(View(c), chan[c], ViewN(c), chan'[c])
  BY ViewIs, ViewNIs DEF KeptChan

\* j is client k after es was added to its buffer.
Added(j, k, es) ==
    /\ j.state = k.state /\ j.out = k.out \o es /\ j.rdb = k.rdb
    /\ j.wh => k.wh \/ k.state \in {"NONE", "ONLINE"}

\* addReply.
LEMMA AddedIs ==
    ASSUME NEW k \in Client, NEW es \in Seq(Reply)
    PROVE  Added(AddReply(k, es), k, es)
  BY AddReplyIs DEF Added

\* A write or a PING that somebody is to be told.
LEMMA ExactFedAll ==
    ASSUME ExactInv, TypeInv', bl.on, NEW d \in Dbs \cup {-1}, NEW e \in Elem, NEW data \in Data,
           Fed(d, e, data), FedAll(d, e, data)
    PROVE  Rest'
  <1> DEFINE g == HistFed(d, data)
             sel == SelOf(d)
             els == ElsOf(d, e)
  <1>1. TypeInv /\ HistInv BY DEF ExactInv
  <1>2. /\ d = seldb \/ d \in Dbs
        /\ \/ e = Ping /\ data = mdata
           \/ \E n \in Nat : e = Cmd(n) /\ d \in Dbs /\ data = Append(mdata, <<n, d>>)
        /\ mdata' = data
        /\ UNCHANGED <<runid, slaves, child, chan, rs, sc, master, cached, init, sdata, pos>>
    BY DEF Fed, svars
  <1>3. /\ g \in Seq(Point) /\ Grows(hist[runid], g) /\ Len(g) = moff + Len(els) + 1
        /\ g[Len(g)] = [db |-> d, data |-> data] /\ g[moff + 1] = Now
        /\ Follows(els, g, moff)
    BY <1>1, <1>2, FedHist
  <1>4. /\ sel \in Seq(Reply) /\ els \in Seq(Reply) /\ els \in Seq(Elem)
        /\ Len(els) \in Nat /\ els # << >>
    <2>1. /\ sel \in Seq(Reply) /\ els \in Seq(Reply) /\ els \in Seq(Elem)
          /\ Len(sel) \in {0, 1} /\ Len(els) = Len(sel) + 1
      BY <1>2, FedElements
    <2> HIDE DEF sel, els
    <2>2. els # << >> BY <2>1
    <2> QED BY <2>1, <2>2
  <1>5. /\ seldb' = d /\ moff' = moff + Len(els)
        /\ bl' = [bl EXCEPT !.win = Window(bl.win, els)]
        /\ cl' = [c \in Conns |->
                   IF c \notin Range(slaves) THEN cl[c]
                   ELSE AddReply(cl[c], SlaveShare(cl[c], sel, els))]
        /\ hist' = [hist EXCEPT ![runid] = g]
    BY <1>1 DEF FedAll, HistFed, TypeInv, MasterTypes
  <1>6. Now' = [db |-> d, data |-> data] BY <1>2, <1>5 DEF Now
  <1>7. \A st \in State : Compat(st, Now) => Compat(Executed(st, els), Now')
    <2> SUFFICES ASSUME NEW st \in State, Compat(st, Now) PROVE Compat(Executed(st, els), Now')
      OBVIOUS
    <2>1. els \in Seq(Msg) BY <1>4, MakesMsg, SeqMonotonic
    <2> HIDE DEF els, g
    <2>2. Compat(Executed(st, els), g[moff + Len(els) + 1]) BY <1>3, <2>1, FollowsExec
    <2> QED BY <1>3, <1>6, <2>2
  <1>8. \A st \in State, x \in Data : Compat(st, [db |-> seldb, data |-> x]) =>
            Compat(Executed(st, sel), [db |-> seldb', data |-> x])
    BY <1>2, <1>5, SelOfExec
  <1> HIDE DEF g, sel, els
  <1>9. Onward /\ hist'[runid] = g BY <1>1, <1>2, <1>3, <1>5, OnwardGrows
  <1>10. HistInv'
    <2>1. bl \in [on : BOOLEAN, win : Seq(Elem)] /\ moff \in Nat BY <1>1 DEF TypeInv, MasterTypes
    <2>2. bl'.on = bl.on /\ bl'.win = Window(bl.win, els) BY <1>5, <2>1
    <2>3. Follows(bl.win, hist[runid], moff - Len(bl.win)) BY <1>1 DEF HistInv
    <2>4. Len(bl.win) <= moff /\ bl.win \in Seq(Elem) BY <2>1, <2>3 DEF Follows
    <2>5. hist[runid] \in Seq(Point) BY <1>1 DEF TypeInv, MasterTypes
    <2>6. Len(hist[runid]) \in Nat /\ Len(g) \in Nat /\ Len(bl.win) \in Nat BY <1>3, <2>4, <2>5
    <2>7. Follows(bl.win, g, moff - Len(bl.win)) BY <1>3, <2>3, <2>6, GrowsFollows
    <2>8. Follows(Window(bl.win, els), g, moff + Len(els) - Len(Window(bl.win, els)))
      BY <1>3, <1>4, <2>1, <2>4, <2>7, FedWindow
    <2>9. Len(g) = moff' + 1 /\ g[moff' + 1] = Now' BY <1>3, <1>5, <1>6
    <2>10. runid' = runid /\ moff' = moff + Len(els) /\ hist'[runid'] = g BY <1>2, <1>5, <1>9
    <2>11. Follows(bl'.win, hist'[runid'], moff' - Len(bl'.win))
      <3> DEFINE w == Window(bl.win, els)
      <3>1. Follows(w, g, moff + Len(els) - Len(w)) BY <2>8
      <3>2. bl'.win = w BY <2>2
      <3> HIDE DEF w
      <3> DEFINE o == moff + Len(els) - Len(w)
      <3>5. moff' = moff + Len(els) BY <2>10
      <3>6. moff \in Nat /\ Len(els) \in Nat BY <1>4, <2>1
      <3>7. Len(w) \in Nat
        <4>1. w \in Seq(Elem) BY <1>4, <2>1, WindowIs DEF w
        <4> QED BY <4>1
      <3>3. moff' - Len(bl'.win) = o BY <3>2, <3>5, <3>6, <3>7
      <3>4. Follows(w, g, o) BY <3>1
      <3> HIDE DEF o
      <3> QED BY <2>10, <3>2, <3>3, <3>4
    <2>12. Len(hist'[runid']) = moff' + 1 /\ hist'[runid'][moff' + 1] = Now' /\ bl'.on
      BY <2>2, <2>9, <2>10
    <2> QED BY <2>11, <2>12 DEF HistInv
  <1>11. ASSUME NEW c \in Conns
         PROVE  Kept(View(c), ViewN(c)) /\ ClientOK(ViewN(c), chan[c]) /\ cl'[c].state = cl[c].state
    <2> DEFINE v == View(c)
               u == ViewN(c)
    <2>1. IsView(v) /\ IsView(u) /\ ClientOK(v, chan[c]) /\ Len(v.hist[v.run]) = v.off + 1
      BY ConnIs, ViewTypes
    <2>2. Older(v, u) BY <1>9, OnwardOlder
    <2>3. /\ v.run = runid /\ v.off = moff /\ v.now = Now /\ v.now.db = seldb /\ v.net = chan[c].net
          /\ v.k = cl[c] /\ v.child = child /\ v.mine = (c \in child.ids)
      BY ViewIs
    <2>4. /\ u.run = runid' /\ u.off = moff' /\ u.now = Now' /\ u.now.db = seldb' /\ u.net = chan'[c].net
          /\ u.k = cl'[c] /\ u.child = child' /\ u.mine = (c \in child'.ids) /\ u.hist = hist'
      BY ViewNIs
    <2>5. u.net = v.net /\ u.run = v.run /\ u.mine = v.mine /\ u.child = v.child /\ u.off = v.off + Len(els)
      BY <1>2, <1>5, <2>3, <2>4
    <2>6. Follows(els, u.hist[u.run], v.off) BY <1>2, <1>3, <1>9, <2>3, <2>4
    <2> HIDE DEF v, u
    <2>7. CASE cl[c].state = "NONE"
      <3>1. c \notin Range(slaves) BY <1>1, <2>7 DEF TypeInv, ClientTypes
      <3>2. cl'[c] = cl[c] BY <1>5, <3>1
      <3>3. v.off <= u.off BY <1>4, <2>1, <2>5 DEF IsView
      <3>4. Kept(v, u) /\ ClientOK(u, chan[c])
        BY <2>1, <2>2, <2>3, <2>4, <2>5, <2>7, <3>2, <3>3, IdleView
      <3> QED BY <3>2, <3>4 DEF v, u
    <2>8. CASE cl[c].state # "NONE"
      <3> DEFINE es == SlaveShare(cl[c], sel, els)
      <3>1. c \in Range(slaves) BY <1>1, <2>8 DEF TypeInv, ClientTypes
      <3>2. cl'[c] = AddReply(cl[c], es) BY <1>5, <3>1
      <3>3. cl[c] \in Client BY <1>1 DEF TypeInv, ClientTypes
      <3>4. es = (IF cl[c].state = "START" THEN sel ELSE els) BY DEF SlaveShare
      <3>5. es \in Seq(Reply) BY <1>4, <3>4
      <3> HIDE DEF es
      <3>6. /\ cl'[c].state = cl[c].state /\ cl'[c].out = cl[c].out \o es /\ cl'[c].rdb = cl[c].rdb
            /\ cl'[c].wh => cl[c].wh \/ cl[c].state \in {"NONE", "ONLINE"}
        <4>1. Added(AddReply(cl[c], es), cl[c], es) BY <3>3, <3>5, AddedIs
        <4> QED BY <3>2, <4>1 DEF Added
      <3>7. /\ u.k.state = v.k.state /\ u.k.out = v.k.out \o (IF v.k.state = "START" THEN sel ELSE els)
            /\ u.k.rdb = v.k.rdb /\ (u.k.wh => v.k.wh \/ v.k.state \in {"NONE", "ONLINE"})
            /\ v.k.state # "NONE"
        BY <2>3, <2>4, <2>8, <3>4, <3>6
      <3>8. \A st \in State : Compat(st, v.now) => Compat(Executed(st, els), u.now)
        BY <1>7, <2>3, <2>4
      <3>9. \A st \in State, x \in Data : Compat(st, [db |-> v.now.db, data |-> x]) =>
               Compat(Executed(st, sel), [db |-> u.now.db, data |-> x])
        BY <1>8, <2>3, <2>4
      <3>10. Kept(v, u) /\ ClientOK(u, chan[c])
        BY <1>4, <2>1, <2>2, <2>5, <2>6, <3>7, <3>8, <3>9, FedView
      <3> QED BY <3>6, <3>10 DEF v, u
    <2> QED BY <2>7, <2>8
  <1>12. Clients' BY <1>2, <1>11, ClientsNext
  <1>13. \A c \in Conns : Unnoticed(c)
    <2> TAKE c \in Conns
    <2>1. chan[c] \in Channel BY <1>1 DEF TypeInv, ChanTypes
    <2>2. KeptChan(View(c), chan[c], ViewN(c), chan'[c]) BY <1>2, <1>11, <2>1, ChanSame
    <2> QED BY <1>11, <2>2 DEF Unnoticed
  <1>14. \A s \in Slaves : SlaveAt(s)' BY <1>2, <1>9, <1>13, SlavesKept
  <1> QED BY <1>10, <1>12, <1>14 DEF Rest

\* A write nobody is told of: there is no backlog and no slave.
LEMMA ExactWrite ==
    ASSUME ExactInv, TypeInv', ~bl.on, slaves = << >>,
           UNCHANGED <<seldb, moff, bl, cl, hist, runid, slaves, child, chan, rs, sc, master,
                       cached, init, sdata, pos>>
    PROVE  Rest'
  <1>1. TypeInv /\ HistInv BY DEF ExactInv
  <1>2. Onward BY <1>1, OnwardSame
  <1>3. HistInv' BY <1>1 DEF HistInv
  <1>4. ASSUME NEW c \in Conns
        PROVE  Kept(View(c), ViewN(c)) /\ ClientOK(ViewN(c), chan[c])
    <2> DEFINE v == View(c)
               u == ViewN(c)
    <2>1. IsView(v) /\ IsView(u) /\ ClientOK(v, chan[c]) /\ Len(v.hist[v.run]) = v.off + 1
      BY ConnIs, ViewTypes
    <2>2. Older(v, u) BY <1>2, OnwardOlder
    <2>3. /\ v.run = runid /\ v.off = moff /\ v.net = chan[c].net
          /\ v.k = cl[c] /\ v.child = child /\ v.mine = (c \in child.ids)
      BY ViewIs
    <2>4. /\ u.run = runid' /\ u.off = moff' /\ u.net = chan'[c].net
          /\ u.k = cl'[c] /\ u.child = child' /\ u.mine = (c \in child'.ids)
      BY ViewNIs
    <2>5. cl[c].state = "NONE" BY <1>1 DEF TypeInv, ClientTypes, Range
    <2> HIDE DEF v, u
    <2>6. v.off <= u.off BY <2>1, <2>3, <2>4 DEF IsView
    <2>7. u.net = v.net /\ u.run = v.run /\ u.mine = v.mine /\ u.child = v.child /\ u.k = v.k
          /\ v.k.state = "NONE"
      BY <2>3, <2>4, <2>5
    <2>8. Kept(v, u) /\ ClientOK(u, chan[c]) BY <2>1, <2>2, <2>6, <2>7, IdleView
    <2> QED BY <2>8 DEF v, u
  <1>5. Clients' BY <1>4, ClientsNext
  <1>6. \A c \in Conns : Unnoticed(c)
    <2> TAKE c \in Conns
    <2>1. chan[c] \in Channel BY <1>1 DEF TypeInv, ChanTypes
    <2>2. KeptChan(View(c), chan[c], ViewN(c), chan'[c]) BY <2>1, ChanSame
    <2> QED BY <1>4, <2>2 DEF Unnoticed
  <1>7. \A s \in Slaves : SlaveAt(s)' BY <1>2, <1>6, SlavesKept
  <1> QED BY <1>3, <1>5, <1>7 DEF Rest

\* Writes and PINGs.
LEMMA ExactFeed ==
    ASSUME ExactInv, TypeInv', (\E d \in Dbs : Write(d)) \/ FeedPing
    PROVE  Rest'
  <1>1. TypeInv BY DEF ExactInv
  <1>2. PICK d \in Dbs \cup {-1}, e \in Elem, data \in Data : Fed(d, e, data)
    BY <1>1, FedStep DEF TypeInv
  <1>3. replicationFeedSlaves(d, e, data) BY <1>2 DEF Fed
  <1>4. CASE ~bl.on /\ slaves = << >>
    <2>1. UNCHANGED <<seldb, moff, bl, cl, hist>> BY <1>3, <1>4, FeedIs
    <2>2. UNCHANGED <<runid, slaves, child, chan, rs, sc, master, cached, init, sdata, pos>>
      BY <1>2 DEF Fed, svars
    <2> QED BY <1>4, <2>1, <2>2, ExactWrite
  <1>5. CASE ~(~bl.on /\ slaves = << >>)
    <2>1. FedAll(d, e, data) BY <1>3, <1>5, FeedIs
    <2>2. bl.on BY <1>1, <1>5 DEF TypeInv, ClientTypes
    <2> QED BY <1>2, <2>1, <2>2, ExactFedAll
  <1> QED BY <1>4, <1>5

(***************************************************************************)
(* The other steps of the master.                                          *)
(***************************************************************************)

\* What is to be shown of a step of the master or of the network.
LEMMA MasterRest ==
    ASSUME ExactInv, TypeInv', UNCHANGED <<rs, sc, master, cached, init, sdata, pos>>, Onward, HistInv',
           \A c \in Conns : ClientOK(ViewN(c), chan'[c]),
           \A c \in Conns : chan[c].sopen =>
               Unnoticed(c) \/ \A s \in Slaves : sc[s] = c => AtNext(s, c)
    PROVE  Rest'
  <1>1. Clients' BY ClientsNext
  <1>2. \A s \in Slaves : SlaveAt(s)' BY SlavesKept
  <1> QED BY <1>1, <1>2 DEF Rest

\* The stream does not move.
Still == UNCHANGED <<hist, runid, moff, seldb, mdata>>

\* Then the histories and the backlog stay.
LEMMA StillHist ==
    ASSUME ExactInv, Still, bl' = bl
    PROVE  Onward /\ HistInv'
  <1>1. TypeInv /\ HistInv BY DEF ExactInv
  <1>2. Onward BY <1>1, OnwardSame DEF Still
  <1>3. HistInv' BY <1>1 DEF HistInv, Still, Now
  <1> QED BY <1>2, <1>3

\* And most of the views.
LEMMA StillView ==
    ASSUME ExactInv, TypeInv', Still, NEW c \in Conns
    PROVE  /\ IsView(View(c)) /\ IsView(ViewN(c)) /\ ClientOK(View(c), chan[c])
           /\ Len(View(c).hist[View(c).run]) = View(c).off + 1 /\ Older(View(c), ViewN(c))
           /\ ViewN(c).hist = View(c).hist /\ ViewN(c).run = View(c).run
           /\ ViewN(c).off = View(c).off /\ ViewN(c).now = View(c).now
  <1>1. TypeInv BY DEF ExactInv
  <1>2. Onward BY <1>1, OnwardSame DEF Still
  <1>3. Older(View(c), ViewN(c)) BY <1>2, OnwardOlder
  <1>4. IsView(View(c)) /\ ClientOK(View(c), chan[c]) /\ Len(View(c).hist[View(c).run]) = View(c).off + 1
    BY ConnIs
  <1>5. IsView(ViewN(c)) BY ViewTypes
  <1>6. ViewN(c).hist = View(c).hist /\ ViewN(c).run = View(c).run /\ ViewN(c).off = View(c).off
    BY ViewIs, ViewNIs DEF Still
  <1>7. ViewN(c).now = View(c).now BY DEF View, ViewN, Now, Still
  <1> QED BY <1>3, <1>4, <1>5, <1>6, <1>7

\* The views differ in nothing a slave or its client has a use for.
LEMMA QuietView ==
    ASSUME NEW v, NEW u, IsView(v), IsView(u), Older(v, u), NEW ch, ClientOK(v, ch),
           Len(v.hist[v.run]) = v.off + 1, u.hist = v.hist, u.run = v.run, u.off = v.off, u.now = v.now,
           u.net = v.net, u.mine = v.mine, v.child.type # "NONE" => u.child = v.child,
           u.k.state = v.k.state, u.k.rdb = v.k.rdb, u.k.out = v.k.out,
           u.k.wh => v.k.wh \/ v.k.state = "ONLINE", v.k.state = "NONE" => u.k = v.k
    PROVE  Kept(v, u) /\ ClientOK(u, ch)
  <1>1. CASE v.k.state = "NONE"
    <2>1. v.off <= u.off BY DEF IsView
    <2> QED BY <1>1, <2>1, IdleView
  <1>2. CASE v.k.state # "NONE"
    <2> DEFINE es == << >>
    <2>1. es \in Seq(Reply) /\ Len(es) = 0 OBVIOUS
    <2>2. v.k.out \in Seq(Reply) BY DEF IsView, Client
    <2>3. v.k.out \o es = v.k.out BY <2>2
    <2>4. u.off = v.off + Len(es) BY <2>1 DEF IsView
    <2>5. Follows(es, u.hist[u.run], v.off)
      <3>1. v.off \in Nat /\ Len(v.hist[v.run]) \in Nat /\ v.off < Len(v.hist[v.run]) BY DEF IsView
      <3> QED BY <3>1, FollowsNone
    <2>6. \A st : Executed(st, es) = st BY ExecutedEmpty
    <2> HIDE DEF es
    <2>7. u.k.out = v.k.out \o (IF v.k.state = "START" THEN es ELSE es) BY <2>3
    <2>8. es # << >> \/ es = << >> OBVIOUS
    <2>9. u.now.db = v.now.db OBVIOUS
    <2>10. \A st \in State : Compat(st, v.now) => Compat(Executed(st, es), u.now) BY <2>6
    <2>11. \A st \in State, x \in Data : Compat(st, [db |-> v.now.db, data |-> x]) =>
               Compat(Executed(st, es), [db |-> u.now.db, data |-> x])
      BY <2>6, <2>9
    <2>12. v.child.type # "NONE" => u.child = v.child OBVIOUS
    <2>13. /\ u.k.state = v.k.state /\ u.k.rdb = v.k.rdb
           /\ u.k.wh => v.k.wh \/ v.k.state \in {"NONE", "ONLINE"}
      OBVIOUS
    <2> QED BY <1>2, <2>1, <2>4, <2>5, <2>7, <2>8, <2>10, <2>11, <2>12, <2>13, FedView
  <1> QED BY <1>1, <1>2

\* The channel j after ch, but for what the slave asked.
SameChan(ch, j) ==
    /\ j.m2s = ch.m2s /\ j.mopen = ch.mopen /\ j.net = ch.net
    /\ \A a \in 1..Len(j.s2m) : \E b \in 1..Len(ch.s2m) : j.s2m[a] = ch.s2m[b]

\* The client depends on little of its channel.
LEMMA ClientChan ==
    ASSUME NEW u, NEW ch, NEW j, ClientOK(u, ch), j.m2s = ch.m2s, j.mopen = ch.mopen
    PROVE  ClientOK(u, j)
  BY DEF ClientOK

\* A connection a step has nothing to do with.
LEMMA QuietConn ==
    ASSUME ExactInv, TypeInv', Still, NEW c \in Conns, SameChan(chan[c], chan'[c]),
           (c \in child'.ids) = (c \in child.ids), child.type # "NONE" => child' = child,
           cl'[c].state = cl[c].state, cl'[c].rdb = cl[c].rdb, cl'[c].out = cl[c].out,
           cl'[c].wh => cl[c].wh \/ cl[c].state = "ONLINE", cl[c].state = "NONE" => cl'[c] = cl[c]
    PROVE  Unnoticed(c) /\ ClientOK(ViewN(c), chan'[c])
  <1> DEFINE v == View(c)
             u == ViewN(c)
  <1>1. /\ IsView(v) /\ IsView(u) /\ ClientOK(v, chan[c]) /\ Len(v.hist[v.run]) = v.off + 1
        /\ Older(v, u) /\ u.hist = v.hist /\ u.run = v.run /\ u.off = v.off /\ u.now = v.now
    BY StillView
  <1>2. /\ v.net = chan[c].net /\ v.k = cl[c] /\ v.child = child /\ v.mine = (c \in child.ids)
    BY ViewIs
  <1>3. /\ u.net = chan'[c].net /\ u.k = cl'[c] /\ u.child = child' /\ u.mine = (c \in child'.ids)
    BY ViewNIs
  <1> HIDE DEF v, u
  <1>4. /\ u.net = v.net /\ u.mine = v.mine /\ (v.child.type # "NONE" => u.child = v.child)
        /\ u.k.state = v.k.state /\ u.k.rdb = v.k.rdb /\ u.k.out = v.k.out
        /\ (u.k.wh => v.k.wh \/ v.k.state = "ONLINE") /\ (v.k.state = "NONE" => u.k = v.k)
    BY <1>2, <1>3 DEF SameChan
  <1>5. Kept(v, u) /\ ClientOK(u, chan[c]) BY <1>1, <1>4, QuietView
  <1>6. ClientOK(u, chan'[c]) BY <1>5, ClientChan DEF SameChan
  <1>7. KeptChan(v, chan[c], u, chan'[c]) BY <1>4 DEF KeptChan, SameChan
  <1> QED BY <1>5, <1>6, <1>7 DEF Unnoticed, v, u

\* A channel that stays.
LEMMA SameSame == ASSUME NEW ch PROVE SameChan(ch, ch)
  BY DEF SameChan

\* The master lets go of a client.
LEMMA DropView ==
    ASSUME NEW v, NEW u, IsView(v), IsView(u), Older(v, u), NEW ch, ClientOK(v, ch),
           Len(v.hist[v.run]) = v.off + 1, u.k = NewClient,
           u.mine => v.mine /\ u.child = v.child /\ u.run = v.run /\ u.off = v.off
    PROVE  /\ u.net = v.net => Kept(v, u)
           /\ \A j : ~j.mopen => ClientOK(u, j)
  <1>1. u.k.state = "NONE" /\ ~u.k.wh BY DEF NewClient
  <1>2. v.mine => /\ v.child.type = "SOCKET" /\ v.child.rdb.snap \in 0..v.off
                  /\ v.child.rdb.snap + 1 \in 1..Len(v.hist[v.run])
    BY DEF ClientOK, IsView
  <1>3. ~Live(u) BY <1>1 DEF Live
  <1>4. Served(v) => Served(u) BY <1>1 DEF Served
  <1>5. u.net = v.net => Kept(v, u) BY <1>1, <1>2, <1>3, <1>4, DeadKept
  <1>6. \A j : ~j.mopen => ClientOK(u, j) BY <1>1, <1>2 DEF ClientOK
  <1> QED BY <1>5, <1>6

\* What close() by the master leaves of the channel.
LEMMA DropChan ==
    ASSUME TypeInv, NEW cs \in SUBSET Conns, chan' = MClose(chan, cs), NEW c \in cs
    PROVE  /\ ~chan'[c].mopen
           /\ chan[c].sopen => chan'[c].net = chan[c].net /\ KeptChan(View(c), chan[c], ViewN(c), chan'[c])
  <1>1. chan \in [Conns -> Channel] /\ c \in Conns BY DEF TypeInv, ChanTypes
  <1>2. chan'[c] = IF chan[c].sopen THEN [chan[c] EXCEPT !.mopen = FALSE, !.s2m = << >>] ELSE Closed
    BY <1>1, MCloseIs
  <1>3. chan[c] \in Channel BY <1>1
  <1> DEFINE k == chan[c]
             j == [k EXCEPT !.mopen = FALSE, !.s2m = << >>]
  <1>4. j.mopen = FALSE /\ j.m2s = k.m2s /\ j.net = k.net /\ j.s2m = << >>
    <2> HIDE DEF k
    <2>1. k \in Channel BY <1>3 DEF k
    <2> QED BY <2>1 DEF Channel
  <1>5. Closed.mopen = FALSE BY DEF Closed
  <1> HIDE DEF j
  <1>6. chan'[c] = IF k.sopen THEN j ELSE Closed BY <1>2 DEF j
  <1>7. ~chan'[c].mopen BY <1>4, <1>5, <1>6
  <1>8. ASSUME chan[c].sopen
        PROVE  chan'[c].net = chan[c].net /\ KeptChan(View(c), chan[c], ViewN(c), chan'[c])
    <2>1. chan'[c] = j BY <1>6, <1>8
    <2>2. Len(j.s2m) = 0 BY <1>4
    <2> QED BY <1>4, <1>7, <2>1, <2>2 DEF KeptChan
  <1> QED BY <1>7, <1>8

\* freeClient.
LEMMA ExactFree ==
    ASSUME ExactInv, TypeInv', NEW c \in Conns, MasterReadEof(c) \/ MasterDropsSlave(c)
    PROVE  Rest'
  <1>1. /\ freeClients({c})
        /\ UNCHANGED <<runid, mdata, seldb, moff, bl, child, hist>>
        /\ UNCHANGED <<rs, sc, master, cached, init, sdata, pos>>
    BY DEF MasterReadEof, MasterDropsSlave, hvars, svars
  <1>2. Still BY <1>1 DEF Still
  <1>3. Onward /\ HistInv' BY <1>1, <1>2, StillHist
  <1>4. TypeInv /\ chan \in [Conns -> Channel] BY DEF ExactInv, TypeInv, ChanTypes
  <1>5. chan' = MClose(chan, {c}) /\ cl' = [d \in Conns |-> IF d \in {c} THEN NewClient ELSE cl[d]]
    BY <1>1 DEF freeClients
  <1>6. ASSUME NEW d \in Conns, d # c PROVE Unnoticed(d) /\ ClientOK(ViewN(d), chan'[d])
    <2>3. {c} \in SUBSET Conns /\ d \in Conns \ {c} BY <1>6
    <2>4. chan'[d] = chan[d] BY <1>4, <1>5, <2>3, MCloseIs
    <2>1. chan'[d] = chan[d] /\ cl'[d] = cl[d] BY <1>5, <1>6, <2>4
    <2>2. SameChan(chan[d], chan'[d]) BY <2>1, SameSame
    <2> QED BY <1>1, <1>2, <2>1, <2>2, QuietConn
  <1>7. ClientOK(ViewN(c), chan'[c]) /\ (chan[c].sopen => Unnoticed(c))
    <2> DEFINE v == View(c)
               u == ViewN(c)
    <2>1. /\ IsView(v) /\ IsView(u) /\ ClientOK(v, chan[c]) /\ Len(v.hist[v.run]) = v.off + 1
          /\ Older(v, u) /\ u.run = v.run /\ u.off = v.off
      BY <1>2, StillView
    <2>2. v.net = chan[c].net /\ v.child = child /\ v.mine = (c \in child.ids) BY ViewIs
    <2>3. u.net = chan'[c].net /\ u.k = cl'[c] /\ u.child = child' /\ u.mine = (c \in child'.ids)
      BY ViewNIs
    <2>4. cl'[c] = NewClient BY <1>5
    <2>5. /\ ~chan'[c].mopen
          /\ chan[c].sopen => chan'[c].net = chan[c].net /\ KeptChan(v, chan[c], u, chan'[c])
      BY <1>4, <1>5, DropChan
    <2> HIDE DEF v, u
    <2>6. (u.net = v.net => Kept(v, u)) /\ ClientOK(u, chan'[c])
      BY <1>1, <2>1, <2>2, <2>3, <2>4, <2>5, DropView
    <2> QED BY <2>2, <2>3, <2>5, <2>6 DEF Unnoticed, v, u
  <1> QED BY <1>1, <1>3, <1>6, <1>7, MasterRest

\* The backlog is freed, BGSAVE starts, or an ACK or a second PSYNC arrives.
LEMMA ExactSmall ==
    ASSUME ExactInv, TypeInv',
           \/ BacklogExpires \/ bgsaveCommand
           \/ \E c \in Conns : replconfAck(c) \/ (syncCommand(c) /\ cl[c].state # "NONE")
    PROVE  Rest'
  <1>1. TypeInv /\ HistInv BY DEF ExactInv
  <1>2. /\ chan \in [Conns -> Channel] /\ cl \in [Conns -> Client] /\ moff \in Nat
        /\ hist[runid] \in Seq(Point)
    BY <1>1 DEF TypeInv, ChanTypes, ClientTypes, MasterTypes
  <1>3. CASE BacklogExpires
    <2>1. /\ UNCHANGED <<hist, runid, moff, seldb, mdata, cl, child, chan>> /\ bl' = NoBacklog
          /\ UNCHANGED <<rs, sc, master, cached, init, sdata, pos>>
      BY <1>3 DEF BacklogExpires, hvars, svars
    <2>2. Still BY <2>1 DEF Still
    <2>3. Onward BY <1>1, <2>1, OnwardSame
    <2>4. HistInv'
      <3>1. ~bl'.on /\ bl'.win = << >> BY <2>1 DEF NoBacklog
      <3>2. Len(hist[runid]) = moff + 1 BY <1>1 DEF HistInv
      <3>3. Follows(<< >>, hist[runid], moff) BY <1>2, <3>2, FollowsNone
      <3>4. moff - Len(<< >>) = moff BY <1>2
      <3>5. Follows(bl'.win, hist'[runid'], moff' - Len(bl'.win)) BY <2>1, <3>1, <3>3, <3>4
      <3>6. Len(hist'[runid']) = moff' + 1 BY <2>1, <3>2
      <3> QED BY <3>1, <3>5, <3>6 DEF HistInv
    <2>5. ASSUME NEW d \in Conns PROVE Unnoticed(d) /\ ClientOK(ViewN(d), chan'[d])
      BY <2>1, <2>2, SameSame, QuietConn
    <2> QED BY <2>1, <2>3, <2>4, <2>5, MasterRest
  <1>4. CASE bgsaveCommand
    <2>1. /\ UNCHANGED <<hist, runid, moff, seldb, mdata, bl, cl, chan>>
          /\ child' = DiskChild(moff) /\ child.type = "NONE"
          /\ UNCHANGED <<rs, sc, master, cached, init, sdata, pos>>
      BY <1>4 DEF bgsaveCommand, svars
    <2>2. Still BY <2>1 DEF Still
    <2>3. Onward /\ HistInv' BY <2>1, <2>2, StillHist
    <2>4. child'.ids = {} BY <2>1 DEF DiskChild, NoChild
    <2>5. ASSUME NEW d \in Conns PROVE Unnoticed(d) /\ ClientOK(ViewN(d), chan'[d])
      <3>1. ClientOK(View(d), chan[d]) BY ConnIs
      <3>2. d \notin child.ids BY <2>1, <3>1, ViewIs DEF ClientOK
      <3>3. (d \in child'.ids) = (d \in child.ids) BY <2>4, <3>2
      <3> QED BY <2>1, <2>2, <3>3, SameSame, QuietConn
    <2> QED BY <2>1, <2>3, <2>5, MasterRest
  <1>5. ASSUME NEW c \in Conns, replconfAck(c) \/ (syncCommand(c) /\ cl[c].state # "NONE")
        PROVE  Rest'
    <2>1. /\ UNCHANGED <<hist, runid, moff, seldb, mdata, bl, child>>
          /\ chan' = [chan EXCEPT ![c].s2m = Tail(@)] /\ chan[c].s2m # << >>
          /\ UNCHANGED <<rs, sc, master, cached, init, sdata, pos>>
          /\ cl' = cl \/ (cl[c].state = "ONLINE" /\ cl' = [cl EXCEPT ![c].onack = FALSE, ![c].wh = TRUE])
      BY <1>5 DEF replconfAck, syncCommand, hvars, svars, mvars
    <2>2. Still BY <2>1 DEF Still
    <2>3. Onward /\ HistInv' BY <2>1, <2>2, StillHist
    <2>4. chan[c] \in Channel /\ chan[c].s2m \in Seq(Request) BY <1>2 DEF Channel
    <2>5. ASSUME NEW d \in Conns PROVE SameChan(chan[d], chan'[d])
      <3>1. CASE d # c BY <2>1, <3>1, SameSame
      <3>2. CASE d = c
        <4> DEFINE k == chan[c]
                   j == [k EXCEPT !.s2m = Tail(@)]
        <4>1. chan'[d] = j BY <1>2, <2>1, <3>2
        <4>2. k \in Channel BY <2>4
        <4>3. Quiet(k, j) BY <2>1, <2>4, QuietRead
        <4> HIDE DEF k
        <4>4. j.m2s = k.m2s /\ j.mopen = k.mopen /\ j.net = k.net /\ j.s2m = Tail(k.s2m)
          BY <4>2 DEF Channel
        <4>5. \A a \in 1..Len(j.s2m) : \E b \in 1..Len(k.s2m) : j.s2m[a] = k.s2m[b]
          <5>1. k.s2m \in Seq(Request) /\ k.s2m # << >> BY <2>1, <2>4 DEF k
          <5> DEFINE t == k.s2m
          <5> HIDE DEF t, j
          <5>2. t \in Seq(Request) /\ t # << >> BY <5>1 DEF t
          <5>3. \A a \in 1..Len(Tail(t)) : a + 1 \in 1..Len(t) /\ Tail(t)[a] = t[a + 1] BY <5>2
          <5> QED BY <4>4, <5>3 DEF t
        <4> HIDE DEF j
        <4> QED BY <3>2, <4>1, <4>4, <4>5 DEF SameChan, k
      <3> QED BY <3>1, <3>2
    <2>6. ASSUME NEW d \in Conns PROVE Unnoticed(d) /\ ClientOK(ViewN(d), chan'[d])
      <3>1. CASE cl'[d] = cl[d] BY <2>1, <2>2, <2>5, <3>1, QuietConn
      <3>2. CASE d = c /\ cl[c].state = "ONLINE" /\ cl' = [cl EXCEPT ![c].onack = FALSE, ![c].wh = TRUE]
        <4> DEFINE k == cl[c]
                   k1 == [k EXCEPT !.onack = FALSE]
                   j == [k1 EXCEPT !.wh = TRUE]
        <4>1. cl'[c] = j BY <1>2, <3>2
        <4>2. k \in Client BY <1>2
        <4> HIDE DEF k
        <4>3. j.state = k.state /\ j.out = k.out /\ j.rdb = k.rdb BY <4>2 DEF Client
        <4> HIDE DEF j
        <4> QED BY <2>1, <2>2, <2>5, <3>2, <4>1, <4>3, QuietConn DEF k
      <3>3. cl'[d] = cl[d] \/ d = c BY <1>2, <2>1
      <3> QED BY <2>1, <3>1, <3>2, <3>3
    <2> QED BY <2>1, <2>3, <2>6, MasterRest
  <1> QED BY <1>3, <1>4, <1>5

(***************************************************************************)
(* Children of the master.                                                 *)
(***************************************************************************)

\* Forks that never fail.
LEMMA AlwaysForks ==
    ASSUME TypeInv, MaxForkFails = 0, NEW forked \in BOOLEAN, ForkResult(forked)
    PROVE  forked
  <1>1. used.fork \in Nat BY DEF TypeInv, MasterTypes, Used
  <1> QED BY <1>1 DEF ForkResult

\* The RDB of a slave that waited is started.
LEMMA StartView ==
    ASSUME NEW v, NEW u, IsView(v), IsView(u), Older(v, u), NEW ch, ClientOK(v, ch),
           Len(v.hist[v.run]) = v.off + 1, v.hist[v.run][v.off + 1] = v.now,
           u.hist = v.hist, u.run = v.run, u.off = v.off, u.now = v.now, u.net = v.net,
           v.k.state = "START", u.k.state = "END", u.k.out = v.k.out, u.k.wh = v.k.wh,
           u.child.rdb = [data |-> v.now.data, snap |-> v.off], u.child.type # "NONE",
           ~u.child.wrote, u.mine => u.child.type = "SOCKET"
    PROVE  Kept(v, u) /\ ClientOK(u, ch)
  <1> DEFINE x == v.now.data
             st == St(0, x)
             out == v.k.out
             h == v.hist[v.run]
  <1>1. x \in Data /\ v.off \in Nat /\ out \in Seq(Reply) BY DEF IsView, Point, Client
  <1>2. u.child.rdb.data = x /\ u.child.rdb.snap = v.off OBVIOUS
  <1>3. Compat(Executed(st, out), v.now)
    <2>1. Compat(Executed(St(0, x), out), [db |-> v.now.db, data |-> x])
      BY <1>1 DEF ClientOK, Waiting
    <2>2. v.now = [db |-> v.now.db, data |-> v.now.data] BY DEF IsView, Point
    <2> QED BY <2>1, <2>2
  <1>4. out = << >> => Compat(st, h[v.off + 1]) /\ Follows(<< >>, h, v.off)
    <2>1. Executed(st, << >>) = st BY ExecutedEmpty
    <2>2. Len(h) \in Nat /\ v.off < Len(h) BY <1>1
    <2>3. Follows(<< >>, h, v.off) BY <1>1, <2>2, FollowsNone
    <2> QED BY <1>3, <2>1, <2>3
  <1>5. v.off + Len(out) = v.off => out = << >>
    <2>1. Len(out) \in Nat BY <1>1
    <2>2. Len(out) = 0 => out = << >> BY <1>1
    <2> HIDE DEF out
    <2> QED BY <1>1, <2>1, <2>2
  <1>6. RdbOK(u, u.child.rdb)
    <2>1. Len(out) \in Nat BY <1>1
    <2>2. u.k.out = out OBVIOUS
    <2> HIDE DEF out, x, st, h
    <2>3. v.off \in 0..v.off /\ v.off + Len(out) >= v.off BY <1>1, <2>1
    <2>4. v.off + Len(out) = v.off => Compat(st, h[v.off + 1]) /\ Follows(out, h, v.off)
      BY <1>4, <1>5
    <2> QED BY <1>2, <1>3, <2>2, <2>3, <2>4 DEF RdbOK, h, st
  <1>7. ASSUME NEW i \in [run : Int, off : Int], Awaits(v, i) PROVE Awaits(u, i)
    <2>1. i.off >= -1 BY <1>7 DEF Awaits
    <2>2. Live(u) => i.off <= u.off /\ (i.off >= 0 => i.run = u.run)
      BY <1>7 DEF Awaits, Live
    <2>3. ASSUME u.net, i.off = u.child.rdb.snap
          PROVE  i.run = u.run /\ Compat(St(0, u.child.rdb.data), u.hist[u.run][u.child.rdb.snap + 1])
      <3>1. Live(v) /\ i.off = v.off BY <1>2, <2>3 DEF Live
      <3>2. v.k.out = << >> BY <1>7, <3>1 DEF Awaits
      <3>3. i.run = v.run BY <1>1, <1>7, <3>1 DEF Awaits
      <3> QED BY <1>2, <1>4, <3>2, <3>3
    <2> QED BY <2>1, <2>2, <2>3 DEF Awaits
  <1>8. ~Served(v) BY DEF Served
  <1>9. Kept(v, u) BY <1>7, <1>8 DEF Kept
  <1>10. ~u.k.wh /\ ch.mopen BY DEF ClientOK
  <1>11. u.child.rdb.snap \in 0..u.off BY <1>1, <1>2
  <1>12. ClientOK(u, ch) BY <1>6, <1>10, <1>11 DEF ClientOK
  <1> QED BY <1>9, <1>12

\* A child has ended: the slaves that have been or are being served.
LEMMA DoneView ==
    ASSUME NEW v, NEW u, IsView(v), IsView(u), Older(v, u), NEW ch, ClientOK(v, ch),
           u.hist = v.hist, u.run = v.run, u.off = v.off, u.now = v.now, u.net = v.net,
           u.k.out = v.k.out, ~u.mine,
           \/ v.k.state \in {"BULK", "ONLINE"} /\ u.k = v.k
           \/ /\ v.k.state = "END" /\ v.child.type = "DISK"
              /\ u.k.state = "BULK" /\ u.k.rdb = v.child.rdb /\ ~u.k.wh
           \/ v.k.state = "END" /\ v.mine /\ v.child.wrote /\ u.k.state = "ONLINE"
    PROVE  Kept(v, u) /\ ClientOK(u, ch)
  <1>1. u.k.state \in {"BULK", "ONLINE"} /\ v.k.state # "NONE" /\ v.k.state # "START" OBVIOUS
  <1>2. Live(u) = Live(v) BY <1>1 DEF Live
  <1>3. KeepsExact(v, u) /\ KeepsCaught(v, u) BY <1>2 DEF KeepsExact, KeepsCaught, Exact, Caught
  <1>4. Served(v) => Served(u) BY DEF Served, ClientOK
  <1>5. ASSUME NEW i \in [run : Int, off : Int], Awaits(v, i) PROVE Awaits(u, i)
    <2>1. i.off >= -1 BY <1>5 DEF Awaits
    <2>2. Live(u) => /\ u.k.state = "BULK" /\ i.off <= u.off /\ (i.off >= 0 => i.run = u.run)
      BY <1>2, <1>5 DEF Awaits
    <2> QED BY <2>1, <2>2 DEF Awaits
  <1>6. Kept(v, u) BY <1>1, <1>3, <1>4, <1>5 DEF Kept
  <1>7. u.k.state = "BULK" => RdbOK(u, u.k.rdb) BY DEF ClientOK, RdbOK
  <1>8. u.k.wh => u.k.state = "ONLINE" BY DEF ClientOK
  <1>9. ClientOK(u, ch) BY <1>1, <1>7, <1>8 DEF ClientOK
  <1> QED BY <1>6, <1>9

\* The end of the history is where the master is, for its slaves.
LEMMA SlaveNow ==
    ASSUME ExactInv, NEW c \in Conns, cl[c].state # "NONE"
    PROVE  View(c).hist[View(c).run][View(c).off + 1] = View(c).now
  <1>1. TypeInv /\ HistInv BY DEF ExactInv
  <1>2. slaves # << >> BY <1>1 DEF TypeInv, ClientTypes, Range
  <1>3. bl.on BY <1>1, <1>2 DEF TypeInv, ClientTypes
  <1> QED BY <1>1, <1>3, ViewIs DEF HistInv

\* Child q was forked at offset off, for slaves in cs.
NewChild(q, off, cs) ==
    /\ q.type \in {"DISK", "SOCKET"} /\ q.rdb = [data |-> mdata, snap |-> off]
    /\ q.wrote = FALSE /\ q.ids \subseteq cs /\ (q.ids # {} => q.type = "SOCKET")

\* The child started for the slaves of a list, when fork() works.
LEMMA NewChildIs ==
    ASSUME NEW k, NEW ss, NEW off, NEW forked, forked = TRUE
    PROVE  NewChild(BgsaveChild(k, ss, off, forked), off, InState(k, ss, "START"))
  <1>1. CASE diskless
    <2>1. BgsaveChild(k, ss, off, forked) = SocketChild(off, InState(k, ss, "START"))
      BY <1>1 DEF BgsaveChild
    <2> QED BY <2>1 DEF SocketChild, NoChild, NewChild
  <1>2. CASE ~diskless
    <2>1. BgsaveChild(k, ss, off, forked) = DiskChild(off) BY <1>2 DEF BgsaveChild
    <2> QED BY <2>1 DEF DiskChild, NoChild, NewChild
  <1> QED BY <1>1, <1>2

\* replicationCron starts a child for the slaves that wait.
LEMMA ExactCron ==
    ASSUME ExactInv, TypeInv', MaxForkFails = 0, NEW forked \in BOOLEAN, CronBgsave(forked)
    PROVE  Rest'
  <1> DEFINE waiting == InState(cl, slaves, "START")
  <1>1. TypeInv BY DEF ExactInv
  <1>2. /\ child.type = "NONE" /\ ForkResult(forked)
        /\ child' = BgsaveChild(cl, slaves, moff, forked)
        /\ cl' = IF forked THEN SetState(cl, waiting, "END") ELSE BgsaveClients(cl, slaves)
        /\ UNCHANGED <<hist, runid, moff, seldb, mdata, bl, chan>>
        /\ UNCHANGED <<rs, sc, master, cached, init, sdata, pos>>
    BY DEF CronBgsave, svars
  <1>3. forked BY <1>1, <1>2, AlwaysForks
  <1>4. cl' = SetState(cl, waiting, "END") /\ child' = BgsaveChild(cl, slaves, moff, forked)
        /\ forked = TRUE
    BY <1>2, <1>3
  <1>5. /\ child'.type \in {"DISK", "SOCKET"} /\ child'.rdb = [data |-> mdata, snap |-> moff]
        /\ child'.wrote = FALSE /\ child'.ids \subseteq waiting
        /\ child'.ids # {} => child'.type = "SOCKET"
    <2>1. NewChild(child', moff, waiting) BY <1>4, NewChildIs
    <2> QED BY <2>1 DEF NewChild
  <1>6. Still BY <1>2 DEF Still
  <1>7. Onward /\ HistInv' BY <1>2, <1>6, StillHist
  <1>8. cl \in [Conns -> Client] /\ waiting \in SUBSET Conns /\ \A c \in waiting : cl[c].state = "START"
    BY <1>1 DEF TypeInv, ClientTypes, InState, Range
  <1>9. \A c \in Conns : cl[c].state = "START" => c \in waiting
    BY <1>1 DEF TypeInv, ClientTypes, InState
  <1> HIDE DEF waiting
  <1>10. ASSUME NEW c \in Conns PROVE Unnoticed(c) /\ ClientOK(ViewN(c), chan'[c])
    <2>1. CASE c \notin waiting
      <3>1. cl'[c] = cl[c] BY <1>4, <2>1 DEF SetState
      <3>2. ClientOK(View(c), chan[c]) BY ConnIs
      <3>3. c \notin child.ids BY <1>2, <3>2, ViewIs DEF ClientOK
      <3>4. (c \in child'.ids) = (c \in child.ids) BY <1>5, <2>1, <3>3
      <3> QED BY <1>2, <1>6, <3>1, <3>4, SameSame, QuietConn
    <2>2. CASE c \in waiting
      <3> DEFINE v == View(c)
                 u == ViewN(c)
      <3>1. /\ IsView(v) /\ IsView(u) /\ ClientOK(v, chan[c]) /\ Len(v.hist[v.run]) = v.off + 1
            /\ Older(v, u) /\ u.hist = v.hist /\ u.run = v.run /\ u.off = v.off /\ u.now = v.now
        BY <1>6, StillView
      <3>2. /\ v.off = moff /\ v.now.data = mdata /\ v.net = chan[c].net /\ v.k = cl[c]
            /\ u.net = chan'[c].net /\ u.k = cl'[c] /\ u.child = child' /\ u.mine = (c \in child'.ids)
        BY ViewIs, ViewNIs
      <3>3. cl[c].state = "START" BY <1>8, <2>2
      <3>4. v.hist[v.run][v.off + 1] = v.now BY <3>3, SlaveNow
      <3>5. cl'[c] = [cl[c] EXCEPT !.state = "END"] BY <1>4, <2>2 DEF SetState
      <3>6. cl[c] \in Client BY <1>8
      <3>7. cl'[c].state = "END" /\ cl'[c].out = cl[c].out /\ cl'[c].wh = cl[c].wh
        BY <3>5, <3>6 DEF Client
      <3> HIDE DEF v, u
      <3>8. /\ u.net = v.net /\ v.k.state = "START" /\ u.k.state = "END" /\ u.k.out = v.k.out
            /\ u.k.wh = v.k.wh /\ u.child.rdb = [data |-> v.now.data, snap |-> v.off]
            /\ u.child.type # "NONE" /\ ~u.child.wrote /\ (u.mine => u.child.type = "SOCKET")
        BY <1>2, <1>5, <3>2, <3>3, <3>7
      <3>9. Kept(v, u) /\ ClientOK(u, chan[c]) BY <3>1, <3>4, <3>8, StartView
      <3>10. KeptChan(v, chan[c], u, chan'[c]) BY <1>2, <3>8 DEF KeptChan
      <3> QED BY <1>2, <3>9, <3>10 DEF Unnoticed, v, u
    <2> QED BY <2>1, <2>2
  <1> QED BY <1>2, <1>7, <1>10, MasterRest

\* A restart: every connection is closed by the master, and its run is over.
LEMMA ExactRestart ==
    ASSUME ExactInv, TypeInv', MasterRestarts
    PROVE  Rest'
  <1>1. TypeInv BY DEF ExactInv
  <1>2. /\ runid' = runid + 1 /\ mdata' = rdbfile.data
        /\ seldb' = -1 /\ moff' = 0 /\ bl' = NoBacklog
        /\ cl' = [c \in Conns |-> NewClient] /\ child' = NoChild
        /\ chan' = MClose(chan, Conns)
        /\ hist' = [r \in 0..(runid + 1) |->
                      IF r = runid + 1 THEN << [db |-> -1, data |-> rdbfile.data] >> ELSE hist[r]]
        /\ UNCHANGED <<rs, sc, master, cached, init, sdata, pos>>
    BY DEF MasterRestarts, svars
  <1>3. runid \in Nat /\ \A r \in 0..runid : hist[r] \in Seq(Point) BY <1>1 DEF TypeInv, MasterTypes
  <1>4. Onward
    <2>1. << >> \in Seq(Point) OBVIOUS
    <2>2. ASSUME NEW r \in 0..runid PROVE Grows(hist[r], hist'[r])
      <3>1. r \in 0..(runid + 1) /\ r # runid + 1 BY <1>3
      <3>2. hist'[r] = hist[r] BY <1>2, <3>1
      <3> QED BY <1>3, <2>1, <3>2, GrowsSame
    <2>3. runid <= runid'
      <3>1. runid' = runid + 1 BY <1>2
      <3> QED BY <1>3, <3>1
    <2> QED BY <2>2, <2>3 DEF Onward
  <1>5. HistInv'
    <2> DEFINE h == << [db |-> -1, data |-> rdbfile.data] >>
    <2>1. runid + 1 \in 0..(runid + 1) BY <1>3
    <2>2. hist'[runid'] = h BY <1>2, <2>1
    <2>3. Len(h) = 1 OBVIOUS
    <2>4. bl'.win = << >> /\ ~bl'.on BY <1>2 DEF NoBacklog
    <2> HIDE DEF h
    <2>5. Follows(<< >>, h, 0) BY <2>3, FollowsNone
    <2>9. Len(<< >>) = 0 OBVIOUS
    <2> DEFINE n == Len(bl'.win)
    <2>10. n = 0 BY <2>4, <2>9
    <2> HIDE DEF n
    <2>6. moff' - n = 0 BY <1>2, <2>10
    <2>7. Follows(bl'.win, hist'[runid'], moff' - Len(bl'.win)) BY <2>2, <2>4, <2>5, <2>6 DEF n
    <2>8. Len(hist'[runid']) = moff' + 1 BY <1>2, <2>2, <2>3
    <2> QED BY <2>4, <2>7, <2>8 DEF HistInv
  <1>6. ASSUME NEW c \in Conns
        PROVE  ClientOK(ViewN(c), chan'[c]) /\ (chan[c].sopen => Unnoticed(c))
    <2> DEFINE v == View(c)
               u == ViewN(c)
    <2>1. /\ IsView(v) /\ ClientOK(v, chan[c]) /\ Len(v.hist[v.run]) = v.off + 1 BY ConnIs
    <2>2. IsView(u) /\ Older(v, u) BY <1>4, ViewTypes, OnwardOlder
    <2>3. v.net = chan[c].net /\ u.net = chan'[c].net /\ u.k = cl'[c] /\ u.mine = (c \in child'.ids)
      BY ViewIs, ViewNIs
    <2>4. cl'[c] = NewClient /\ ~(c \in child'.ids) BY <1>2 DEF NoChild
    <2>5. /\ ~chan'[c].mopen
          /\ chan[c].sopen => chan'[c].net = chan[c].net /\ KeptChan(v, chan[c], u, chan'[c])
      BY <1>1, <1>2, DropChan
    <2> HIDE DEF v, u
    <2>6. (u.net = v.net => Kept(v, u)) /\ ClientOK(u, chan'[c])
      BY <2>1, <2>2, <2>3, <2>4, <2>5, DropView
    <2> QED BY <2>3, <2>5, <2>6 DEF Unnoticed, v, u
  <1> QED BY <1>2, <1>4, <1>5, <1>6, MasterRest

\* A child has ended, and another one is started for the slaves that came too
\* late for it.
LEMMA ExactChildDone ==
    ASSUME ExactInv, TypeInv', MaxForkFails = 0, NEW ok \in BOOLEAN, NEW forked \in BOOLEAN,
           ChildDone(ok, forked)
    PROVE  Rest'
  <1> DEFINE ends == InState(cl, slaves, "END")
             late == InState(cl, slaves, "START")
             drop == DropOf(ok)
             file == FileOf(ok)
             ss == Without(slaves, drop)
             moved == Moved(drop, late, ends, file)
  <1>1. TypeInv /\ ClientTypes /\ child \in ChildType
    BY DEF ExactInv, TypeInv, MasterTypes
  <1>2. /\ child.type # "NONE"
        /\ child.type = "SOCKET" /\ ok => child.wrote /\ child.ids # {}
        /\ chan' = MClose(chan, drop)
        /\ child' = IF late = {} THEN NoChild ELSE BgsaveChild(moved, ss, moff, forked)
        /\ cl' = IF late = {} THEN moved ELSE BgsaveClients(moved, ss)
        /\ UNCHANGED <<hist, runid, moff, seldb, mdata, bl>>
        /\ UNCHANGED <<rs, sc, master, cached, init, sdata, pos>>
    BY ChildDoneIs DEF svars
  <1>3. forked = TRUE
    <2>1. ForkResult(forked) BY DEF ChildDone
    <2> QED BY <1>1, <2>1, AlwaysForks
  <1>4. /\ drop \subseteq ends /\ drop \in SUBSET Conns /\ late \cap ends = {}
        /\ \A c \in late \cup ends : cl[c].state # "NONE"
    BY <1>1, ChildDoneSets
  <1>5. child.type \in {"DISK", "SOCKET"} BY <1>1, <1>2 DEF ChildType
  <1>6. \A c \in Conns : /\ (c \in ends) = (cl[c].state = "END")
                         /\ (c \in late) = (cl[c].state = "START")
    BY <1>1 DEF ClientTypes, InState
  <1>7. cl \in [Conns -> Client] BY <1>1 DEF ClientTypes
  <1>8. \A c \in ends \ drop : (child.type = "DISK" /\ file = child.rdb) \/ (child.type = "SOCKET" /\ c \in child.ids /\ child.wrote)
    BY <1>2, <1>5 DEF DropOf, FileOf
  <1>9. \A c \in Conns : MovedTo(moved[c], cl[c], c, drop, late, ends, file)
    BY <1>4, <1>5, MovedIs
  <1> HIDE DEF ends, late, drop, file, moved
  <1>10. \A c \in Conns : moved[c].state # "START"
    <2> TAKE c \in Conns
    <2>1. MovedTo(moved[c], cl[c], c, drop, late, ends, file) /\ cl[c] \in Client BY <1>7, <1>9
    <2> DEFINE q == cl[c]
    <2>2. /\ [q EXCEPT !.state = "END"].state = "END"
          /\ [q EXCEPT !.state = "BULK", !.wh = FALSE, !.rdb = file].state = "BULK"
          /\ [q EXCEPT !.state = "ONLINE", !.onack = TRUE].state = "ONLINE"
          /\ NewClient.state = "NONE"
      <3>1. q \in Client BY <2>1
      <3> HIDE DEF q
      <3> QED BY <3>1 DEF Client, NewClient
    <2>3. CASE c \in drop BY <2>1, <2>2, <2>3 DEF MovedTo
    <2>4. CASE c \in late BY <2>1, <2>2, <2>4 DEF MovedTo
    <2>5. CASE c \in ends \ drop BY <1>5, <2>1, <2>2, <2>5 DEF MovedTo
    <2>6. CASE c \notin late \cup ends BY <1>6, <2>1, <2>6 DEF MovedTo
    <2> QED BY <2>3, <2>4, <2>5, <2>6
  <1>11. Range(ss) \subseteq Conns
    <2>1. slaves \in Seq(Conns) /\ IsInjective(slaves) BY <1>1 DEF ClientTypes
    <2>2. ss \in Seq(Conns) BY <2>1, WithoutIs
    <2> HIDE DEF ss
    <2> QED BY <2>2 DEF Range
  <1> HIDE DEF ss
  <1>12. InState(moved, ss, "START") = {} BY <1>10, <1>11 DEF InState
  <1>13. \A c \in Conns : cl'[c] = moved[c]
    <2> TAKE c \in Conns
    <2>1. CASE late = {} BY <1>2, <2>1
    <2>2. CASE late # {} /\ diskless
      <3>1. cl' = SetState(moved, InState(moved, ss, "START"), "END")
        BY <1>2, <2>2 DEF BgsaveClients
      <3> QED BY <1>12, <3>1 DEF SetState
    <2>3. CASE late # {} /\ ~diskless BY <1>2, <2>3 DEF BgsaveClients
    <2> QED BY <2>1, <2>2, <2>3
  <1>14. child'.ids = {}
         /\ (late # {} => /\ child'.type \in {"DISK", "SOCKET"} /\ child'.wrote = FALSE
                          /\ child'.rdb = [data |-> mdata, snap |-> moff])
    <2>1. CASE late = {} BY <1>2, <2>1 DEF NoChild
    <2>2. CASE late # {}
      <3>1. child' = BgsaveChild(moved, ss, moff, forked) BY <1>2, <2>2
      <3>2. NewChild(child', moff, {}) BY <1>3, <1>12, <3>1, NewChildIs
      <3> QED BY <3>2 DEF NewChild
    <2> QED BY <2>1, <2>2
  <1>15. Still BY <1>2 DEF Still
  <1>16. Onward /\ HistInv' BY <1>2, <1>15, StillHist
  <1>17. chan \in [Conns -> Channel] BY <1>1 DEF TypeInv, ChanTypes
  <1>18. ASSUME NEW c \in Conns
         PROVE  ClientOK(ViewN(c), chan'[c]) /\ (chan[c].sopen => Unnoticed(c))
    <2> DEFINE v == View(c)
               u == ViewN(c)
               q == cl[c]
               ch == chan[c]
               j == chan'[c]
    <2>1. /\ IsView(v) /\ IsView(u) /\ ClientOK(v, ch) /\ Len(v.hist[v.run]) = v.off + 1
          /\ Older(v, u) /\ u.hist = v.hist /\ u.run = v.run /\ u.off = v.off /\ u.now = v.now
      BY <1>15, StillView
    <2>2. /\ v.off = moff /\ v.now.data = mdata /\ v.net = ch.net /\ v.k = q /\ v.child = child
          /\ v.mine = (c \in child.ids)
      BY ViewIs
    <2>3. u.net = j.net /\ u.k = moved[c] /\ u.child = child' /\ u.mine = FALSE
      <3>1. /\ u.net = j.net /\ u.k = cl'[c] /\ u.child = child' /\ u.mine = (c \in child'.ids)
        BY ViewNIs
      <3> HIDE DEF u
      <3>2. cl'[c] = moved[c] /\ ~(c \in child'.ids) BY <1>13, <1>14
      <3>4. (c \in child'.ids) = FALSE BY <3>2
      <3>5. u.mine = (c \in child'.ids) BY <3>1
      <3>3. u.mine = FALSE BY <3>4, <3>5
      <3> QED BY <3>1, <3>2, <3>3
    <2>4. MovedTo(moved[c], q, c, drop, late, ends, file) /\ q \in Client BY <1>7, <1>9
    <2>5. cl[c].state = "START" => v.hist[v.run][v.off + 1] = v.now BY SlaveNow
    <2>6. c \in drop => /\ ~j.mopen
                        /\ ch.sopen => j.net = ch.net /\ KeptChan(v, ch, u, j)
      BY <1>1, <1>2, <1>4, DropChan
    <2>7. c \notin drop => j = ch BY <1>2, <1>4, <1>17, MCloseIs
    <2>8. /\ (c \in ends) = (q.state = "END") /\ (c \in late) = (q.state = "START")
      BY <1>6
    <2> HIDE DEF v, u, q, ch, j
    <2>9. CASE c \in drop
      <3>1. u.k = NewClient BY <2>3, <2>4, <2>9 DEF MovedTo
      <3>2. (u.net = v.net => Kept(v, u)) /\ ClientOK(u, j) BY <2>1, <2>3, <2>6, <2>9, <3>1, DropView
      <3> QED BY <2>2, <2>3, <2>6, <2>9, <3>2 DEF Unnoticed, v, u, ch, j
    <2>10. CASE c \notin drop
      <3> SUFFICES Kept(v, u) /\ ClientOK(u, ch) /\ (u.k.state = "NONE" => v.k.state = "NONE")
        <4>1. KeptChan(v, ch, u, ch) <=> (u.k.state = "NONE" /\ ch.mopen => v.k.state = "NONE")
          BY DEF KeptChan
        <4> QED BY <2>7, <2>10, <4>1 DEF Unnoticed, v, u, ch, j
      <3>1. u.net = v.net BY <2>2, <2>3, <2>7, <2>10
      <3>2. CASE q.state = "START"
        <4>1. moved[c] = [q EXCEPT !.state = "END"] /\ late # {} BY <2>4, <2>8, <3>2 DEF MovedTo
        <4>2. u.k.state = "END" /\ u.k.out = q.out /\ u.k.wh = q.wh BY <2>3, <2>4, <4>1 DEF Client
        <4>3. /\ u.child.rdb = [data |-> v.now.data, snap |-> v.off] /\ u.child.type # "NONE"
              /\ ~u.child.wrote
          BY <1>14, <2>2, <2>3, <4>1
        <4>4. Kept(v, u) /\ ClientOK(u, ch)
          BY <2>1, <2>2, <2>3, <2>5, <3>1, <3>2, <4>2, <4>3, StartView DEF q
        <4> QED BY <4>2, <4>4
      <3>3. CASE q.state = "END" /\ child.type = "DISK"
        <4>1. moved[c] = [q EXCEPT !.state = "BULK", !.wh = FALSE, !.rdb = file] /\ file = child.rdb
          BY <1>8, <2>4, <2>8, <2>10, <3>3 DEF MovedTo
        <4> DEFINE q1 == [q EXCEPT !.state = "BULK"]
                   q2 == [q1 EXCEPT !.wh = FALSE]
                   q3 == [q2 EXCEPT !.rdb = file]
        <4>2. q3.state = "BULK" /\ q3.out = q.out /\ q3.wh = FALSE /\ q3.rdb = file
          BY <2>4 DEF Client
        <4>3. u.k = q3 BY <2>3, <4>1
        <4> HIDE DEF q3
        <4>4. Kept(v, u) /\ ClientOK(u, ch)
          BY <2>1, <2>2, <2>3, <3>1, <3>3, <4>1, <4>2, <4>3, DoneView
        <4> QED BY <4>2, <4>3, <4>4
      <3>4. CASE q.state = "END" /\ child.type = "SOCKET"
        <4>1. moved[c] = [q EXCEPT !.state = "ONLINE", !.onack = TRUE] /\ c \in child.ids /\ child.wrote
          BY <1>8, <2>4, <2>8, <2>10, <3>4 DEF MovedTo
        <4> DEFINE q1 == [q EXCEPT !.state = "ONLINE"]
                   q2 == [q1 EXCEPT !.onack = TRUE]
        <4>2. q2.state = "ONLINE" /\ q2.out = q.out BY <2>4 DEF Client
        <4>3. u.k = q2 BY <2>3, <4>1
        <4> HIDE DEF q2
        <4>4. Kept(v, u) /\ ClientOK(u, ch)
          BY <2>1, <2>2, <2>3, <3>1, <3>4, <4>1, <4>2, <4>3, DoneView
        <4> QED BY <4>2, <4>3, <4>4
      <3>5. CASE q.state \in {"BULK", "ONLINE"}
        <4>1. u.k = q BY <2>3, <2>4, <2>8, <3>5 DEF MovedTo
        <4>2. Kept(v, u) /\ ClientOK(u, ch) BY <2>1, <2>2, <2>3, <3>1, <3>5, <4>1, DoneView
        <4> QED BY <2>2, <4>1, <4>2
      <3>6. CASE q.state = "NONE"
        <4>1. u.k = q BY <2>3, <2>4, <2>8, <3>6 DEF MovedTo
        <4>2. v.k = NewClient BY <2>1, <2>2, <3>6 DEF ClientOK
        <4>3. Kept(v, u) BY <2>1, <2>2, <2>3, <3>1, <4>1, <4>2, DropView
        <4>4. ClientOK(u, ch) BY <2>1, <2>2, <2>3, <3>6, <4>1 DEF ClientOK
        <4> QED BY <2>2, <3>6, <4>3, <4>4
      <3>7. q.state \in {"NONE", "START", "END", "BULK", "ONLINE"} BY <2>4 DEF Client
      <3> QED BY <1>5, <3>2, <3>3, <3>4, <3>5, <3>6, <3>7
    <2> QED BY <2>9, <2>10
  <1> QED BY <1>2, <1>16, <1>18, MasterRest

(***************************************************************************)
(* What the master sends.                                                  *)
(***************************************************************************)

\* The queue q after p was sent.
Sent(w, q, p) ==
    /\ w \in Seq(Msg)
    /\ q = << >> => w = p
    /\ q # << >> => w # << >> /\ Head(w) = Head(q) /\ Tail(w) = Tail(q) \o p

\* A queue is read from its head.
LEMMA SentIs ==
    ASSUME NEW q \in Seq(Msg), NEW p \in Seq(Msg)
    PROVE  Sent(q \o p, q, p)
  <1> DEFINE w == q \o p
  <1>1. w \in Seq(Msg) /\ Len(w) = Len(q) + Len(p) /\ Len(q) \in Nat /\ Len(p) \in Nat OBVIOUS
  <1>2. q = << >> => w = p OBVIOUS
  <1>3. ASSUME q # << >> PROVE w # << >> /\ Head(w) = Head(q) /\ Tail(w) = Tail(q) \o p
    <2> DEFINE t == Tail(q)
               y == <<Head(q)>>
    <2>1. y \in Seq(Msg) /\ t \in Seq(Msg) /\ Len(y) = 1 /\ y[1] = Head(q) BY <1>3
    <2>2. q = y \o t BY <1>3
    <2> HIDE DEF t, y
    <2>3. (y \o t) \o p = y \o (t \o p) BY <2>1, ConcatAssociative
    <2>4. w = y \o (t \o p) BY <2>2, <2>3
    <2>5. t \o p \in Seq(Msg) BY <2>1
    <2> DEFINE z == t \o p
    <2> HIDE DEF z, w
    <2>6. z \in Seq(Msg) /\ w = y \o z BY <2>4, <2>5 DEF z
    <2>8. w \in Seq(Msg) /\ w # << >> /\ w[1] = y[1]
      <3>1. w \in Seq(Msg) /\ Len(w) = Len(y) + Len(z) /\ \A i \in 1..(Len(y) + Len(z)) :
               w[i] = IF i <= Len(y) THEN y[i] ELSE z[i - Len(y)]
        BY <2>1, <2>6, ConcatProperties
      <3>2. Len(z) \in Nat BY <2>6
      <3>3. 1 \in 1..(Len(y) + Len(z)) /\ 1 <= Len(y) /\ Len(w) >= 1 BY <2>1, <3>1, <3>2
      <3>4. w[1] = y[1] BY <3>1, <3>3
      <3> QED BY <3>1, <3>3, <3>4
    <2>9. Head(w) = y[1] BY <2>8
    <2>10. Tail(w) = z
      <3>1. w = <<Head(w)>> \o Tail(w) /\ Tail(w) \in Seq(Msg) BY <2>8
      <3>2. y = <<Head(w)>>
        <4>1. y = <<Head(q)>> /\ Head(w) = Head(q) BY <2>1, <2>9 DEF y
        <4> QED BY <4>1
      <3>3. y \o Tail(w) = y \o z BY <2>6, <3>1, <3>2
      <3> QED BY <2>1, <2>6, <3>1, <3>3, ConcatSimplifications
    <2>7. w # << >> /\ Head(w) = y[1] /\ Tail(w) = z BY <2>8, <2>9, <2>10
    <2> QED BY <2>1, <2>7 DEF z, t, w
  <1> QED BY <1>1, <1>2, <1>3 DEF Sent

\* A reader in state st for whom w instead of q is on its way is as well off.
OutKeeps(v, u, st, q, w) ==
    /\ Caught(v, st, q) => Caught(u, st, w)
    /\ \A r, o : Exact(v, st, r, o, q) => Exact(u, st, r, o, w)

\* The buffer goes out.
LEMMA OutExact ==
    ASSUME NEW v, NEW u, IsView(v), IsView(u), Live(v), u.net = v.net, u.k.state = v.k.state,
           u.hist = v.hist, u.run = v.run, u.off = v.off, u.now = v.now, u.k.out = << >>,
           NEW q \in Seq(Msg), NEW w, Joined(w, q, v.k.out), NEW st \in State
    PROVE  OutKeeps(v, u, st, q, w)
  <1> DEFINE a == v.k.out
             h == v.hist[v.run]
  <1>1. a \in Seq(Reply) /\ Reply \subseteq Msg BY MakesMsg DEF IsView, Client
  <1>2. a \in Seq(Msg) BY <1>1, SeqMonotonic
  <1>3. w = q \o a /\ w \in Seq(Msg) /\ Len(w) = Len(q) + Len(a) /\ Len(q) \in Nat /\ Len(a) \in Nat
    BY <1>2 DEF Joined
  <1>4. h \in Seq(Point) /\ Len(h) \in Nat /\ v.off \in Nat /\ v.run \in Nat BY DEF IsView
  <1> HIDE DEF a, h
  <1>5. Caught(v, st, q) => Caught(u, st, w)
    <2>1. w \o << >> = w BY <1>3
    <2>2. w = q \o v.k.out BY <1>3 DEF a
    <2> QED BY <2>1, <2>2 DEF Caught
  <1>6. ASSUME NEW r, NEW o, Exact(v, st, r, o, q) PROVE Exact(u, st, r, o, w)
    <2>1. /\ r \in 0..v.run /\ Follows(q, v.hist[r], o) /\ Compat(st, v.hist[r][o + 1])
          /\ r = v.run /\ o + Len(q) + Len(a) = v.off /\ Follows(a, h, o + Len(q))
      BY <1>6 DEF Exact, a, h
    <2>2. Follows(q, h, o) BY <2>1 DEF h
    <2>3. Follows(w, h, o) BY <1>2, <1>3, <2>1, <2>2, FollowsConcat
    <2>4. o \in Nat /\ o + Len(w) < Len(h) BY <2>3 DEF Follows
    <2>5. o + Len(w) = v.off BY <1>3, <2>1, <2>4
    <2>6. Follows(<< >>, h, o + Len(w)) BY <1>3, <1>4, <2>4, FollowsNone
    <2>7. o + Len(w) + Len(<< >>) = v.off
      <3>1. Len(<< >>) = 0 /\ o + Len(w) \in Nat BY <1>3, <2>4
      <3> QED BY <2>5, <3>1
    <2> QED BY <2>1, <2>3, <2>6, <2>7 DEF Exact, h
  <1> QED BY <1>5, <1>6 DEF OutKeeps

\* Transfer, with more on its way.
LEMMA OutTransfer ==
    ASSUME NEW v, NEW u, IsView(v), IsView(u), v.net, v.k.state = "ONLINE", u.net = v.net,
           u.k.state = v.k.state, u.mine = v.mine, u.child = v.child,
           u.hist = v.hist, u.run = v.run, u.off = v.off, u.now = v.now, u.k.out = << >>,
           NEW q \in Seq(Msg), NEW w, w = q \o v.k.out,
           NEW i \in [run : Int, off : Int], Transfer(v, q, i)
    PROVE  Transfer(u, w, i)
  <1> DEFINE a == v.k.out
  <1>1. a \in Seq(Reply) /\ Reply \subseteq Msg BY MakesMsg DEF IsView, Client
  <1>2. a \in Seq(Msg) BY <1>1, SeqMonotonic
  <1>3. Sent(w, q, a) BY <1>2, SentIs
  <1>4. Live(v) BY DEF Live
  <1>5. CASE q = << >> /\ Awaits(v, i) BY <1>4, <1>5 DEF Awaits
  <1>6. CASE q # << >> /\ Head(q)[1] \in {"full", "cont"} BY <1>3, <1>6 DEF Transfer, Sent
  <1>7. CASE q # << >> /\ Head(q)[1] \in {"bulk", "eof"} /\ Served(v) /\ Loads(v, Head(q)[2], Tail(q), i)
    <2> DEFINE rdb == Head(q)[2]
               t == Tail(q)
               s == Tail(w)
    <2>1. Head(q) \in Msg /\ t \in Seq(Msg) BY <1>7
    <2>2. rdb \in Rdb BY <1>7, <2>1, MsgIs
    <2>3. St(0, rdb.data) \in State BY <2>2, LoadState DEF Rdb
    <2>4. Served(u) BY <1>7 DEF Served
    <2>5. Loads(v, rdb, t, i) BY <1>7
    <2>6. Joined(s, t, v.k.out) /\ w # << >> /\ Head(w) = Head(q) BY <1>3, <1>7 DEF Sent, Joined
    <2> HIDE DEF rdb, t, s
    <2>7. OutKeeps(v, u, St(0, rdb.data), t, s) BY <1>4, <2>1, <2>3, <2>6, OutExact
    <2>9. Loads(u, rdb, s, i) BY <2>5, <2>7 DEF Loads, OutKeeps
    <2> QED BY <1>7, <2>4, <2>6, <2>9 DEF Transfer, rdb, s
  <1> QED BY <1>5, <1>6, <1>7 DEF Transfer

\* The slave the buffer goes to.
LEMMA OutAt ==
    ASSUME NEW v, NEW u, IsView(v), IsView(u), v.net, v.k.state = "ONLINE", u.net = v.net,
           u.k.state = v.k.state, u.mine = v.mine, u.child = v.child,
           u.hist = v.hist, u.run = v.run, u.off = v.off, u.now = v.now, u.k.out = << >>,
           NEW ch \in Channel, NEW j \in Channel, Joined(j.m2s, ch.m2s, v.k.out), j.s2m = ch.s2m,
           j.mopen = ch.mopen,
           NEW r, NEW m \in Link, NEW q \in Link, NEW i \in [run : Int, off : Int], NEW x \in Data,
           NEW p, AtConn(v, ch, r, m, q, i, x, p)
    PROVE  AtConn(u, j, r, m, q, i, x, p)
  <1> DEFINE a == v.k.out
             c == ch.m2s
             w == j.m2s
  <1>1. a \in Seq(Reply) /\ Reply \subseteq Msg BY MakesMsg DEF IsView, Client
  <1>2. a \in Seq(Msg) /\ c \in Seq(Msg) /\ w = c \o a BY <1>1, SeqMonotonic DEF Channel, Joined
  <1>3. Sent(w, c, a) BY <1>2, SentIs
  <1>4. Live(v) BY DEF Live
  <1>5. r # "CONNECTING" BY DEF AtConn, InConnecting
  <1>6. ASSUME r = "PSYNC" PROVE InPsync(u, j, q, i, x, p)
    <2>1. InPsync(v, ch, q, i, x, p) BY <1>6 DEF AtConn
    <2>2. c # << >> BY <2>1 DEF InPsync
    <2>3. w # << >> /\ Head(w) = Head(c) /\ Tail(w) = Tail(c) \o a BY <1>3, <2>2 DEF Sent
    <2>4. i = NoInit /\ \A n \in 1..Len(j.s2m) : j.s2m[n] = PsyncMsg(q) BY <2>1 DEF InPsync
    <2> DEFINE t == Tail(c)
               s == Tail(w)
               n == [run |-> Head(c)[2], off |-> Head(c)[3]]
    <2>9. Head(c) \in Msg /\ t \in Seq(Msg)
      <3>1. c \in Seq(Msg) /\ c # << >> BY <1>2, <2>2
      <3> HIDE DEF c
      <3> QED BY <3>1
    <2>5. Head(c) \in Msg /\ t \in Seq(Msg) /\ Joined(s, t, v.k.out) BY <2>3, <2>9 DEF Joined
    <2>6. ASSUME Head(c)[1] = "full", Transfer(v, t, n) PROVE Transfer(u, s, n)
      <3>1. Head(c)[2] \in Int /\ Head(c)[3] \in Int BY <2>5, <2>6, MsgIs
      <3>2. n \in [run : Int, off : Int] BY <3>1
      <3> HIDE DEF n, t, s
      <3>3. s = t \o v.k.out BY <2>5 DEF Joined
      <3> QED BY <2>5, <2>6, <3>2, <3>3, OutTransfer
    <2>7. ASSUME q.on, q.run >= 0, Served(v), p = "exact" => Exact(v, St(q.db, x), q.run, q.off, t)
          PROVE  Served(u) /\ (p = "exact" => Exact(u, St(q.db, x), q.run, q.off, s))
      <3>1. St(q.db, x) \in State BY DEF St, State, Link
      <3>2. Served(u) BY <2>7 DEF Served
      <3> HIDE DEF t, s
      <3>3. OutKeeps(v, u, St(q.db, x), t, s) BY <1>4, <2>5, <3>1, OutExact
      <3> QED BY <2>7, <3>2, <3>3 DEF OutKeeps
    <2>8. \/ /\ Head(w)[1] = "full" /\ Head(w)[3] >= -1
             /\ Transfer(u, Tail(w), [run |-> Head(w)[2], off |-> Head(w)[3]])
          \/ /\ Head(w)[1] = "cont" /\ q.on /\ q.run >= 0 /\ Served(u)
             /\ p = "exact" => Exact(u, St(q.db, x), q.run, q.off, Tail(w))
      BY <2>1, <2>2, <2>3, <2>6, <2>7 DEF InPsync
    <2> QED BY <2>3, <2>4, <2>8 DEF InPsync
  <1>7. ASSUME r = "TRANSFER" PROVE InTransfer(u, j, i)
    <2>1. InTransfer(v, ch, i) BY <1>7 DEF AtConn
    <2>2. Transfer(v, c, i) BY <2>1 DEF InTransfer
    <2> HIDE DEF c, w, a
    <2>3. Transfer(u, w, i) BY <1>2, <2>2, OutTransfer DEF a
    <2> QED BY <2>1, <2>3 DEF InTransfer, w
  <1>8. ASSUME r = "CONNECTED" PROVE InConnected(u, j, m, x, p)
    <2>1. InConnected(v, ch, m, x, p) BY <1>8 DEF AtConn
    <2>2. St(m.db, x) \in State BY DEF St, State, Link
    <2>3. Served(u) BY <2>1 DEF InConnected, Served
    <2>4. OutKeeps(v, u, St(m.db, x), ch.m2s, j.m2s) BY <1>2, <1>4, <2>2, OutExact
    <2> QED BY <2>1, <2>3, <2>4 DEF InConnected, OutKeeps
  <1> QED BY <1>5, <1>6, <1>7, <1>8 DEF AtConn

\* What sendReplyToClient and sendBulkToSlave leave alone.
LEMMA OneConn ==
    ASSUME ExactInv, TypeInv', Still, UNCHANGED <<bl, child, rs, sc, master, cached, init, sdata, pos>>,
           NEW c \in Conns, \A d \in Conns : d # c => chan'[d] = chan[d] /\ cl'[d] = cl[d],
           ClientOK(ViewN(c), chan'[c]),
           chan[c].sopen => Unnoticed(c) \/ \A s \in Slaves : sc[s] = c => AtNext(s, c)
    PROVE  Rest'
  <1>1. Onward /\ HistInv' BY StillHist
  <1>2. ASSUME NEW d \in Conns, d # c PROVE Unnoticed(d) /\ ClientOK(ViewN(d), chan'[d])
    <2>1. chan'[d] = chan[d] /\ cl'[d] = cl[d] BY <1>2
    <2> QED BY <2>1, SameSame, QuietConn
  <1> QED BY <1>1, <1>2, MasterRest

\* The slave at a connection.
LEMMA AtConnIs ==
    ASSUME ExactInv, NEW s \in Slaves, sc[s] \in Conns
    PROVE  /\ AtConn(View(sc[s]), chan[sc[s]], rs[s], master[s], cached[s], init[s], sdata[s], pos[s])
           /\ master[s] \in Link /\ cached[s] \in Link /\ init[s] \in [run : Int, off : Int]
           /\ sdata[s] \in Data /\ rs[s] \notin {"NONE", "CONNECT"} /\ chan[sc[s]].sopen
           /\ LinkOK(s, chan[sc[s]], rs[s], cached[s])
  <1>1. TypeInv /\ SlaveAt(s) BY DEF ExactInv
  <1>2. SlaveOK(rs[s], sc[s], master[s], cached[s], init[s], sdata[s], pos[s])
    BY <1>1, SlaveIs DEF TypeInv
  <1>3. sc[s] # NoConn BY ReplAssumption
  <1>4. rs[s] \notin {"NONE", "CONNECT"} BY <1>2, <1>3 DEF SlaveOK
  <1>5. LinkOK(s, chan[sc[s]], rs[s], cached[s]) /\ chan[sc[s]].sopen BY <1>1, <1>4, OwnLink DEF LinkOK
  <1> QED BY <1>1, <1>2, <1>3, <1>4, <1>5 DEF SlaveAt, SlaveOK

\* sendReplyToClient.
LEMMA ExactReply ==
    ASSUME ExactInv, TypeInv', NEW c \in Conns, sendReplyToClient(c)
    PROVE  Rest'
  <1> DEFINE v == View(c)
             u == ViewN(c)
             q == cl[c]
             ch == chan[c]
             j == chan'[c]
  <1>1. TypeInv /\ chan \in [Conns -> Channel] /\ cl \in [Conns -> Client]
    BY DEF ExactInv, TypeInv, ChanTypes, ClientTypes
  <1>2. /\ chan[c].mopen /\ cl[c].wh /\ chan' = MSend(chan, c, cl[c].out)
        /\ cl' = [cl EXCEPT ![c].out = << >>, ![c].wh = FALSE]
        /\ UNCHANGED <<hist, runid, moff, seldb, mdata>>
        /\ UNCHANGED <<bl, child, rs, sc, master, cached, init, sdata, pos>>
    BY DEF sendReplyToClient, svars, hvars
  <1>3. Still BY <1>2 DEF Still
  <1>4. /\ IsView(v) /\ IsView(u) /\ ClientOK(v, ch) /\ Len(v.hist[v.run]) = v.off + 1
        /\ Older(v, u) /\ u.hist = v.hist /\ u.run = v.run /\ u.off = v.off /\ u.now = v.now
    BY <1>3, StillView
  <1>5. /\ v.net = ch.net /\ v.k = q /\ v.child = child /\ v.mine = (c \in child.ids)
        /\ u.net = j.net /\ u.k = cl'[c] /\ u.child = child' /\ u.mine = (c \in child'.ids)
    BY ViewIs, ViewNIs
  <1>6. q \in Client /\ ch \in Channel BY <1>1
  <1>7. q.out \in Seq(Reply) /\ Reply \subseteq Msg BY <1>6, MakesMsg DEF Client
  <1>8. q.out \in Seq(Msg) BY <1>7, SeqMonotonic
  <1>9. /\ chan' \in [Conns -> Channel] /\ \A d \in Conns : d # c => chan'[d] = chan[d]
        /\ j = IF ch.net /\ ch.sopen THEN [ch EXCEPT !.m2s = @ \o q.out] ELSE ch
    BY <1>1, <1>2, <1>8, MSendIs
  <1>10. \A d \in Conns : d # c => cl'[d] = cl[d] BY <1>1, <1>2
  <1>11. cl'[c].out = << >> /\ cl'[c].wh = FALSE /\ cl'[c].state = q.state /\ cl'[c].rdb = q.rdb
    <2> DEFINE q1 == [q EXCEPT !.out = << >>]
               q2 == [q1 EXCEPT !.wh = FALSE]
    <2>1. cl'[c] = q2 BY <1>1, <1>2
    <2> HIDE DEF q
    <2>2. q2.out = << >> /\ q2.wh = FALSE /\ q2.state = q.state /\ q2.rdb = q.rdb BY <1>6 DEF Client
    <2> QED BY <2>1, <2>2 DEF q
  <1>12. q.wh BY <1>2
  <1>13. j \in Channel BY <1>9
  <1> HIDE DEF v, u, q, ch, j
  <1>14. q.state = "ONLINE" /\ ~v.mine BY <1>4, <1>5, <1>12 DEF ClientOK
  <1>15. /\ u.mine = v.mine /\ u.child = v.child /\ u.k.state = v.k.state /\ u.k.out = << >>
         /\ v.k.state = "ONLINE" /\ ~u.k.wh
    BY <1>2, <1>5, <1>11, <1>14
  <1>16. ClientOK(u, j)
    <2>1. ch.mopen /\ ch.mopen = j.mopen
      <3>1. [ch EXCEPT !.m2s = @ \o q.out].mopen = ch.mopen BY <1>6 DEF Channel
      <3> QED BY <1>2, <1>9, <3>1 DEF ch
    <2> QED BY <1>14, <1>15, <2>1 DEF ClientOK
  <1>17. CASE ~ch.net
    <2>1. j = ch BY <1>9, <1>17
    <2>2. u.net = v.net /\ ~Live(u) BY <1>5, <1>17, <2>1 DEF Live
    <2>3. Served(v) => Served(u) BY <1>15 DEF Served
    <2>4. Kept(v, u) BY <1>4, <1>14, <1>15, <2>2, <2>3, DeadKept
    <2>5. KeptChan(v, ch, u, j) BY <1>15, <2>1 DEF KeptChan
    <2>6. Unnoticed(c) BY <2>4, <2>5 DEF Unnoticed, v, u, ch, j
    <2> QED BY <1>2, <1>3, <1>9, <1>10, <1>16, <2>6, OneConn DEF u, j
  <1>18. CASE ch.net /\ ~ch.sopen
    BY <1>2, <1>3, <1>9, <1>10, <1>16, <1>18, OneConn DEF u, j, ch
  <1>19. CASE ch.net /\ ch.sopen
    <2>1. j = [ch EXCEPT !.m2s = @ \o q.out] BY <1>9, <1>19
    <2>2. /\ j.mopen = ch.mopen /\ j.net = ch.net /\ j.s2m = ch.s2m /\ j.m2s = ch.m2s \o q.out
      BY <1>6, <2>1 DEF Channel
    <2>3. Joined(j.m2s, ch.m2s, v.k.out) BY <1>5, <2>2 DEF Joined
    <2>4. v.net /\ u.net = v.net BY <1>5, <1>19, <2>2
    <2>5. ASSUME NEW s \in Slaves, sc[s] = c PROVE AtNext(s, c)
      <3>1. /\ AtConn(v, ch, rs[s], master[s], cached[s], init[s], sdata[s], pos[s])
            /\ master[s] \in Link /\ cached[s] \in Link /\ init[s] \in [run : Int, off : Int]
            /\ sdata[s] \in Data
        BY <2>5, AtConnIs DEF v, ch
      <3>2. AtConn(u, j, rs[s], master[s], cached[s], init[s], sdata[s], pos[s])
        BY <1>4, <1>6, <1>13, <1>15, <2>2, <2>3, <2>4, <3>1, OutAt
      <3> QED BY <3>2 DEF AtNext, u, j
    <2> QED BY <1>2, <1>3, <1>9, <1>10, <1>16, <2>5, OneConn DEF u, j
  <1> QED BY <1>17, <1>18, <1>19

\* An RDB is sent to a slave that waited for it.
LEMMA RdbAt ==
    ASSUME NEW v, NEW u, v.net, v.k.state # "NONE" \/ v.mine, ~Served(v),
           u.k.state = "NONE" => v.k.state = "NONE",
           NEW e \in Msg, e[1] \in {"bulk", "eof"},
           \A i \in [run : Int, off : Int] : Awaits(v, i) => Served(u) /\ Loads(u, e[2], << >>, i),
           NEW ch \in Channel, NEW j \in Channel, Joined(j.m2s, ch.m2s, <<e>>), j.s2m = ch.s2m,
           j.mopen = ch.mopen,
           NEW r, NEW m \in Link, NEW q \in Link, NEW i \in [run : Int, off : Int], NEW x \in Data,
           NEW p, AtConn(v, ch, r, m, q, i, x, p)
    PROVE  AtConn(u, j, r, m, q, i, x, p)
  <1> DEFINE a == <<e>>
             c == ch.m2s
             w == j.m2s
  <1>1. a \in Seq(Msg) /\ c \in Seq(Msg) /\ w = c \o a BY DEF Channel, Joined
  <1>2. Sent(w, c, a) BY <1>1, SentIs
  <1>3. r # "CONNECTING" /\ r # "CONNECTED" BY DEF AtConn, InConnecting, InConnected
  <1>4. a # << >> /\ Head(a) = e /\ Tail(a) = << >> OBVIOUS
  <1> HIDE DEF a
  <1>5. ASSUME NEW t \in Seq(Msg), NEW s, Sent(s, t, a), NEW n \in [run : Int, off : Int],
               Transfer(v, t, n)
        PROVE  Transfer(u, s, n)
    <2>1. CASE t = << >> /\ Awaits(v, n)
      <3>1. s = a BY <1>5, <2>1 DEF Sent
      <3>2. Served(u) /\ Loads(u, e[2], << >>, n) BY <2>1
      <3> QED BY <1>4, <3>1, <3>2 DEF Transfer
    <2>2. CASE t # << >> /\ Head(t)[1] \in {"full", "cont"} BY <1>5, <2>2 DEF Transfer, Sent
    <2> QED BY <1>5, <2>1, <2>2 DEF Transfer
  <1>6. ASSUME r = "PSYNC" PROVE InPsync(u, j, q, i, x, p)
    <2>1. InPsync(v, ch, q, i, x, p) BY <1>6 DEF AtConn
    <2>2. c # << >> BY <2>1 DEF InPsync
    <2>3. w # << >> /\ Head(w) = Head(c) /\ Tail(w) = Tail(c) \o a BY <1>2, <2>2 DEF Sent
    <2>4. i = NoInit /\ \A n \in 1..Len(j.s2m) : j.s2m[n] = PsyncMsg(q) BY <2>1 DEF InPsync
    <2> DEFINE t == Tail(c)
               s == Tail(w)
               n == [run |-> Head(c)[2], off |-> Head(c)[3]]
    <2>5. Head(c)[1] = "full" /\ Head(c)[3] >= -1 /\ Transfer(v, t, n) BY <2>1, <2>2 DEF InPsync
    <2>6. Head(c) \in Msg /\ t \in Seq(Msg)
      <3>1. c \in Seq(Msg) /\ c # << >> BY <1>1, <2>2
      <3> HIDE DEF c
      <3> QED BY <3>1
    <2>7. Head(c)[2] \in Int /\ Head(c)[3] \in Int BY <2>5, <2>6, MsgIs
    <2>8. n \in [run : Int, off : Int] BY <2>7
    <2>9. Sent(s, t, a)
      <3>1. s = t \o a BY <2>3
      <3> HIDE DEF s, t
      <3> QED BY <1>1, <2>6, <3>1, SentIs
    <2> HIDE DEF n, t, s
    <2>10. Transfer(u, s, n) BY <1>5, <2>5, <2>6, <2>8, <2>9
    <2>11. Transfer(u, Tail(w), [run |-> Head(w)[2], off |-> Head(w)[3]]) BY <2>3, <2>10 DEF n, s
    <2> QED BY <2>3, <2>4, <2>5, <2>11 DEF InPsync
  <1>7. ASSUME r = "TRANSFER" PROVE InTransfer(u, j, i)
    <2>1. InTransfer(v, ch, i) BY <1>7 DEF AtConn
    <2>2. Transfer(v, c, i) BY <2>1 DEF InTransfer
    <2>3. Transfer(u, w, i) BY <1>1, <1>2, <1>5, <2>2
    <2> QED BY <2>1, <2>3 DEF InTransfer
  <1> QED BY <1>3, <1>6, <1>7 DEF AtConn

\* Marked keeps the offset or says that there is none.
LEMMA MarkedIs ==
    ASSUME NEW rdb \in Rdb, NEW k
    PROVE  /\ Marked(rdb, k) \in Rdb /\ Marked(rdb, k).data = rdb.data
           /\ Marked(rdb, k).snap = (IF rdb.snap + Len(k.out) = moff THEN rdb.snap ELSE -2)
  BY DEF Marked, Rdb

\* The RDB and the buffer behind it are what the slave was announced.
LEMMA LoadsRdb ==
    ASSUME NEW v, NEW u, IsView(v), IsView(u), u.hist = v.hist, u.run = v.run, u.off = v.off,
           u.now = v.now, u.net = v.net, u.k.out = v.k.out, Len(v.hist[v.run]) = v.off + 1,
           NEW rdb \in Rdb, rdb.snap \in 0..v.off, Live(u) => RdbOK(v, rdb),
           NEW mark, mark.data = rdb.data,
           mark.snap = (IF rdb.snap + Len(v.k.out) = v.off THEN rdb.snap ELSE -2),
           NEW i \in [run : Int, off : Int], i.off >= -1,
           i.off = rdb.snap /\ rdb.snap + Len(v.k.out) = v.off =>
               i.run = v.run /\ Compat(St(0, rdb.data), v.hist[v.run][rdb.snap + 1])
    PROVE  Loads(u, mark, << >>, i)
  <1> DEFINE st == St(0, rdb.data)
             h == v.hist[v.run]
  <1>1. v.k.out \in Seq(Reply) /\ v.off \in Nat /\ v.run \in Nat /\ h \in Seq(Point)
    BY DEF IsView, Client
  <1>2. << >> \o v.k.out = v.k.out BY <1>1
  <1>3. Caught(u, st, << >>) BY <1>2 DEF Caught, RdbOK
  <1>4. ASSUME i.off = mark.snap PROVE Exact(u, st, i.run, mark.snap, << >>)
    <2>1. rdb.snap + Len(v.k.out) = v.off /\ mark.snap = rdb.snap BY <1>4
    <2>2. i.run = v.run /\ Compat(st, h[rdb.snap + 1]) BY <1>4, <2>1
    <2>3. rdb.snap \in Nat /\ rdb.snap < Len(h) /\ Len(h) \in Nat BY <1>1
    <2>4. Follows(<< >>, h, rdb.snap) BY <2>3, FollowsNone
    <2>5. Len(<< >>) = 0 /\ rdb.snap + 0 = rdb.snap BY <2>3
    <2>6. ASSUME Live(u)
          PROVE  /\ rdb.snap + Len(<< >>) + Len(u.k.out) = u.off
                 /\ Follows(u.k.out, u.hist[u.run], rdb.snap + Len(<< >>))
      <3>1. Follows(v.k.out, h, rdb.snap) BY <2>1, <2>6 DEF RdbOK
      <3> QED BY <2>1, <2>5, <3>1
    <2>7. i.run \in 0..u.run BY <1>1, <2>2
    <2> HIDE DEF st
    <2> QED BY <2>1, <2>2, <2>4, <2>6, <2>7 DEF Exact
  <1> QED BY <1>3, <1>4 DEF Loads

\* sendBulkToSlave.
LEMMA ExactBulk ==
    ASSUME ExactInv, TypeInv', NEW c \in Conns, sendBulkToSlave(c)
    PROVE  Rest'
  <1> DEFINE v == View(c)
             u == ViewN(c)
             q == cl[c]
             ch == chan[c]
             j == chan'[c]
             mark == Marked(cl[c].rdb, cl[c])
             e == <<"bulk", mark>>
  <1>1. TypeInv /\ chan \in [Conns -> Channel] /\ cl \in [Conns -> Client]
    BY DEF ExactInv, TypeInv, ChanTypes, ClientTypes
  <1>2. /\ ch.mopen /\ q.state = "BULK" /\ chan' = MSend(chan, c, <<e>>)
        /\ cl' = [cl EXCEPT ![c].state = "ONLINE", ![c].wh = TRUE, ![c].onack = FALSE, ![c].rdb = NoRdb]
        /\ UNCHANGED <<hist, runid, moff, seldb, mdata>>
        /\ UNCHANGED <<bl, child, rs, sc, master, cached, init, sdata, pos>>
    BY DEF sendBulkToSlave, svars, hvars
  <1>3. Still BY <1>2 DEF Still
  <1>4. /\ IsView(v) /\ IsView(u) /\ ClientOK(v, ch) /\ Len(v.hist[v.run]) = v.off + 1
        /\ Older(v, u) /\ u.hist = v.hist /\ u.run = v.run /\ u.off = v.off /\ u.now = v.now
    BY <1>3, StillView
  <1>5. /\ v.net = ch.net /\ v.k = q /\ v.child = child /\ v.mine = (c \in child.ids) /\ v.off = moff
        /\ u.net = j.net /\ u.k = cl'[c] /\ u.child = child' /\ u.mine = (c \in child'.ids)
    BY ViewIs, ViewNIs
  <1>6. q \in Client /\ ch \in Channel /\ q.rdb \in Rdb BY <1>1 DEF Client
  <1>7. /\ mark \in Rdb /\ mark.data = q.rdb.data
        /\ mark.snap = (IF q.rdb.snap + Len(q.out) = moff THEN q.rdb.snap ELSE -2)
    BY <1>6, MarkedIs
  <1>8. e \in Msg /\ e[1] = "bulk" /\ e[2] = mark BY <1>7, MakesMsg
  <1> HIDE DEF mark, e
  <1>9. /\ chan' \in [Conns -> Channel] /\ \A d \in Conns : d # c => chan'[d] = chan[d]
        /\ j = IF ch.net /\ ch.sopen THEN [ch EXCEPT !.m2s = @ \o <<e>>] ELSE ch
    <2>1. <<e>> \in Seq(Msg) BY <1>8
    <2> QED BY <1>1, <1>2, <2>1, MSendIs
  <1>10. \A d \in Conns : d # c => cl'[d] = cl[d] BY <1>1, <1>2
  <1>11. cl'[c].out = q.out /\ cl'[c].state = "ONLINE"
    <2> DEFINE q1 == [q EXCEPT !.state = "ONLINE"]
               q2 == [q1 EXCEPT !.wh = TRUE]
               q3 == [q2 EXCEPT !.onack = FALSE]
               q4 == [q3 EXCEPT !.rdb = NoRdb]
    <2>1. cl'[c] = q4 BY <1>1, <1>2
    <2> HIDE DEF q
    <2>2. q1 \in [state : {"ONLINE"}, out : {q.out}, wh : BOOLEAN, onack : BOOLEAN, rdb : Rdb]
      BY <1>6 DEF Client
    <2> HIDE DEF q1
    <2>3. q2.out = q.out /\ q2.state = "ONLINE" /\ DOMAIN q2 = DOMAIN q1 BY <2>2
    <2>4. q4.out = q.out /\ q4.state = "ONLINE" BY <2>2, <2>3
    <2> QED BY <2>1, <2>4 DEF q
  <1>12. j \in Channel BY <1>9
  <1> HIDE DEF v, u, q, ch, j
  <1>13. ~v.mine /\ ~Served(v) /\ RdbOK(v, q.rdb) BY <1>2, <1>4, <1>5 DEF ClientOK, Served
  <1>14. /\ u.mine = v.mine /\ u.k.state = "ONLINE" /\ u.k.out = v.k.out /\ v.k.state = "BULK"
    BY <1>2, <1>5, <1>11
  <1>15. ClientOK(u, j)
    <2>1. j.mopen
      <3>1. [ch EXCEPT !.m2s = @ \o <<e>>].mopen = ch.mopen BY <1>6 DEF Channel
      <3> QED BY <1>2, <1>9, <3>1 DEF ch
    <2> QED BY <1>13, <1>14, <2>1 DEF ClientOK
  <1>16. CASE ~ch.net
    <2>1. j = ch BY <1>9, <1>16
    <2>2. u.net = v.net /\ ~Live(u) BY <1>5, <1>16, <2>1 DEF Live
    <2>3. Kept(v, u) BY <1>4, <1>13, <1>14, <2>2, DeadKept
    <2>4. KeptChan(v, ch, u, j) BY <1>14, <2>1 DEF KeptChan
    <2>5. Unnoticed(c) BY <2>3, <2>4 DEF Unnoticed, v, u, ch, j
    <2> QED BY <1>2, <1>3, <1>9, <1>10, <1>15, <2>5, OneConn DEF u, j
  <1>17. CASE ch.net /\ ~ch.sopen
    BY <1>2, <1>3, <1>9, <1>10, <1>15, <1>17, OneConn DEF u, j, ch
  <1>18. CASE ch.net /\ ch.sopen
    <2>1. j = [ch EXCEPT !.m2s = @ \o <<e>>] BY <1>9, <1>18
    <2>2. /\ j.mopen = ch.mopen /\ j.net = ch.net /\ j.s2m = ch.s2m /\ j.m2s = ch.m2s \o <<e>>
      BY <1>6, <2>1 DEF Channel
    <2>3. Joined(j.m2s, ch.m2s, <<e>>) BY <2>2 DEF Joined
    <2>4. v.net /\ u.net = v.net BY <1>5, <1>18, <2>2
    <2>5. ASSUME NEW i \in [run : Int, off : Int], Awaits(v, i)
          PROVE  Served(u) /\ Loads(u, e[2], << >>, i)
      <3>1. Served(u) BY <1>13, <1>14 DEF Served
      <3>2. Live(v) BY <1>14, <2>4 DEF Live
      <3>3. i.off >= -1 /\ (i.off >= 0 => i.run = v.run) BY <2>5, <3>2 DEF Awaits
      <3>4. q.rdb.snap \in 0..v.off BY <1>13 DEF RdbOK
      <3>5. i.off = q.rdb.snap /\ q.rdb.snap + Len(v.k.out) = v.off =>
               i.run = v.run /\ Compat(St(0, q.rdb.data), v.hist[v.run][q.rdb.snap + 1])
        BY <1>5, <1>13, <3>3, <3>4 DEF RdbOK
      <3>6. mark.snap = (IF q.rdb.snap + Len(v.k.out) = v.off THEN q.rdb.snap ELSE -2) BY <1>5, <1>7
      <3>7. Loads(u, mark, << >>, i)
        BY <1>4, <1>6, <1>7, <1>13, <1>14, <2>4, <3>3, <3>4, <3>5, <3>6, LoadsRdb
      <3> QED BY <1>8, <3>1, <3>7
    <2>6. ASSUME NEW s \in Slaves, sc[s] = c PROVE AtNext(s, c)
      <3>1. /\ AtConn(v, ch, rs[s], master[s], cached[s], init[s], sdata[s], pos[s])
            /\ master[s] \in Link /\ cached[s] \in Link /\ init[s] \in [run : Int, off : Int]
            /\ sdata[s] \in Data
        BY <2>6, AtConnIs DEF v, ch
      <3>2. AtConn(u, j, rs[s], master[s], cached[s], init[s], sdata[s], pos[s])
        BY <1>6, <1>8, <1>12, <1>13, <1>14, <2>2, <2>3, <2>4, <2>5, <3>1, RdbAt
      <3> QED BY <3>2 DEF AtNext, u, j
    <2> QED BY <1>2, <1>3, <1>9, <1>10, <1>15, <2>6, OneConn DEF u, j
  <1> QED BY <1>16, <1>17, <1>18

\* The views differ in the network and the child only.
LEMMA SameParts ==
    ASSUME NEW v, NEW u, u.hist = v.hist, u.run = v.run, u.off = v.off, u.now = v.now, u.k = v.k
    PROVE  /\ \A rdb : RdbOK(u, rdb) = RdbOK(v, rdb)
           /\ Waiting(u) = Waiting(v)
           /\ u.net = v.net => /\ Live(u) = Live(v)
                               /\ \A st, q : Caught(u, st, q) = Caught(v, st, q)
                               /\ \A st, r, o, q : Exact(u, st, r, o, q) = Exact(v, st, r, o, q)
  BY DEF RdbOK, Waiting, Live, Caught, Exact

\* The link dies.
LEMMA BreakAt ==
    ASSUME NEW v, NEW u, IsView(v), IsView(u), ~u.net, u.mine = v.mine, u.child = v.child,
           u.hist = v.hist, u.run = v.run, u.off = v.off, u.now = v.now, u.k = v.k,
           NEW ch \in Channel, NEW j \in Channel, j.m2s = << >>, j.s2m = << >>, j.mopen = ch.mopen,
           NEW r, NEW m \in Link, NEW q \in Link, NEW i \in [run : Int, off : Int], NEW x \in Data,
           NEW p, AtConn(v, ch, r, m, q, i, x, p)
    PROVE  AtConn(u, j, r, m, q, i, x, p)
  <1>1. ~Live(u) BY DEF Live
  <1>2. Len(j.s2m) = 0 OBVIOUS
  <1>3. r = "CONNECTING" => InConnecting(u, j) BY DEF AtConn, InConnecting
  <1>4. r = "PSYNC" => InPsync(u, j, q, i, x, p) BY <1>2 DEF AtConn, InPsync
  <1>5. ASSUME r = "TRANSFER" PROVE InTransfer(u, j, i)
    <2>1. i.off >= -1 /\ (v.k.state = "NONE" /\ ch.mopen => i = NoInit)
      BY <1>5 DEF AtConn, InTransfer
    <2>2. Awaits(u, i) BY <1>1, <2>1 DEF Awaits
    <2> QED BY <2>1, <2>2 DEF InTransfer, Transfer
  <1>6. ASSUME r = "CONNECTED" PROVE InConnected(u, j, m, x, p)
    <2>1. InConnected(v, ch, m, x, p) BY <1>6 DEF AtConn
    <2>2. Served(u) /\ (j.mopen => u.k.state # "NONE") BY <2>1 DEF InConnected, Served
    <2>3. Caught(u, St(m.db, x), j.m2s) BY <1>1 DEF Caught
    <2>4. ASSUME p = "exact", m.run >= 0 PROVE Exact(u, St(m.db, x), m.run, m.off, j.m2s)
      <3> DEFINE h == v.hist[m.run]
                 n == Len(ch.m2s)
      <3>1. m.run \in 0..v.run /\ Follows(ch.m2s, h, m.off) /\ Compat(St(m.db, x), h[m.off + 1])
        BY <2>1, <2>4 DEF InConnected, Exact
      <3>2. ch.m2s \in Seq(Msg) /\ n \in Nat BY DEF Channel
      <3>3. h \in Seq(Point) /\ Len(h) \in Nat BY <3>1 DEF IsView
      <3>4. m.off \in Nat /\ m.off + n < Len(h) BY <3>1 DEF Follows
      <3> HIDE DEF h, n
      <3>5. m.off < Len(h) BY <3>2, <3>3, <3>4
      <3>6. Follows(<< >>, h, m.off) BY <3>3, <3>4, <3>5, FollowsNone
      <3> QED BY <1>1, <3>1, <3>6 DEF Exact, h
    <2> QED BY <2>2, <2>3, <2>4 DEF InConnected
  <1> QED BY <1>3, <1>4, <1>5, <1>6 DEF AtConn

\* The network loses a connection.
LEMMA ExactNetBreak ==
    ASSUME ExactInv, TypeInv', NEW c \in Conns, NetBreak(c)
    PROVE  Rest'
  <1> DEFINE v == View(c)
             u == ViewN(c)
             ch == chan[c]
             j == chan'[c]
  <1>1. /\ chan' = [chan EXCEPT ![c].net = FALSE, ![c].m2s = << >>, ![c].s2m = << >>]
        /\ UNCHANGED <<hist, runid, moff, seldb, mdata, cl>>
        /\ UNCHANGED <<bl, child, rs, sc, master, cached, init, sdata, pos>>
    BY DEF NetBreak, mvars, svars
  <1>2. Still BY <1>1 DEF Still
  <1>3. TypeInv /\ chan \in [Conns -> Channel] BY DEF ExactInv, TypeInv, ChanTypes
  <1>4. ch \in Channel BY <1>3
  <1>5. /\ j = [ch EXCEPT !.net = FALSE, !.m2s = << >>, !.s2m = << >>]
        /\ \A d \in Conns : d # c => chan'[d] = chan[d]
    BY <1>1, <1>3
  <1>6. j.net = FALSE /\ j.m2s = << >> /\ j.s2m = << >> /\ j.mopen = ch.mopen
    <2> HIDE DEF ch
    <2> QED BY <1>4, <1>5 DEF Channel
  <1>7. j \in Channel BY DEF TypeInv, ChanTypes
  <1>8. /\ IsView(v) /\ IsView(u) /\ ClientOK(v, ch)
        /\ u.hist = v.hist /\ u.run = v.run /\ u.off = v.off /\ u.now = v.now
    BY <1>2, StillView
  <1>9. /\ v.k = cl[c] /\ v.child = child /\ v.mine = (c \in child.ids)
        /\ u.net = j.net /\ u.k = cl'[c] /\ u.child = child' /\ u.mine = (c \in child'.ids)
    BY ViewIs, ViewNIs
  <1> HIDE DEF v, u, ch, j
  <1>10. ~u.net /\ u.mine = v.mine /\ u.child = v.child /\ u.k = v.k BY <1>1, <1>6, <1>9
  <1>11. ClientOK(u, j)
    <2>1. /\ Waiting(u) = Waiting(v) /\ \A rdb : RdbOK(u, rdb) = RdbOK(v, rdb)
      BY <1>8, <1>10, SameParts
    <2> QED BY <1>6, <1>8, <1>10, <2>1 DEF ClientOK
  <1>12. ASSUME NEW s \in Slaves, sc[s] = c PROVE AtNext(s, c)
    <2>1. /\ AtConn(v, ch, rs[s], master[s], cached[s], init[s], sdata[s], pos[s])
          /\ master[s] \in Link /\ cached[s] \in Link /\ init[s] \in [run : Int, off : Int]
          /\ sdata[s] \in Data
      BY <1>12, AtConnIs DEF v, ch
    <2>2. AtConn(u, j, rs[s], master[s], cached[s], init[s], sdata[s], pos[s])
      BY <1>4, <1>6, <1>7, <1>8, <1>10, <2>1, BreakAt
    <2> QED BY <2>2 DEF AtNext, u, j
  <1>13. \A d \in Conns : d # c => chan'[d] = chan[d] /\ cl'[d] = cl[d] BY <1>1, <1>5
  <1> QED BY <1>1, <1>2, <1>11, <1>12, <1>13, OneConn DEF u, j

\* The socket child writes, to others or to nobody.
LEMMA WroteView ==
    ASSUME NEW v, NEW u, IsView(v), IsView(u), Older(v, u), NEW ch, ClientOK(v, ch),
           Len(v.hist[v.run]) = v.off + 1,
           u.hist = v.hist, u.run = v.run, u.off = v.off, u.now = v.now, u.net = v.net, u.k = v.k,
           u.child.rdb = v.child.rdb, u.child.type = v.child.type, ~v.child.wrote, ~u.mine
    PROVE  /\ ClientOK(u, ch)
           /\ ~v.mine \/ ~v.net => Kept(v, u)
  <1>1. /\ Waiting(u) = Waiting(v) /\ \A rdb : RdbOK(u, rdb) = RdbOK(v, rdb)
        /\ Live(u) = Live(v) /\ \A st, q : Caught(u, st, q) = Caught(v, st, q)
        /\ \A st, r, o, q : Exact(u, st, r, o, q) = Exact(v, st, r, o, q)
    BY SameParts
  <1>2. ClientOK(u, ch) BY <1>1 DEF ClientOK
  <1>3. CASE ~v.mine
    <2>1. Served(v) => Served(u) BY <1>3 DEF Served
    <2>2. KeepsExact(v, u) /\ KeepsCaught(v, u) BY <1>1 DEF KeepsExact, KeepsCaught
    <2>3. \A i \in [run : Int, off : Int] : Awaits(v, i) => Awaits(u, i) BY <1>1, <1>3 DEF Awaits
    <2> QED BY <1>2, <1>3, <2>1, <2>2, <2>3 DEF Kept
  <1>4. CASE v.mine /\ ~v.net
    <2>1. ~Served(v) /\ ~Live(u) BY <1>4 DEF Served, Live
    <2>2. Kept(v, u) BY <1>4, <2>1, DeadKept
    <2> QED BY <1>2, <2>2
  <1>5. CASE v.mine /\ v.net BY <1>2, <1>5
  <1> QED BY <1>3, <1>4, <1>5 DEF IsView

\* The socket child writes to a slave.
LEMMA WriteAt ==
    ASSUME NEW v, NEW u, IsView(v), IsView(u), NEW ch \in Channel, ClientOK(v, ch),
           Len(v.hist[v.run]) = v.off + 1,
           u.hist = v.hist, u.run = v.run, u.off = v.off, u.now = v.now, u.net = v.net, u.k = v.k,
           u.child.rdb = v.child.rdb, u.child.type = v.child.type, v.mine, u.mine, v.net,
           ~v.child.wrote, u.child.wrote, v.off = moff,
           NEW e, e = <<"eof", Marked(v.child.rdb, v.k)>>,
           NEW j \in Channel, Joined(j.m2s, ch.m2s, <<e>>), j.s2m = ch.s2m, j.mopen = ch.mopen
    PROVE  /\ ClientOK(u, j)
           /\ \A r, p : \A m \in Link, q \in Link, i \in [run : Int, off : Int], x \in Data :
                 AtConn(v, ch, r, m, q, i, x, p) => AtConn(u, j, r, m, q, i, x, p)
  <1> DEFINE rdb == v.child.rdb
             mark == Marked(rdb, v.k)
  <1>1. /\ Waiting(u) = Waiting(v) /\ \A d : RdbOK(u, d) = RdbOK(v, d)
        /\ Live(u) = Live(v)
    BY SameParts
  <1>2. v.child.type = "SOCKET" /\ v.k.state \in {"NONE", "END"} /\ rdb.snap \in 0..v.off
        /\ (v.k.state = "END" => RdbOK(v, rdb)) /\ (v.k.state = "NONE" => ~ch.mopen)
    BY DEF ClientOK
  <1>3. ClientOK(u, j) BY <1>1, <1>2 DEF ClientOK
  <1>4. rdb \in Rdb BY DEF IsView, ChildType
  <1>5. mark \in Rdb /\ mark.data = rdb.data
        /\ mark.snap = (IF rdb.snap + Len(v.k.out) = v.off THEN rdb.snap ELSE -2)
    <2> DEFINE k == v.k
    <2>1. v.off = moff OBVIOUS
    <2> HIDE DEF rdb, k
    <2>2. /\ Marked(rdb, k) \in Rdb /\ Marked(rdb, k).data = rdb.data
          /\ Marked(rdb, k).snap = (IF rdb.snap + Len(k.out) = moff THEN rdb.snap ELSE -2)
      BY <1>4, MarkedIs
    <2> QED BY <2>1, <2>2 DEF k
  <1>6. e \in Msg /\ e[1] = "eof" /\ e[2] = mark BY <1>5, MakesMsg
  <1> HIDE DEF rdb, mark
  <1>7. Served(u) /\ ~Served(v) BY <1>2 DEF Served
  <1>8. ASSUME NEW i \in [run : Int, off : Int], Awaits(v, i)
        PROVE  Served(u) /\ Loads(u, e[2], << >>, i)
    <2>1. i.off >= -1 /\ (i.off = rdb.snap => i.run = v.run /\ Compat(St(0, rdb.data), v.hist[v.run][rdb.snap + 1]))
      BY <1>8 DEF Awaits, rdb
    <2>2. Live(u) => RdbOK(v, rdb) BY <1>2 DEF Live
    <2>3. Loads(u, mark, << >>, i) BY <1>2, <1>4, <1>5, <2>1, <2>2, LoadsRdb
    <2> QED BY <1>6, <1>7, <2>3
  <1>9. ASSUME NEW r, NEW p, NEW m \in Link, NEW q \in Link, NEW i \in [run : Int, off : Int],
               NEW x \in Data, AtConn(v, ch, r, m, q, i, x, p)
        PROVE  AtConn(u, j, r, m, q, i, x, p)
    BY <1>6, <1>7, <1>8, <1>9, RdbAt
  <1> QED BY <1>3, <1>9

\* SocketChildWrites.
LEMMA ExactSocketWrites ==
    ASSUME ExactInv, TypeInv', SocketChildWrites
    PROVE  Rest'
  <1> DEFINE live == {c \in child.ids : chan[c].net /\ chan[c].sopen}
             e(c) == <<"eof", Marked(child.rdb, cl[c])>>
  <1>1. /\ child.type = "SOCKET" /\ ~child.wrote
        /\ chan' = [c \in Conns |-> IF c \in live THEN [chan[c] EXCEPT !.m2s = Append(@, e(c))] ELSE chan[c]]
        /\ child' = [child EXCEPT !.wrote = TRUE, !.ids = live]
        /\ UNCHANGED <<hist, runid, moff, seldb, mdata, cl>>
        /\ UNCHANGED <<bl, rs, sc, master, cached, init, sdata, pos>>
    BY DEF SocketChildWrites, svars, hvars
  <1>2. Still BY <1>1 DEF Still
  <1>3. TypeInv /\ chan \in [Conns -> Channel] /\ child \in ChildType
    BY DEF ExactInv, TypeInv, ChanTypes, MasterTypes
  <1>4. \A c : c \in live => c \in child.ids /\ chan[c].net /\ chan[c].sopen OBVIOUS
  <1>5. \A c : c \in child.ids /\ c \notin live => ~chan[c].net \/ ~chan[c].sopen OBVIOUS
  <1> HIDE DEF live
  <1>6. /\ child'.rdb = child.rdb /\ child'.type = child.type /\ child'.wrote = TRUE
        /\ child'.ids = live
    BY <1>1, <1>3 DEF ChildType
  <1>7. Onward /\ HistInv' BY <1>1, <1>2, StillHist
  <1>8. ASSUME NEW c \in Conns
        PROVE  /\ ClientOK(ViewN(c), chan'[c])
               /\ chan[c].sopen => Unnoticed(c) \/ \A s \in Slaves : sc[s] = c => AtNext(s, c)
    <2> DEFINE v == View(c)
               u == ViewN(c)
               ch == chan[c]
               j == chan'[c]
    <2>1. /\ IsView(v) /\ IsView(u) /\ ClientOK(v, ch) /\ Len(v.hist[v.run]) = v.off + 1
          /\ Older(v, u) /\ u.hist = v.hist /\ u.run = v.run /\ u.off = v.off /\ u.now = v.now
      BY <1>2, StillView
    <2>2. /\ v.net = ch.net /\ v.k = cl[c] /\ v.child = child /\ v.mine = (c \in child.ids) /\ v.off = moff
          /\ u.net = j.net /\ u.k = cl'[c] /\ u.child = child' /\ u.mine = (c \in child'.ids)
      BY ViewIs, ViewNIs
    <2>3. ch \in Channel /\ j \in Channel BY <1>3 DEF TypeInv, ChanTypes
    <2>4. j = IF c \in live THEN [ch EXCEPT !.m2s = Append(@, e(c))] ELSE ch BY <1>1
    <2>5. e(c) = <<"eof", Marked(v.child.rdb, v.k)>> BY <2>2
    <2> HIDE DEF v, u, ch, j, e
    <2>6. /\ u.k = v.k /\ u.child.rdb = v.child.rdb /\ u.child.type = v.child.type
          /\ ~v.child.wrote /\ u.child.wrote
      BY <1>1, <1>6, <2>2
    <2>7. CASE c \notin live
      <3>1. j = ch BY <2>4, <2>7
      <3>2. ~u.mine /\ u.net = v.net BY <1>6, <2>2, <2>7, <3>1
      <3>3. ClientOK(u, ch) /\ (~v.mine \/ ~v.net => Kept(v, u)) BY <2>1, <2>6, <3>2, WroteView
      <3>4. ASSUME chan[c].sopen PROVE Unnoticed(c)
        <4>1. ~v.mine \/ ~v.net BY <1>5, <2>2, <2>7, <3>4 DEF ch
        <4>2. KeptChan(v, ch, u, j) BY <2>6, <3>1 DEF KeptChan
        <4> QED BY <3>3, <4>1, <4>2 DEF Unnoticed, v, u, ch, j
      <3> QED BY <3>1, <3>3, <3>4 DEF u, j
    <2>8. CASE c \in live
      <3> DEFINE es == << e(c) >>
      <3>1. ch.m2s \in Seq(Msg) BY <2>3 DEF Channel
      <3>2. v.child.rdb \in Rdb BY <2>1 DEF IsView, ChildType
      <3>3. Marked(v.child.rdb, v.k) \in Rdb BY <3>2, MarkedIs
      <3>4. e(c) \in Msg BY <2>5, <3>3, MakesMsg
      <3>5. Append(ch.m2s, e(c)) = ch.m2s \o es BY <3>1, <3>4, AppendIsConcat
      <3> HIDE DEF es
      <3>6. j = [ch EXCEPT !.m2s = ch.m2s \o es] BY <2>4, <2>8, <3>5
      <3>7. j.m2s = ch.m2s \o es /\ j.s2m = ch.s2m /\ j.mopen = ch.mopen /\ j.net = ch.net
        BY <2>3, <3>6 DEF Channel
      <3>8. Joined(j.m2s, ch.m2s, << e(c) >>) BY <3>7 DEF Joined, es
      <3>9. v.mine /\ u.mine /\ v.net /\ u.net = v.net BY <1>4, <1>6, <2>2, <2>8, <3>7 DEF ch
      <3>10. /\ ClientOK(u, j)
             /\ \A r, p : \A m \in Link, q \in Link, i \in [run : Int, off : Int], x \in Data :
                  AtConn(v, ch, r, m, q, i, x, p) => AtConn(u, j, r, m, q, i, x, p)
        BY <2>1, <2>2, <2>3, <2>5, <2>6, <3>7, <3>8, <3>9, WriteAt
      <3>11. ASSUME NEW s \in Slaves, sc[s] = c PROVE AtNext(s, c)
        <4>1. /\ AtConn(v, ch, rs[s], master[s], cached[s], init[s], sdata[s], pos[s])
              /\ master[s] \in Link /\ cached[s] \in Link /\ init[s] \in [run : Int, off : Int]
              /\ sdata[s] \in Data
          BY <3>11, AtConnIs DEF v, ch
        <4>2. AtConn(u, j, rs[s], master[s], cached[s], init[s], sdata[s], pos[s])
          BY <3>10, <4>1
        <4> QED BY <4>2 DEF AtNext, u, j
      <3> QED BY <3>10, <3>11 DEF u, j
    <2> QED BY <2>7, <2>8
  <1> QED BY <1>1, <1>7, <1>8, MasterRest

(***************************************************************************)
(* The steps of a slave.                                                   *)
(***************************************************************************)

\* A step of s, which touches at most connection e: its own or a free one.
Moves(s, e) ==
    /\ e \in Conns => sc[s] = e \/ ~chan[e].sopen
    /\ \A d \in Conns : d # e => chan'[d] = chan[d]
    /\ OnlySlave(s)
    /\ UNCHANGED <<mvars, hist>>

\* The master's side of a connection stays.
LEMMA SlaveView ==
    ASSUME UNCHANGED <<mvars, hist>>, NEW c
    PROVE  /\ chan'[c].net = chan[c].net => ViewN(c) = View(c)
           /\ ViewN(c).hist = View(c).hist /\ ViewN(c).run = View(c).run
           /\ ViewN(c).off = View(c).off /\ ViewN(c).now = View(c).now /\ ViewN(c).k = View(c).k
           /\ ViewN(c).child = View(c).child /\ ViewN(c).mine = View(c).mine
  <1>1. UNCHANGED <<runid, mdata, seldb, moff, cl, child, hist>> BY DEF mvars
  <1> QED BY <1>1 DEF View, ViewN, Now

\* The client of a connection whose slave reads, writes or closes.
LEMMA SlaveClient ==
    ASSUME ExactInv, UNCHANGED <<mvars, hist>>, NEW c \in Conns,
           chan'[c].mopen = chan[c].mopen, chan[c].m2s = << >> => chan'[c].m2s = << >>
    PROVE  ClientOK(ViewN(c), chan'[c])
  <1> DEFINE v == View(c)
             u == ViewN(c)
  <1>1. /\ u.hist = v.hist /\ u.run = v.run /\ u.off = v.off /\ u.now = v.now /\ u.k = v.k
        /\ u.child = v.child /\ u.mine = v.mine
    BY SlaveView
  <1>2. ClientOK(v, chan[c]) BY ConnIs
  <1> HIDE DEF v, u
  <1>3. /\ Waiting(u) = Waiting(v) /\ \A rdb : RdbOK(u, rdb) = RdbOK(v, rdb) BY <1>1, SameParts
  <1>4. ClientOK(u, chan'[c]) BY <1>1, <1>2, <1>3 DEF ClientOK
  <1> QED BY <1>4 DEF u

\* What is to be shown of a step of a slave.
LEMMA SlaveRest ==
    ASSUME ExactInv, TypeInv', NEW s \in Slaves, NEW e, Moves(s, e),
           e \in Conns => ClientOK(ViewN(e), chan'[e]),
           sc'[s] # NoConn => AtConn(ViewN(sc'[s]), chan'[sc'[s]], rs'[s], master'[s], cached'[s],
                                     init'[s], sdata'[s], pos'[s]),
           CachedOK(hist, runid, cached'[s], sdata'[s], pos'[s])
    PROVE  Rest'
  <1>1. TypeInv /\ HistInv /\ SlaveTypes BY DEF ExactInv, TypeInv
  <1>2. UNCHANGED <<mvars, hist>> BY DEF Moves
  <1>3. UNCHANGED <<runid, mdata, seldb, moff, bl, cl, child, hist>> BY <1>2 DEF mvars
  <1>4. HistInv' BY <1>1, <1>3 DEF HistInv, Now
  <1>5. ASSUME NEW d \in Conns, d # e PROVE chan'[d] = chan[d] /\ ViewN(d) = View(d)
    <2>1. chan'[d] = chan[d] BY <1>5 DEF Moves
    <2> QED BY <1>2, <2>1, SlaveView
  <1>6. ASSUME NEW d \in Conns PROVE ClientOK(ViewN(d), chan'[d])
    <2>1. CASE d = e BY <2>1
    <2>2. CASE d # e
      <3>1. chan'[d] = chan[d] /\ ViewN(d) = View(d) BY <1>5, <2>2
      <3>2. ClientOK(View(d), chan[d]) BY ConnIs
      <3> QED BY <3>1, <3>2
    <2> QED BY <2>1, <2>2
  <1>7. Clients' BY <1>6, ClientsNext
  <1>8. ASSUME NEW t \in Slaves, t # s
        PROVE  /\ rs'[t] = rs[t] /\ sc'[t] = sc[t] /\ master'[t] = master[t] /\ cached'[t] = cached[t]
               /\ init'[t] = init[t] /\ sdata'[t] = sdata[t] /\ pos'[t] = pos[t]
    BY <1>1, <1>8 DEF Moves, OnlySlave, SlaveTypes
  <1>9. ASSUME NEW t \in Slaves
        PROVE  /\ sc'[t] # NoConn => AtConn(ViewN(sc'[t]), chan'[sc'[t]], rs'[t], master'[t], cached'[t],
                                             init'[t], sdata'[t], pos'[t])
               /\ CachedOK(hist, runid, cached'[t], sdata'[t], pos'[t])
    <2>1. CASE t = s BY <2>1
    <2>2. CASE t # s
      <3>1. SlaveAt(t) BY DEF ExactInv
      <3>2. CachedOK(hist, runid, cached'[t], sdata'[t], pos'[t]) BY <1>8, <2>2, <3>1 DEF SlaveAt
      <3>3. ASSUME sc[t] # NoConn PROVE sc[t] \in Conns /\ sc[t] # e
        <4>1. sc[t] \in Conns /\ LinkOK(t, chan[sc[t]], rs[t], cached[t])
          BY <1>1, <3>3 DEF SlaveTypes, TypeInv, LinkInv
        <4>2. sc[t] # e
          <5> SUFFICES ASSUME sc[t] = e PROVE FALSE OBVIOUS
          <5>1. chan[e].sopen /\ chan[e].s = t BY <4>1 DEF LinkOK
          <5>2. sc[s] = e BY <4>1, <5>1 DEF Moves
          <5>3. LinkOK(s, chan[e], rs[s], cached[s]) BY <1>1, <3>3, <5>2 DEF TypeInv, LinkInv
          <5> QED BY <2>2, <5>1, <5>3 DEF LinkOK
        <4> QED BY <4>1, <4>2
      <3>4. ASSUME sc'[t] # NoConn
            PROVE  AtConn(ViewN(sc'[t]), chan'[sc'[t]], rs'[t], master'[t], cached'[t], init'[t],
                          sdata'[t], pos'[t])
        <4>1. sc'[t] = sc[t] /\ sc[t] # NoConn BY <1>8, <2>2, <3>4
        <4>2. chan'[sc[t]] = chan[sc[t]] /\ ViewN(sc[t]) = View(sc[t]) BY <1>5, <3>3, <4>1
        <4> QED BY <1>8, <2>2, <3>1, <4>1, <4>2 DEF SlaveAt
      <3> QED BY <3>2, <3>4
    <2> QED BY <2>1, <2>2
  <1>10. ASSUME NEW t \in Slaves PROVE SlaveAt(t)'
    <2>1. ASSUME NEW d PROVE ViewN(d) = View(d)' BY ViewNIs
    <2>2. CachedOK(hist', runid', cached'[t], sdata'[t], pos'[t]) BY <1>3, <1>9
    <2>3. sc'[t] # NoConn => AtConn(View(sc[t])', chan'[sc'[t]], rs'[t], master'[t], cached'[t],
                                    init'[t], sdata'[t], pos'[t])
      BY <1>9, <2>1 DEF ViewN, View, Now
    <2> QED BY <2>2, <2>3 DEF SlaveAt, View, Now
  <1> QED BY <1>4, <1>7, <1>10 DEF Rest

\* A slave that is exact is caught up.
LEMMA ExactCaught ==
    ASSUME NEW v, IsView(v), Len(v.hist[v.run]) = v.off + 1, Live(v) => v.hist[v.run][v.off + 1] = v.now,
           NEW st \in State, NEW r, NEW o, NEW q \in Seq(Msg), Exact(v, st, r, o, q)
    PROVE  Caught(v, st, q)
  <1> SUFFICES ASSUME Live(v) PROVE Compat(Executed(st, q \o v.k.out), v.now) BY DEF Caught
  <1> DEFINE h == v.hist[v.run]
             a == v.k.out
             w == q \o a
  <1>1. r = v.run /\ Follows(q, h, o) /\ Compat(st, h[o + 1]) /\ o + Len(q) + Len(a) = v.off
        /\ Follows(a, h, o + Len(q))
    BY DEF Exact
  <1>2. a \in Seq(Reply) /\ Reply \subseteq Msg BY MakesMsg DEF IsView, Client
  <1>3. a \in Seq(Msg) BY <1>2, SeqMonotonic
  <1>4. h \in Seq(Point) BY DEF IsView
  <1>5. w \in Seq(Msg) /\ Len(w) = Len(q) + Len(a) /\ Len(q) \in Nat /\ Len(a) \in Nat BY <1>3
  <1> HIDE DEF h, a
  <1>6. Follows(w, h, o) BY <1>1, <1>3, FollowsConcat
  <1> HIDE DEF w
  <1>7. Compat(Executed(st, w), h[o + Len(w) + 1]) BY <1>1, <1>4, <1>5, <1>6, FollowsExec
  <1>8. o \in Nat BY <1>6 DEF Follows
  <1>9. o + Len(w) + 1 = v.off + 1
    <2>1. o + Len(w) = v.off BY <1>1, <1>5, <1>8
    <2> QED BY <2>1
  <1>10. Compat(Executed(st, w), v.now) BY <1>7, <1>9 DEF h
  <1> QED BY <1>10 DEF w, a

\* The stream a client is in leads to the master's data.
LEMMA LiveNow ==
    ASSUME ExactInv, NEW c \in Conns
    PROVE  Live(View(c)) => View(c).hist[View(c).run][View(c).off + 1] = View(c).now
  <1> SUFFICES ASSUME Live(View(c)) PROVE hist[runid][moff + 1] = Now BY ViewIs
  <1>1. TypeInv /\ HistInv BY DEF ExactInv
  <1>2. cl[c].state # "NONE" BY ViewIs DEF Live
  <1>3. c \in Range(slaves) BY <1>1, <1>2 DEF TypeInv, ClientTypes
  <1>4. slaves # << >> BY <1>3 DEF Range
  <1>5. bl.on BY <1>1, <1>4 DEF TypeInv, ClientTypes
  <1> QED BY <1>1, <1>5 DEF HistInv

\* A slave without a cached master has nothing to resume from.
LEMMA NothingCached ==
    ASSUME NEW h, NEW run, NEW m, NEW x, NEW p, ~m.on
    PROVE  CachedOK(h, run, m, x, p)
  BY DEF CachedOK

\* connectWithMaster.
LEMMA ExactConnect ==
    ASSUME ExactInv, TypeInv', NEW s \in Slaves, NEW c \in Conns, connectWithMaster(s, c)
    PROVE  Rest'
  <1> DEFINE k == [Closed EXCEPT !.s = s, !.mopen = TRUE, !.sopen = TRUE, !.net = TRUE]
             v == View(c)
             u == ViewN(c)
  <1>1. TypeInv /\ SlaveTypes /\ chan \in [Conns -> Channel] BY DEF ExactInv, TypeInv, ChanTypes
  <1>3. /\ rs[s] = "CONNECT" /\ chan[c] = Closed /\ c \notin child.ids
        /\ chan' = [chan EXCEPT ![c] = k]
        /\ sc' = [sc EXCEPT ![s] = c]
        /\ rs' = [rs EXCEPT ![s] = "CONNECTING"]
        /\ UNCHANGED <<mvars, master, cached, init, sdata, hvars>>
    BY DEF connectWithMaster
  <1>4. k.s2m = << >> /\ k.m2s = << >>
    <2> DEFINE k0 == Closed
               k1 == [k0 EXCEPT !.s = s]
               k2 == [k1 EXCEPT !.mopen = TRUE]
               k3 == [k2 EXCEPT !.sopen = TRUE]
    <2>1. k0 \in Channel /\ k0.s2m = << >> /\ k0.m2s = << >> BY InitialTypes DEF Closed
    <2>2. k = [k3 EXCEPT !.net = TRUE] OBVIOUS
    <2> HIDE DEF k, k0
    <2>3. k1 \in Channel /\ k1.s2m = << >> /\ k1.m2s = << >> BY <2>1 DEF Channel
    <2> HIDE DEF k1
    <2>4. k2 \in Channel /\ k2.s2m = << >> /\ k2.m2s = << >> BY <2>3 DEF Channel
    <2> HIDE DEF k2
    <2>5. k3 \in Channel /\ k3.s2m = << >> /\ k3.m2s = << >> BY <2>4 DEF Channel
    <2> HIDE DEF k3
    <2> QED BY <2>2, <2>5 DEF Channel
  <1> HIDE DEF k
  <1>5. chan'[c] = k /\ \A d \in Conns : d # c => chan'[d] = chan[d] BY <1>1, <1>3
  <1>6. OnlySlave(s) BY <1>1, <1>3 DEF OnlySlave, SlaveTypes, hvars
  <1>7. UNCHANGED <<mvars, hist>> BY <1>3 DEF hvars
  <1>8. Moves(s, c) BY <1>3, <1>5, <1>6, <1>7 DEF Moves, Closed
  <1>9. /\ u.k = v.k /\ u.mine = v.mine BY <1>7, SlaveView
  <1>10. ClientOK(v, chan[c]) BY ConnIs
  <1>11. v.mine = FALSE
    <2>1. (c \in child.ids) = FALSE BY <1>3
    <2> QED BY <2>1, ViewIs
  <1> HIDE DEF v, u
  <1>12. v.k.state = "NONE" /\ v.k = NewClient BY <1>3, <1>10 DEF ClientOK, Closed
  <1>13. ClientOK(u, k)
    <2>1. NewClient.wh = FALSE BY DEF NewClient
    <2> QED BY <1>4, <1>9, <1>11, <1>12, <2>1 DEF ClientOK
  <1>14. InConnecting(u, k) BY <1>4, <1>9, <1>11, <1>12 DEF InConnecting
  <1>15. sc'[s] = c /\ rs'[s] = "CONNECTING" BY <1>1, <1>3 DEF SlaveTypes
  <1>16. AtConn(ViewN(sc'[s]), chan'[sc'[s]], rs'[s], master'[s], cached'[s], init'[s], sdata'[s], pos'[s])
    BY <1>5, <1>14, <1>15 DEF AtConn, u
  <1>17. CachedOK(hist, runid, cached'[s], sdata'[s], pos'[s])
    <2>1. SlaveAt(s) BY DEF ExactInv
    <2>2. UNCHANGED <<cached, sdata, pos>> BY <1>3 DEF hvars
    <2> QED BY <2>1, <2>2 DEF SlaveAt
  <1>18. ClientOK(ViewN(c), chan'[c]) BY <1>5, <1>13 DEF u
  <1> QED BY <1>8, <1>16, <1>17, <1>18, SlaveRest

\* PSYNC is sent.
LEMMA ExactPsync ==
    ASSUME ExactInv, TypeInv', NEW s \in Slaves, SendPsync(s)
    PROVE  Rest'
  <1> DEFINE c == sc[s]
             v == View(c)
             m == cached[s]
             e == PsyncMsg(m)
             ch == chan[c]
             j == chan'[c]
  <1>1. TypeInv /\ SlaveTypes /\ chan \in [Conns -> Channel] BY DEF ExactInv, TypeInv, ChanTypes
  <1>2. SlaveOK(rs[s], sc[s], master[s], cached[s], init[s], sdata[s], pos[s]) BY <1>1, SlaveIs
  <1>3. /\ rs[s] = "CONNECTING" /\ ch.net /\ ch.mopen
        /\ chan' = SSend(chan, c, <<e>>)
        /\ init' = [init EXCEPT ![s] = NoInit]
        /\ rs' = [rs EXCEPT ![s] = "PSYNC"]
        /\ UNCHANGED <<mvars, sc, master, cached, sdata, hvars>>
    BY DEF SendPsync, PsyncMsg
  <1>4. c \in Conns /\ ch \in Channel BY <1>1, <1>3, OwnLink
  <1>5. AtConn(v, ch, rs[s], master[s], cached[s], init[s], sdata[s], pos[s]) BY <1>4, AtConnIs
  <1>6. InConnecting(v, ch) BY <1>3, <1>5 DEF AtConn
  <1>7. e \in Request
    <2>1. m.run \in Int /\ m.off \in Int BY <1>2 DEF SlaveOK, Link
    <2>2. (IF m.on THEN m.run ELSE -1) \in Int /\ (IF m.on THEN m.off + 1 ELSE -1) \in Int BY <2>1
    <2> QED BY <2>2, MakesRequest DEF PsyncMsg
  <1> HIDE DEF e
  <1> DEFINE es == <<e>>
  <1>8. es \in Seq(Request) /\ Len(es) = 1 /\ es[1] = e BY <1>7
  <1>9. /\ \A d \in Conns : d # c => chan'[d] = chan[d]
        /\ j = IF ch.net /\ ch.mopen THEN [ch EXCEPT !.s2m = @ \o es] ELSE ch
    <2>1. chan' = SSend(chan, c, es) BY <1>3
    <2> HIDE DEF es, c
    <2> QED BY <1>1, <1>4, <1>8, <2>1, SSendIs
  <1> HIDE DEF es
  <1>10. j = [ch EXCEPT !.s2m = ch.s2m \o es] BY <1>3, <1>9
  <1>11. j.net = ch.net /\ j.mopen = ch.mopen /\ j.m2s = ch.m2s /\ j.s2m = ch.s2m \o es
    <2> HIDE DEF ch
    <2> QED BY <1>4, <1>10 DEF Channel
  <1>12. j.s2m = es
    <2>1. ch.s2m = << >> BY <1>6 DEF InConnecting
    <2>2. << >> \o es = es BY <1>8
    <2> QED BY <1>11, <2>1, <2>2
  <1>13. OnlySlave(s) BY <1>1, <1>3 DEF OnlySlave, SlaveTypes, hvars
  <1>14. UNCHANGED <<mvars, hist>> BY <1>3 DEF hvars
  <1>15. Moves(s, c) BY <1>9, <1>13, <1>14 DEF Moves
  <1>16. ClientOK(ViewN(c), chan'[c]) BY <1>4, <1>11, <1>14, SlaveClient
  <1>17. ViewN(c) = v BY <1>11, <1>14, SlaveView
  <1>18. InPsync(v, j, m, NoInit, sdata[s], pos[s])
    <2>1. j.m2s = << >> /\ v.k.state = "NONE" /\ ~v.mine BY <1>6, <1>11 DEF InConnecting
    <2>2. ASSUME NEW a \in 1..Len(j.s2m) PROVE j.s2m[a] = e
      <3>1. a \in 1..1 BY <1>8, <1>12
      <3>2. a = 1 BY <3>1
      <3> QED BY <1>8, <1>12, <3>2
    <2> HIDE DEF v, m, j
    <2> QED BY <2>1, <2>2 DEF InPsync, e
  <1>19. /\ rs'[s] = "PSYNC" /\ sc'[s] = c /\ cached'[s] = m /\ init'[s] = NoInit /\ sdata'[s] = sdata[s]
         /\ pos'[s] = pos[s]
    BY <1>1, <1>3 DEF SlaveTypes, hvars
  <1>20. AtConn(ViewN(sc'[s]), chan'[sc'[s]], rs'[s], master'[s], cached'[s], init'[s], sdata'[s], pos'[s])
    BY <1>17, <1>18, <1>19 DEF AtConn
  <1>21. CachedOK(hist, runid, cached'[s], sdata'[s], pos'[s])
    <2>1. SlaveAt(s) BY DEF ExactInv
    <2> QED BY <1>19, <2>1 DEF SlaveAt
  <1> QED BY <1>15, <1>16, <1>20, <1>21, SlaveRest

\* What a step that takes the first message leaves of the master's side.
LEMMA TakesOne ==
    ASSUME ExactInv, TypeInv', NEW s \in Slaves, NEW st \in {"PSYNC", "CONNECTED"} \cup Handshake,
           CanRead(s, st), chan' = Consumed(sc[s]), OnlySlave(s), UNCHANGED <<mvars, hist>>, sc'[s] = sc[s]
    PROVE  /\ Moves(s, sc[s]) /\ ClientOK(ViewN(sc[s]), chan'[sc[s]])
           /\ ViewN(sc[s]) = View(sc[s]) /\ chan'[sc[s]].mopen = chan[sc[s]].mopen
           /\ chan'[sc[s]].m2s = Tail(chan[sc[s]].m2s) /\ chan'[sc[s]].s2m = chan[sc[s]].s2m
           /\ chan[sc[s]].mopen => cl[sc[s]].state # "NONE"
           /\ sc[s] \in Conns /\ chan[sc[s]] \in Channel /\ chan[sc[s]].m2s # << >>
           /\ AtConn(View(sc[s]), chan[sc[s]], st, master[s], cached[s], init[s], sdata[s], pos[s])
           /\ IsView(View(sc[s])) /\ Head1(sc[s]) \in Msg /\ Tail(chan[sc[s]].m2s) \in Seq(Msg)
           /\ sdata[s] \in Data /\ master[s] \in Link /\ cached[s] \in Link
           /\ init[s] \in [run : Int, off : Int]
  <1> DEFINE c == sc[s]
  <1>1. TypeInv BY DEF ExactInv
  <1>2. rs[s] = st /\ chan[c].m2s # << >> BY DEF CanRead
  <1>3. rs[s] \notin {"NONE", "CONNECT"} BY <1>2 DEF Handshake
  <1>4. c \in Conns /\ chan[c] \in Channel BY <1>1, <1>3, OwnLink
  <1>5. /\ AtConn(View(c), chan[c], st, master[s], cached[s], init[s], sdata[s], pos[s])
        /\ sdata[s] \in Data /\ master[s] \in Link /\ cached[s] \in Link
        /\ init[s] \in [run : Int, off : Int]
    BY <1>2, <1>4, AtConnIs
  <1>6. /\ \A d \in Conns : d # c => chan'[d] = chan[d]
        /\ chan'[c].mopen = chan[c].mopen /\ chan'[c].net = chan[c].net
        /\ chan'[c].s2m = chan[c].s2m /\ chan'[c].m2s = Tail(chan[c].m2s)
        /\ Head1(c) \in Msg /\ Tail(chan[c].m2s) \in Seq(Msg)
    BY <1>1, ReadIs
  <1> HIDE DEF c
  <1>7. Moves(s, c) BY <1>6 DEF Moves, c
  <1>8. ClientOK(ViewN(c), chan'[c]) BY <1>2, <1>4, <1>6, SlaveClient
  <1>9. ViewN(c) = View(c) BY <1>6, SlaveView
  <1>10. chan[c].mopen => cl[c].state # "NONE"
    <2>1. ClientOK(View(c), chan[c]) /\ View(c).k = cl[c] BY <1>4, ConnIs, ViewIs
    <2> QED BY <1>2, <2>1 DEF ClientOK
  <1>11. IsView(View(c)) BY <1>4, ConnIs
  <1> QED BY <1>2, <1>4, <1>5, <1>6, <1>7, <1>8, <1>9, <1>10, <1>11 DEF c

\* +FULLRESYNC and +CONTINUE are read.
LEMMA ExactPsyncReply ==
    ASSUME ExactInv, TypeInv', NEW s \in Slaves, ReadFullResync(s) \/ ReadContinue(s)
    PROVE  Rest'
  <1> DEFINE c == sc[s]
             v == View(c)
             ch == chan[c]
             j == chan'[c]
             w == ch.m2s
             m == cached[s]
             x == sdata[s]
  <1>1. TypeInv /\ SlaveTypes BY DEF ExactInv, TypeInv
  <1>2. /\ CanRead(s, "PSYNC") /\ chan' = Consumed(c) /\ sc'[s] = c /\ UNCHANGED <<mvars, hist>>
    BY DEF ReadFullResync, ReadContinue, hvars
  <1>3. OnlySlave(s)
    BY <1>1 DEF OnlySlave, SlaveTypes, hvars, ReadFullResync, ReadContinue
  <1>4. "PSYNC" \in {"PSYNC", "CONNECTED"} \cup Handshake OBVIOUS
  <1>5. /\ Moves(s, c) /\ ClientOK(ViewN(c), j) /\ ViewN(c) = v /\ j.mopen = ch.mopen
        /\ j.m2s = Tail(w) /\ (ch.mopen => cl[c].state # "NONE") /\ c \in Conns /\ w # << >>
        /\ AtConn(v, ch, "PSYNC", master[s], m, init[s], x, pos[s]) /\ IsView(v) /\ Head1(c) \in Msg
        /\ Tail(w) \in Seq(Msg) /\ x \in Data /\ m \in Link
    BY <1>2, <1>3, <1>4, TakesOne
  <1>6. InPsync(v, ch, m, init[s], x, pos[s]) BY <1>5 DEF AtConn
  <1>7. Head(w) = Head1(c) BY DEF Head1
  <1>8. v.k = cl[c] BY ViewIs
  <1>9. cached'[s] = NoMaster BY <1>1 DEF ReadFullResync, ReadContinue, SlaveTypes
  <1>10. CachedOK(hist, runid, cached'[s], sdata'[s], pos'[s])
    <2>1. NoMaster.on = FALSE BY DEF NoMaster
    <2> QED BY <1>9, <2>1, NothingCached
  <1>11. CASE ReadFullResync(s)
    <2> DEFINE i == [run |-> Head(w)[2], off |-> Head(w)[3]]
    <2>1. Head(w)[1] = "full" BY <1>7, <1>11 DEF ReadFullResync
    <2>2. rs'[s] = "TRANSFER" /\ init'[s] = i BY <1>1, <1>7, <1>11 DEF ReadFullResync, SlaveTypes
    <2>3. Transfer(v, Tail(w), i) /\ i.off >= -1 BY <1>5, <1>6, <2>1 DEF InPsync
    <2> HIDE DEF i, v, j, w, ch
    <2>4. InTransfer(v, j, i) BY <1>5, <1>8, <2>3 DEF InTransfer
    <2>5. AtConn(v, j, "TRANSFER", master'[s], cached'[s], i, sdata'[s], pos'[s]) BY <2>4 DEF AtConn
    <2>6. AtConn(ViewN(sc'[s]), chan'[sc'[s]], rs'[s], master'[s], cached'[s], init'[s], sdata'[s], pos'[s])
      BY <1>2, <1>5, <2>2, <2>5 DEF j
    <2> QED BY <1>5, <1>10, <2>6, SlaveRest DEF j
  <1>12. CASE ReadContinue(s)
    <2> DEFINE p == IF pos[s] = "exact" THEN pos[s] ELSE "tainted"
               t == Tail(w)
    <2>1. Head(w)[1] = "cont" BY <1>7, <1>12 DEF ReadContinue
    <2>2. rs'[s] = "CONNECTED" /\ master'[s] = m /\ pos'[s] = p /\ sdata'[s] = x
      BY <1>1, <1>12 DEF ReadContinue, SlaveTypes
    <2>3. m.run >= 0 /\ Served(v) /\ (pos[s] = "exact" => Exact(v, St(m.db, x), m.run, m.off, t))
      BY <1>5, <1>6, <2>1 DEF InPsync
    <2>4. St(m.db, x) \in State BY <1>5 DEF St, State, Link
    <2>5. (Live(v) => v.hist[v.run][v.off + 1] = v.now) /\ Len(v.hist[v.run]) = v.off + 1
      BY <1>5, LiveNow, ConnIs
    <2>6. t \in Seq(Msg) BY <1>5
    <2> HIDE DEF v, j, w, ch, x, m, t
    <2>7. pos[s] = "exact" => Caught(v, St(m.db, x), t) BY <1>5, <2>3, <2>4, <2>5, <2>6, ExactCaught
    <2>8. InConnected(v, j, m, x, p)
      <3>1. j.m2s = t BY <1>5 DEF t
      <3> QED BY <1>5, <1>8, <2>3, <2>7, <3>1 DEF InConnected
    <2>9. AtConn(v, j, "CONNECTED", m, cached'[s], init'[s], x, p) BY <2>8 DEF AtConn
    <2>10. AtConn(ViewN(sc'[s]), chan'[sc'[s]], rs'[s], master'[s], cached'[s], init'[s], sdata'[s], pos'[s])
      BY <1>2, <1>5, <2>2, <2>9 DEF j
    <2> QED BY <1>5, <1>10, <2>10, SlaveRest DEF j
  <1> QED BY <1>11, <1>12

\* SYNC after PSYNC failed, and REPLCONF ACK.
LEMMA ExactSlaveSends ==
    ASSUME ExactInv, TypeInv', NEW s \in Slaves, PsyncReadFails(s) \/ replicationSendAck(s)
    PROVE  Rest'
  <1> DEFINE c == sc[s]
             v == View(c)
             ch == chan[c]
             j == chan'[c]
  <1>1. TypeInv /\ SlaveTypes /\ chan \in [Conns -> Channel] BY DEF ExactInv, TypeInv, ChanTypes
  <1>2. SlaveOK(rs[s], sc[s], master[s], cached[s], init[s], sdata[s], pos[s]) BY <1>1, SlaveIs
  <1>3. rs[s] \in {"PSYNC", "CONNECTED"} BY DEF PsyncReadFails, replicationSendAck
  <1>4. c \in Conns /\ ch \in Channel BY <1>1, <1>3, OwnLink
  <1>5. PICK e \in {<<"SYNC">>, <<"ACK">>} : chan' = SSend(chan, c, <<e>>)
    BY DEF PsyncReadFails, replicationSendAck
  <1>6. <<e>> \in Seq(Request) BY MakesRequest
  <1> DEFINE es == <<e>>
  <1>7. /\ \A d \in Conns : d # c => chan'[d] = chan[d]
        /\ j = IF ch.net /\ ch.mopen THEN [ch EXCEPT !.s2m = @ \o es] ELSE ch
    <2> HIDE DEF c, es
    <2>1. chan' = SSend(chan, c, es) /\ es \in Seq(Request) BY <1>5, <1>6 DEF es
    <2> QED BY <1>1, <1>4, <2>1, SSendIs
  <1> HIDE DEF es
  <1>8. j.mopen = ch.mopen /\ j.net = ch.net /\ j.m2s = ch.m2s
    <2> DEFINE k == ch
               q == k.s2m \o es
    <2>1. k \in Channel BY <1>4
    <2>2. j = IF k.net /\ k.mopen THEN [k EXCEPT !.s2m = q] ELSE k BY <1>7
    <2> HIDE DEF k, q
    <2>3. /\ [k EXCEPT !.s2m = q].mopen = k.mopen /\ [k EXCEPT !.s2m = q].net = k.net
          /\ [k EXCEPT !.s2m = q].m2s = k.m2s
      BY <2>1 DEF Channel
    <2> QED BY <2>2, <2>3 DEF k
  <1>9. OnlySlave(s) /\ UNCHANGED <<mvars, hist>> /\ sc'[s] = c
    BY <1>1 DEF OnlySlave, SlaveTypes, hvars, svars, PsyncReadFails, replicationSendAck
  <1>10. Moves(s, c) BY <1>7, <1>9 DEF Moves
  <1>11. ViewN(c) = v BY <1>8, <1>9, SlaveView
  <1>12. ClientOK(ViewN(c), chan'[c]) BY <1>4, <1>8, <1>9, SlaveClient
  <1>13. AtConn(v, ch, rs[s], master[s], cached[s], init[s], sdata[s], pos[s]) BY <1>4, AtConnIs
  <1>14. CASE PsyncReadFails(s)
    <2>1. rs'[s] = "TRANSFER" /\ cached'[s] = NoMaster /\ rs[s] = "PSYNC" /\ init'[s] = init[s]
      BY <1>1, <1>14 DEF PsyncReadFails, SlaveTypes
    <2>2. InPsync(v, ch, cached[s], init[s], sdata[s], pos[s]) BY <1>13, <2>1 DEF AtConn
    <2>3. init[s] = NoInit BY <2>2 DEF InPsync
    <2>4. NoInit.off = -1 BY DEF NoInit
    <2>5. Transfer(v, j.m2s, NoInit)
      <3>1. CASE ch.m2s = << >>
        <4>1. ~v.net \/ (v.k.state = "NONE" /\ ~v.mine) BY <2>2, <3>1 DEF InPsync
        <4>2. Awaits(v, NoInit) BY <2>4, <4>1 DEF Awaits, Live
        <4> QED BY <1>8, <3>1, <4>2 DEF Transfer
      <3>2. CASE ch.m2s # << >>
        <4>1. Head(ch.m2s)[1] \in {"full", "cont"} BY <2>2, <3>2 DEF InPsync
        <4> QED BY <1>8, <3>2, <4>1 DEF Transfer
      <3> QED BY <3>1, <3>2
    <2>6. InTransfer(v, j, NoInit) BY <2>4, <2>5 DEF InTransfer
    <2>7. AtConn(v, j, "TRANSFER", master'[s], cached'[s], NoInit, sdata'[s], pos'[s])
      BY <2>6 DEF AtConn
    <2>8. AtConn(ViewN(sc'[s]), chan'[sc'[s]], rs'[s], master'[s], cached'[s], init'[s], sdata'[s], pos'[s])
      BY <1>9, <1>11, <2>1, <2>3, <2>7
    <2>9. CachedOK(hist, runid, cached'[s], sdata'[s], pos'[s])
      <3>1. NoMaster.on = FALSE BY DEF NoMaster
      <3> QED BY <2>1, <3>1, NothingCached
    <2> QED BY <1>10, <1>12, <2>8, <2>9, SlaveRest
  <1>15. CASE replicationSendAck(s)
    <2>1. rs[s] = "CONNECTED" /\ UNCHANGED <<rs, sc, master, cached, init, sdata, pos>>
      BY <1>15 DEF replicationSendAck, svars, hvars
    <2>2. InConnected(v, ch, master[s], sdata[s], pos[s]) BY <1>13, <2>1 DEF AtConn
    <2>3. InConnected(v, j, master[s], sdata[s], pos[s]) BY <1>8, <2>2 DEF InConnected
    <2>4. AtConn(v, j, rs[s], master[s], cached[s], init[s], sdata[s], pos[s]) BY <2>1, <2>3 DEF AtConn
    <2>5. AtConn(ViewN(sc'[s]), chan'[sc'[s]], rs'[s], master'[s], cached'[s], init'[s], sdata'[s], pos'[s])
      BY <1>9, <1>11, <2>1, <2>4
    <2>6. CachedOK(hist, runid, cached'[s], sdata'[s], pos'[s])
      <3>1. SlaveAt(s) BY DEF ExactInv
      <3> QED BY <2>1, <3>1 DEF SlaveAt
    <2> QED BY <1>10, <1>12, <2>5, <2>6, SlaveRest
  <1> QED BY <1>14, <1>15

\* readSyncBulkPayload.
LEMMA ExactLoad ==
    ASSUME ExactInv, TypeInv', NEW s \in Slaves, readSyncBulkPayload(s)
    PROVE  Rest'
  <1> DEFINE c == sc[s]
             v == View(c)
             ch == chan[c]
             j == chan'[c]
             w == ch.m2s
             i == init[s]
             rdb == Head1(c)[2]
             m == [on |-> TRUE, off |-> i.off, run |-> i.run, db |-> 0]
             p == IF i.off = rdb.snap THEN "exact" ELSE "shifted"
  <1>1. TypeInv /\ SlaveTypes BY DEF ExactInv, TypeInv
  <1>2. SlaveOK(rs[s], sc[s], master[s], cached[s], init[s], sdata[s], pos[s]) BY <1>1, SlaveIs
  <1>3. CanRead(s, "TRANSFER") /\ Head1(c)[1] \in {"bulk", "eof"} /\ LoadRdb(s, rdb)
    BY DEF readSyncBulkPayload
  <1>4. /\ sdata' = [sdata EXCEPT ![s] = rdb.data] /\ master' = [master EXCEPT ![s] = m]
        /\ rs' = [rs EXCEPT ![s] = "CONNECTED"] /\ pos' = [pos EXCEPT ![s] = p]
        /\ chan' = Consumed(c) /\ UNCHANGED <<mvars, sc, cached, init, hist, used>>
    BY <1>3 DEF LoadRdb
  <1>5. OnlySlave(s)
    <2> HIDE DEF m, p, rdb
    <2> QED BY <1>1, <1>4 DEF OnlySlave, SlaveTypes
  <1>6. "TRANSFER" \in {"PSYNC", "CONNECTED"} \cup Handshake BY DEF Handshake
  <1>7. /\ Moves(s, c) /\ ClientOK(ViewN(c), j) /\ ViewN(c) = v /\ j.mopen = ch.mopen
        /\ j.m2s = Tail(w) /\ (ch.mopen => cl[c].state # "NONE") /\ c \in Conns /\ w # << >>
        /\ AtConn(v, ch, "TRANSFER", master[s], cached[s], i, sdata[s], pos[s])
    <2>1. sc'[s] = sc[s] BY <1>4
    <2> QED BY <1>3, <1>4, <1>5, <1>6, <2>1, TakesOne
  <1>8. Head(w) = Head1(c) BY DEF Head1
  <1>9. v.k = cl[c] BY ViewIs
  <1>10. InTransfer(v, ch, i) BY <1>7 DEF AtConn
  <1>11. Served(v) /\ Loads(v, rdb, Tail(w), i)
    <2>1. Transfer(v, w, i) BY <1>10 DEF InTransfer
    <2> HIDE DEF w, v, i
    <2> QED BY <1>3, <1>7, <1>8, <2>1 DEF Transfer
  <1>12. sdata'[s] = rdb.data /\ master'[s] = m /\ rs'[s] = "CONNECTED" /\ pos'[s] = p
    <2> HIDE DEF m, p, rdb
    <2> QED BY <1>1, <1>4 DEF SlaveTypes
  <1>13. m.db = 0 /\ m.off = i.off /\ m.run = i.run OBVIOUS
  <1>14. ~cached'[s].on
    <2>1. rs[s] = "TRANSFER" BY <1>3 DEF CanRead
    <2> QED BY <1>2, <1>4, <2>1 DEF SlaveOK
  <1>15. CachedOK(hist, runid, cached'[s], sdata'[s], pos'[s]) BY <1>14, NothingCached
  <1>16. p = "exact" => i.off = rdb.snap OBVIOUS
  <1> HIDE DEF m, p, rdb, i, w, j, ch, v
  <1>17. InConnected(v, j, m, rdb.data, p) BY <1>7, <1>9, <1>11, <1>13, <1>16 DEF InConnected, Loads
  <1>18. AtConn(v, j, "CONNECTED", m, cached'[s], init'[s], rdb.data, p) BY <1>17 DEF AtConn
  <1>19. AtConn(ViewN(sc'[s]), chan'[sc'[s]], rs'[s], master'[s], cached'[s], init'[s], sdata'[s], pos'[s])
    BY <1>4, <1>7, <1>12, <1>18 DEF j
  <1> QED BY <1>7, <1>15, <1>19, SlaveRest DEF j

\* A stream element is executed.
LEMMA ReadExact ==
    ASSUME NEW v, IsView(v), NEW q \in Seq(Msg), q # << >>, NEW st \in State
    PROVE  /\ Caught(v, st, q) => Caught(v, Exec(st, Head(q)), Tail(q))
           /\ \A r, o : Exact(v, st, r, o, q) => Exact(v, Exec(st, Head(q)), r, o + 1, Tail(q))
  <1> DEFINE a == v.k.out
             w == q \o a
             t == Tail(q)
             e == Head(q)
  <1>1. a \in Seq(Reply) /\ Reply \subseteq Msg BY MakesMsg DEF IsView, Client
  <1>2. a \in Seq(Msg) BY <1>1, SeqMonotonic
  <1>3. e \in Msg /\ t \in Seq(Msg) /\ Len(q) \in Nat /\ Len(t) = Len(q) - 1 OBVIOUS
  <1>4. Sent(w, q, a) BY <1>2, SentIs
  <1>5. w \in Seq(Msg) /\ w # << >> /\ Head(w) = e /\ Tail(w) = t \o a BY <1>4 DEF Sent
  <1>6. ASSUME Caught(v, st, q) PROVE Caught(v, Exec(st, e), t)
    <2> HIDE DEF w, t, e
    <2>1. Executed(st, w) = Executed(Exec(st, e), t \o a) BY <1>5, ExecutedHead
    <2> QED BY <1>6, <2>1 DEF Caught, w
  <1>7. ASSUME NEW r, NEW o, Exact(v, st, r, o, q) PROVE Exact(v, Exec(st, e), r, o + 1, t)
    <2> DEFINE h == v.hist[r]
    <2>1. r \in 0..v.run /\ Follows(q, h, o) /\ Compat(st, h[o + 1]) BY <1>7 DEF Exact
    <2>2. h \in Seq(Point) /\ Len(h) \in Nat BY <2>1 DEF IsView
    <2>3. StepOK(h[o + 1], e, h[o + 2]) /\ Follows(t, h, o + 1) BY <2>1, <2>2, FollowsTail
    <2>4. Compat(Exec(st, e), h[o + 2]) BY <2>1, <2>3, StepIs
    <2>5. o \in Nat BY <2>1 DEF Follows
    <2>6. (o + 1) + 1 = o + 2 /\ (o + 1) + Len(t) = o + Len(q) BY <1>3, <2>5
    <2>7. Live(v) => /\ r = v.run /\ o + Len(q) + Len(a) = v.off /\ Follows(a, v.hist[v.run], o + Len(q))
      BY <1>7 DEF Exact
    <2> HIDE DEF t, e, h, a
    <2> QED BY <2>1, <2>3, <2>4, <2>6, <2>7 DEF Exact, h, a
  <1> QED BY <1>6, <1>7

\* ReadStream.
LEMMA ExactStream ==
    ASSUME ExactInv, TypeInv', NEW s \in Slaves, ReadStream(s)
    PROVE  Rest'
  <1> DEFINE c == sc[s]
             v == View(c)
             ch == chan[c]
             j == chan'[c]
             w == ch.m2s
             n == master[s]
             x == sdata[s]
             st == St(n.db, x)
             b == Exec(st, Head1(c))
             m == [n EXCEPT !.db = b.db, !.off = @ + 1]
  <1>1. TypeInv /\ SlaveTypes BY DEF ExactInv, TypeInv
  <1>2. SlaveOK(rs[s], sc[s], master[s], cached[s], init[s], sdata[s], pos[s]) BY <1>1, SlaveIs
  <1>3. /\ CanRead(s, "CONNECTED") /\ chan' = Consumed(c)
        /\ sdata' = [sdata EXCEPT ![s] = b.data]
        /\ master' = [master EXCEPT ![s].db = b.db, ![s].off = @ + 1]
        /\ UNCHANGED <<mvars, rs, sc, cached, init, hist, pos>>
    BY DEF ReadStream, hvars, St
  <1>4. n \in Link /\ x \in Data BY <1>2 DEF SlaveOK
  <1>5. master' = [master EXCEPT ![s] = m] BY <1>1, <1>3 DEF SlaveTypes
  <1>6. master'[s] = m /\ sdata'[s] = b.data
    <2> HIDE DEF m, b
    <2> QED BY <1>1, <1>3, <1>5 DEF SlaveTypes
  <1>7. OnlySlave(s)
    <2> HIDE DEF m, b
    <2> QED BY <1>1, <1>3, <1>5 DEF OnlySlave, SlaveTypes
  <1>8. "CONNECTED" \in {"PSYNC", "CONNECTED"} \cup Handshake OBVIOUS
  <1>9. /\ Moves(s, c) /\ ClientOK(ViewN(c), j) /\ ViewN(c) = v /\ j.mopen = ch.mopen
        /\ j.m2s = Tail(w) /\ c \in Conns /\ w # << >> /\ ch \in Channel
        /\ AtConn(v, ch, "CONNECTED", n, cached[s], init[s], x, pos[s]) /\ IsView(v)
        /\ Head1(c) \in Msg
    <2>1. sc'[s] = sc[s] BY <1>3
    <2> QED BY <1>3, <1>7, <1>8, <2>1, TakesOne
  <1>10. Head1(c) = Head(w) BY DEF Head1
  <1>11. st \in State BY <1>4 DEF St, State, Link
  <1>12. rs[s] = "CONNECTED" /\ rs'[s] = "CONNECTED" /\ cached'[s] = cached[s] /\ pos'[s] = pos[s]
         /\ sc'[s] = c
    BY <1>3 DEF CanRead
  <1>13. CachedOK(hist, runid, cached'[s], sdata'[s], pos'[s])
    <2>1. ~cached'[s].on BY <1>2, <1>12 DEF SlaveOK
    <2> QED BY <2>1, NothingCached
  <1>14. InConnected(v, ch, n, x, pos[s]) BY <1>9 DEF AtConn
  <1>15. w \in Seq(Msg) BY <1>9 DEF Channel
  <1> HIDE DEF st
  <1>16. b \in State BY <1>9, <1>11, ExecType
  <1>17. b = Exec(st, Head(w)) BY <1>10
  <1> HIDE DEF b
  <1>18. m.db = b.db /\ m.off = n.off + 1 /\ m.run = n.run
    <2> DEFINE n1 == [n EXCEPT !.db = b.db]
    <2>1. m = [n1 EXCEPT !.off = n1.off + 1] OBVIOUS
    <2> HIDE DEF n
    <2>2. n1 \in Link /\ n1.db = b.db /\ n1.off = n.off /\ n1.run = n.run
      BY <1>4, <1>16 DEF Link, State
    <2> HIDE DEF n1, m
    <2> QED BY <2>1, <2>2 DEF Link
  <1>19. St(m.db, b.data) = b BY <1>16, <1>18 DEF St, State
  <1> HIDE DEF m, w, v, ch, j, x, n
  <1>20. /\ Caught(v, st, w) => Caught(v, b, Tail(w))
         /\ \A r, o : Exact(v, st, r, o, w) => Exact(v, b, r, o + 1, Tail(w))
    BY <1>9, <1>11, <1>15, <1>17, ReadExact
  <1>21. InConnected(v, j, m, b.data, pos[s])
    <2>1. /\ Served(v) /\ (ch.mopen => v.k.state # "NONE")
          /\ (pos[s] # "tainted" => Caught(v, st, w))
          /\ (pos[s] = "exact" /\ n.run >= 0 => Exact(v, st, n.run, n.off, w))
      BY <1>14 DEF InConnected, st, w
    <2> QED BY <1>9, <1>18, <1>19, <1>20, <2>1 DEF InConnected
  <1>22. AtConn(v, j, "CONNECTED", m, cached'[s], init'[s], b.data, pos[s]) BY <1>21 DEF AtConn
  <1>23. AtConn(ViewN(sc'[s]), chan'[sc'[s]], rs'[s], master'[s], cached'[s], init'[s], sdata'[s], pos'[s])
    BY <1>6, <1>9, <1>12, <1>22 DEF j
  <1> QED BY <1>9, <1>13, <1>23, SlaveRest DEF j

\* The slave misses the end of the RDB.
LEMMA ExactLost ==
    ASSUME ExactInv, TypeInv', NEW s \in Slaves, EofMarkMissed(s) \/ SwallowStream(s)
    PROVE  Rest'
  <1> DEFINE c == sc[s]
  <1>1. TypeInv /\ SlaveTypes /\ chan \in [Conns -> Channel] BY DEF ExactInv, TypeInv, ChanTypes
  <1>2. PICK st \in {"TRANSFER", "TRANSFER_LOST"} : CanRead(s, st) BY DEF EofMarkMissed, SwallowStream
  <1>3. rs[s] = st /\ chan[c].m2s # << >> BY <1>2 DEF CanRead
  <1>4. c \in Conns /\ chan[c] \in Channel /\ chan[c].m2s \in Seq(Msg) BY <1>1, <1>3, OwnLink
  <1>5. /\ rs' = [rs EXCEPT ![s] = "TRANSFER_LOST"] \/ (rs' = rs /\ st = "TRANSFER_LOST")
        /\ UNCHANGED <<mvars, hist>> /\ UNCHANGED <<sc, master, cached, init, sdata, pos>>
    BY <1>3 DEF EofMarkMissed, SwallowStream, CanRead, svars, hvars
  <1>6. rs'[s] = "TRANSFER_LOST" /\ OnlySlave(s) BY <1>1, <1>3, <1>5 DEF SlaveTypes, OnlySlave
  <1>7. \E q \in Seq(Msg) : chan' = [chan EXCEPT ![c].m2s = q]
    <2>1. << >> \in Seq(Msg) /\ Tail(chan[c].m2s) \in Seq(Msg) BY <1>3, <1>4
    <2>2. chan' = [chan EXCEPT ![c].m2s = << >>] \/ chan' = [chan EXCEPT ![c].m2s = Tail(chan[c].m2s)]
      BY <1>1, <1>4 DEF EofMarkMissed, SwallowStream, Consumed
    <2> HIDE DEF c
    <2> QED BY <2>1, <2>2
  <1>8. (\A d \in Conns : d # c => chan'[d] = chan[d]) /\ chan'[c].mopen = chan[c].mopen
    <2> HIDE DEF c
    <2> QED BY <1>1, <1>4, <1>7, ConsumedIs
  <1>9. Moves(s, c) BY <1>5, <1>6, <1>8 DEF Moves
  <1>10. ClientOK(ViewN(c), chan'[c]) BY <1>3, <1>4, <1>5, <1>8, SlaveClient
  <1>11. AtConn(ViewN(sc'[s]), chan'[sc'[s]], rs'[s], master'[s], cached'[s], init'[s], sdata'[s], pos'[s])
    BY <1>6 DEF AtConn
  <1>12. CachedOK(hist, runid, cached'[s], sdata'[s], pos'[s])
    <2>1. SlaveAt(s) BY DEF ExactInv
    <2> QED BY <1>5, <2>1 DEF SlaveAt
  <1> QED BY <1>9, <1>10, <1>11, <1>12, SlaveRest

\* A master that is cached was exact.
LEMMA CacheExact ==
    ASSUME NEW v, IsView(v), NEW ch \in Channel, NEW m \in Link, NEW x, NEW p,
           InConnected(v, ch, m, x, p)
    PROVE  CachedOK(v.hist, v.run, m, x, p)
  <1> SUFFICES ASSUME p = "exact", m.run >= 0
               PROVE  /\ m.run \in 0..v.run /\ Follows(<< >>, v.hist[m.run], m.off)
                      /\ Compat(St(m.db, x), v.hist[m.run][m.off + 1])
    BY DEF CachedOK
  <1> DEFINE h == v.hist[m.run]
             n == Len(ch.m2s)
  <1>1. m.run \in 0..v.run /\ Follows(ch.m2s, h, m.off) /\ Compat(St(m.db, x), h[m.off + 1])
    BY DEF InConnected, Exact
  <1>2. ch.m2s \in Seq(Msg) /\ n \in Nat BY DEF Channel
  <1>3. h \in Seq(Point) /\ Len(h) \in Nat BY <1>1 DEF IsView
  <1>4. m.off \in Nat /\ m.off + n < Len(h) BY <1>1 DEF Follows
  <1> HIDE DEF h, n
  <1>5. m.off < Len(h) BY <1>2, <1>3, <1>4
  <1>6. Follows(<< >>, h, m.off) BY <1>3, <1>4, <1>5, FollowsNone
  <1> QED BY <1>1, <1>6 DEF h

\* A slave lets go of its connection.
LEMMA ExactLeave ==
    ASSUME ExactInv, TypeInv', NEW s \in Slaves,
           AbortSync(s) \/ MasterLost(s) \/ replicationUnsetMaster(s) \/ replicationSetMaster(s)
    PROVE  Rest'
  <1> DEFINE c == sc[s]
  <1>1. TypeInv /\ SlaveTypes /\ chan \in [Conns -> Channel] BY DEF ExactInv, TypeInv, ChanTypes
  <1>2. SlaveOK(rs[s], sc[s], master[s], cached[s], init[s], sdata[s], pos[s]) BY <1>1, SlaveIs
  <1>3. chan' = chan \/ (c \in Conns /\ chan' = SClose(chan, c))
    BY <1>2 DEF AbortSync, MasterLost, replicationUnsetMaster, replicationSetMaster, Reconnect,
                Handshake, SlaveOK
  <1>4. UNCHANGED <<mvars, hist>> /\ UNCHANGED <<init, pos>>
    BY DEF AbortSync, MasterLost, replicationUnsetMaster, replicationSetMaster, hvars
  <1>5. \A d \in Conns : d # c => chan'[d] = chan[d]
    <2> HIDE DEF c
    <2>1. CASE chan' = chan BY <2>1
    <2>2. CASE c \in Conns /\ chan' = SClose(chan, c)
      <3>1. chan \in [Conns -> Channel] BY <1>1
      <3> QED BY <2>2, <3>1, SCloseIs
    <2> QED BY <1>3, <2>1, <2>2
  <1>6. c \in Conns => chan'[c].mopen = chan[c].mopen /\ (chan[c].m2s = << >> => chan'[c].m2s = << >>)
    <2> SUFFICES ASSUME c \in Conns
                 PROVE  chan'[c].mopen = chan[c].mopen /\ (chan[c].m2s = << >> => chan'[c].m2s = << >>)
      OBVIOUS
    <2> DEFINE ch == chan[c]
               k == [ch EXCEPT !.sopen = FALSE, !.m2s = << >>]
    <2>1. ch \in Channel BY <1>1
    <2>2. CASE chan' = chan BY <2>2
    <2>3. CASE chan' = SClose(chan, c)
      <3>1. chan'[c] = IF ch.mopen THEN k ELSE Closed
        <4> HIDE DEF c
        <4> QED BY <1>1, <2>3, SCloseIs
      <3>2. Closed.mopen = FALSE /\ Closed.m2s = << >> BY DEF Closed
      <3>3. ch.mopen \in BOOLEAN BY <2>1 DEF Channel
      <3>4. k.mopen = ch.mopen /\ k.m2s = << >>
        <4> HIDE DEF ch
        <4> QED BY <2>1 DEF Channel
      <3> HIDE DEF k, ch
      <3>5. chan'[c].mopen = ch.mopen /\ chan'[c].m2s = << >> BY <3>1, <3>2, <3>3, <3>4
      <3> QED BY <3>5 DEF ch
    <2> QED BY <1>3, <2>2, <2>3
  <1>7. c \in Conns => ClientOK(ViewN(c), chan'[c]) BY <1>4, <1>6, SlaveClient
  <1>8. ASSUME OnlySlave(s), sc'[s] = NoConn, CachedOK(hist, runid, cached'[s], sdata'[s], pos'[s])
        PROVE  Rest'
    <2>1. Moves(s, c) BY <1>4, <1>5, <1>8 DEF Moves
    <2> QED BY <1>7, <1>8, <2>1, SlaveRest
  <1>9. SlaveAt(s) BY DEF ExactInv
  <1>10. NoMaster.on = FALSE BY DEF NoMaster
  <1>11. CASE AbortSync(s)
    <2>1. /\ rs[s] \in Handshake /\ rs' = [rs EXCEPT ![s] = "CONNECT"] /\ sc' = [sc EXCEPT ![s] = NoConn]
          /\ UNCHANGED <<master, cached>>
          /\ sdata' = sdata \/ (sdata' = [sdata EXCEPT ![s] = << >>] /\ rs[s] = "TRANSFER")
      BY <1>11 DEF AbortSync, Reconnect, CanRead
    <2>2. sc'[s] = NoConn BY <1>1, <2>1 DEF SlaveTypes
    <2>3. OnlySlave(s) BY <1>1, <1>4, <2>1 DEF OnlySlave, SlaveTypes
    <2>4. CachedOK(hist, runid, cached'[s], sdata'[s], pos'[s])
      <3>1. CASE sdata' = sdata BY <1>4, <1>9, <2>1, <3>1 DEF SlaveAt
      <3>2. CASE rs[s] = "TRANSFER"
        <4>1. ~cached'[s].on BY <1>2, <2>1, <3>2 DEF SlaveOK
        <4> QED BY <4>1, NothingCached
      <3> QED BY <2>1, <3>1, <3>2
    <2> QED BY <1>8, <2>2, <2>3, <2>4
  <1>12. CASE MasterLost(s)
    <2>1. /\ rs[s] = "CONNECTED" /\ rs' = [rs EXCEPT ![s] = "CONNECT"] /\ sc' = [sc EXCEPT ![s] = NoConn]
          /\ master' = [master EXCEPT ![s] = NoMaster] /\ cached' = [cached EXCEPT ![s] = master[s]]
          /\ UNCHANGED sdata
      BY <1>12 DEF MasterLost, Reconnect
    <2>2. sc'[s] = NoConn /\ cached'[s] = master[s] BY <1>1, <2>1 DEF SlaveTypes
    <2>3. OnlySlave(s) BY <1>1, <1>4, <2>1 DEF OnlySlave, SlaveTypes
    <2>4. c \in Conns /\ chan[c] \in Channel BY <1>1, <2>1, OwnLink
    <2>5. AtConn(View(c), chan[c], rs[s], master[s], cached[s], init[s], sdata[s], pos[s])
          /\ master[s] \in Link
      BY <2>4, AtConnIs
    <2>6. InConnected(View(c), chan[c], master[s], sdata[s], pos[s]) BY <2>1, <2>5 DEF AtConn
    <2>7. IsView(View(c)) /\ View(c).hist = hist /\ View(c).run = runid BY <2>4, ConnIs, ViewIs
    <2>8. CachedOK(View(c).hist, View(c).run, master[s], sdata[s], pos[s])
      <3> DEFINE v == View(c)
                 ch == chan[c]
      <3> HIDE DEF v, ch
      <3> QED BY <2>4, <2>5, <2>6, <2>7, CacheExact DEF v, ch
    <2>9. CachedOK(hist, runid, cached'[s], sdata'[s], pos'[s]) BY <1>4, <2>1, <2>2, <2>7, <2>8
    <2> QED BY <1>8, <2>2, <2>3, <2>9
  <1>13. CASE replicationUnsetMaster(s)
    <2>1. /\ rs' = [rs EXCEPT ![s] = "NONE"] /\ sc' = [sc EXCEPT ![s] = NoConn]
          /\ master' = [master EXCEPT ![s] = NoMaster] /\ cached' = [cached EXCEPT ![s] = NoMaster]
          /\ UNCHANGED sdata
      BY <1>13 DEF replicationUnsetMaster
    <2>2. sc'[s] = NoConn /\ cached'[s] = NoMaster BY <1>1, <2>1 DEF SlaveTypes
    <2>3. OnlySlave(s) BY <1>1, <1>4, <2>1 DEF OnlySlave, SlaveTypes
    <2>4. CachedOK(hist, runid, cached'[s], sdata'[s], pos'[s]) BY <1>10, <2>2, NothingCached
    <2> QED BY <1>8, <2>2, <2>3, <2>4
  <1>14. CASE replicationSetMaster(s)
    <2>1. /\ rs[s] = "NONE" /\ rs' = [rs EXCEPT ![s] = "CONNECT"]
          /\ UNCHANGED <<sc, master, cached, sdata>>
      BY <1>14 DEF replicationSetMaster
    <2>2. sc'[s] = NoConn BY <1>1, <1>2, <2>1 DEF SlaveTypes, SlaveOK
    <2>3. OnlySlave(s) BY <1>1, <1>4, <2>1 DEF OnlySlave, SlaveTypes
    <2>4. CachedOK(hist, runid, cached'[s], sdata'[s], pos'[s]) BY <1>4, <1>9, <2>1 DEF SlaveAt
    <2> QED BY <1>8, <2>2, <2>3, <2>4
  <1> QED BY <1>11, <1>12, <1>13, <1>14

(***************************************************************************)
(* SYNC and PSYNC.                                                         *)
(***************************************************************************)

\* The requests behind the first one.
LEMMA RequestsTail ==
    ASSUME NEW S, NEW q \in Seq(S), q # << >>
    PROVE  /\ Head(q) = q[1] /\ 1 \in 1..Len(q)
           /\ \A a \in 1..Len(Tail(q)) : a + 1 \in 1..Len(q) /\ Tail(q)[a] = q[a + 1]
  <1>1. Len(q) \in Nat /\ Len(q) >= 1 OBVIOUS
  <1>2. Len(Tail(q)) = Len(q) - 1 /\ \A a \in 1..(Len(q) - 1) : Tail(q)[a] = q[a + 1] BY <1>1
  <1> QED BY <1>1, <1>2

\* The slave that is answered +CONTINUE.
LEMMA PartialAt ==
    ASSUME NEW v, NEW u, IsView(v), IsView(u), u.hist = v.hist, u.run = v.run, u.off = v.off,
           u.net = v.net, v.k.state = "NONE", u.k.state = "ONLINE", ~v.mine, ~u.mine,
           NEW ch \in Channel, NEW j \in Channel, ch.s2m # << >>, ch.mopen, v.net = ch.net,
           ch.m2s = << >>, NEW e, e[1] = "cont", j.m2s = (IF ch.net THEN <<e>> ELSE << >>),
           j.s2m = Tail(ch.s2m),
           NEW o \in Int, Head(ch.s2m) = <<"PSYNC", v.run, o>>,
           Follows(u.k.out, v.hist[v.run], o - 1), o - 1 + Len(u.k.out) = v.off,
           NEW r, NEW m \in Link, NEW q \in Link, NEW i \in [run : Int, off : Int], NEW x \in Data,
           NEW p, AtConn(v, ch, r, m, q, i, x, p), CachedOK(v.hist, v.run, q, x, p)
    PROVE  AtConn(u, j, r, m, q, i, x, p)
  <1>1. /\ ch.s2m \in Seq(Request) /\ Head(ch.s2m) = ch.s2m[1] /\ 1 \in 1..Len(ch.s2m)
        /\ \A a \in 1..Len(j.s2m) : a + 1 \in 1..Len(ch.s2m) /\ j.s2m[a] = ch.s2m[a + 1]
    BY RequestsTail DEF Channel
  <1>2. Served(u) BY DEF Served
  <1>3. ch.net => j.m2s # << >> /\ Head(j.m2s) = e /\ Tail(j.m2s) = << >> OBVIOUS
  <1>4. ~ch.net => j.m2s = << >> /\ ~Live(u) BY DEF Live
  <1>5. v.run \in Nat BY DEF IsView
  <1>6. r # "CONNECTING" BY DEF AtConn, InConnecting
  <1>7. r # "CONNECTED" BY DEF AtConn, InConnected
  <1>8. ASSUME r = "PSYNC" PROVE InPsync(u, j, q, i, x, p)
    <2>1. i = NoInit /\ \A a \in 1..Len(ch.s2m) : ch.s2m[a] = PsyncMsg(q)
      BY <1>8 DEF AtConn, InPsync
    <2>2. \A a \in 1..Len(j.s2m) : j.s2m[a] = PsyncMsg(q) BY <1>1, <2>1
    <2>3. PsyncMsg(q) = <<"PSYNC", v.run, o>> BY <1>1, <2>1
    <2>4. q.on /\ q.run = v.run /\ q.off + 1 = o BY <1>5, <2>3 DEF PsyncMsg
    <2>5. q.off \in Int /\ o - 1 = q.off BY <2>4 DEF Link
    <2>6. ASSUME p = "exact" PROVE Exact(u, St(q.db, x), q.run, q.off, << >>)
      <3>1. /\ q.run \in 0..v.run /\ Follows(<< >>, v.hist[q.run], q.off)
            /\ Compat(St(q.db, x), v.hist[q.run][q.off + 1])
        BY <1>5, <2>4, <2>6 DEF CachedOK
      <3>2. Len(<< >>) = 0 /\ q.off + 0 = q.off BY <2>5
      <3>3. /\ q.off + Len(<< >>) + Len(u.k.out) = u.off
            /\ Follows(u.k.out, u.hist[u.run], q.off + Len(<< >>))
        BY <2>5, <3>2
      <3> QED BY <2>4, <3>1, <3>3 DEF Exact
    <2> QED BY <1>2, <1>3, <1>4, <1>5, <2>1, <2>2, <2>4, <2>6 DEF InPsync
  <1>9. ASSUME r = "TRANSFER" PROVE InTransfer(u, j, i)
    <2>1. i.off >= -1 BY <1>9 DEF AtConn, InTransfer
    <2>2. ~ch.net => Awaits(u, i) BY <1>4, <2>1 DEF Awaits
    <2>3. Transfer(u, j.m2s, i) BY <1>3, <1>4, <2>2 DEF Transfer
    <2> QED BY <2>1, <2>3 DEF InTransfer
  <1> QED BY <1>6, <1>7, <1>8, <1>9 DEF AtConn

\* A new slave's client with the end of the backlog in its buffer.
LEMMA PartialClient ==
    ASSUME NEW es \in Seq(Reply)
    PROVE  /\ AddReply([NewClient EXCEPT !.state = "ONLINE"], es).state = "ONLINE"
           /\ AddReply([NewClient EXCEPT !.state = "ONLINE"], es).out = es
  <1> DEFINE k == [NewClient EXCEPT !.state = "ONLINE"]
  <1>1. NewClient \in Client BY InitialTypes
  <1>2. k \in Client /\ k.state = "ONLINE" BY <1>1 DEF Client
  <1>3. k.out = << >> BY DEF NewClient
  <1> HIDE DEF k
  <1>4. Added(AddReply(k, es), k, es) BY <1>2, AddedIs
  <1>5. << >> \o es = es OBVIOUS
  <1>6. AddReply(k, es).state = "ONLINE" /\ AddReply(k, es).out = es BY <1>2, <1>3, <1>4, <1>5 DEF Added
  <1> QED BY <1>6 DEF k

\* masterTryPartialResynchronization accepts.
LEMMA ExactPartial ==
    ASSUME ExactInv, TypeInv', NEW c \in Conns, chan[c].mopen, chan[c].s2m # << >>,
           cl[c].state = "NONE", NEW off \in Int, Head(chan[c].s2m) = <<"PSYNC", runid, off>>,
           CanContinue(runid, off), AcceptPartial(c, off)
    PROVE  Rest'
  <1> DEFINE v == View(c)
             u == ViewN(c)
             ch == chan[c]
             j == chan'[c]
             a == off - BacklogOff + 1
             es == SubSeq(bl.win, a, Len(bl.win))
             e == <<"cont">>
             k == AddReply([NewClient EXCEPT !.state = "ONLINE"], es)
  <1>1. TypeInv /\ HistInv /\ chan \in [Conns -> Channel] /\ cl \in [Conns -> Client]
    BY DEF ExactInv, TypeInv, ChanTypes, ClientTypes
  <1>2. /\ chan' = MSend([chan EXCEPT ![c].s2m = Tail(@)], c, <<e>>)
        /\ cl' = [cl EXCEPT ![c] = k]
        /\ UNCHANGED <<hist, runid, moff, seldb, mdata>>
        /\ UNCHANGED <<bl, child, rs, sc, master, cached, init, sdata, pos>>
    BY DEF AcceptPartial, svars, hvars
  <1>3. Still BY <1>2 DEF Still
  <1>4. /\ IsView(v) /\ IsView(u) /\ ClientOK(v, ch)
        /\ u.hist = v.hist /\ u.run = v.run /\ u.off = v.off
    BY <1>3, StillView
  <1>5. /\ v.hist = hist /\ v.run = runid /\ v.off = moff
        /\ v.net = ch.net /\ v.k = cl[c] /\ v.mine = (c \in child.ids)
        /\ u.net = j.net /\ u.k = cl'[c] /\ u.mine = (c \in child'.ids)
    BY ViewIs, ViewNIs
  <1>6. /\ Follows(es, hist[runid], off - 1) /\ off - 1 + Len(es) = moff
        /\ es \in Seq(Elem)
    <2> DEFINE w == bl.win
               h == hist[runid]
    <2>1. w \in Seq(Elem) /\ Len(w) \in Nat /\ moff \in Nat /\ h \in Seq(Point) /\ Len(h) \in Nat
      BY <1>1 DEF TypeInv, MasterTypes
    <2>2. Follows(w, h, moff - Len(w)) BY <1>1 DEF HistInv
    <2>3. a \in 1..(Len(w) + 1) /\ off = moff - Len(w) + a
      <3> DEFINE n == Len(w)
      <3>1. off >= moff - n + 1 /\ off <= moff - n + 1 + n BY DEF CanContinue, BacklogOff
      <3>2. a = off - (moff - n + 1) + 1 BY DEF BacklogOff
      <3>3. n \in Nat /\ moff \in Nat BY <2>1
      <3> HIDE DEF n, a
      <3>4. a \in 1..(n + 1) /\ off = moff - n + a BY <3>1, <3>2, <3>3
      <3> QED BY <3>4 DEF n
    <2>4. es = SubSeq(w, a, Len(w)) OBVIOUS
    <2> HIDE DEF w, h, a, es
    <2> DEFINE o == moff - Len(w)
    <2>5. Follows(es, h, o + a - 1) /\ Len(es) = Len(w) - a + 1 /\ es \in Seq(Elem)
      BY <2>1, <2>2, <2>3, <2>4, FollowsSub
    <2>6. o + a - 1 = off - 1 BY <2>1, <2>3
    <2>7. off - 1 + Len(es) = moff BY <2>1, <2>3, <2>5
    <2> HIDE DEF o
    <2> QED BY <2>5, <2>6, <2>7 DEF h
  <1>7. es \in Seq(Reply) BY <1>6, MakesMsg, SeqMonotonic
  <1> HIDE DEF es
  <1>8. k.state = "ONLINE" /\ k.out = es BY <1>7, PartialClient
  <1> HIDE DEF k
  <1>9. cl'[c] = k /\ \A d \in Conns : d # c => cl'[d] = cl[d] BY <1>1, <1>2
  <1>10. /\ chan' \in [Conns -> Channel] /\ \A d \in Conns : d # c => chan'[d] = chan[d]
         /\ j.mopen = ch.mopen /\ j.sopen = ch.sopen /\ j.net = ch.net /\ j.s2m = Tail(ch.s2m)
         /\ j.m2s = IF ch.net /\ ch.sopen THEN ch.m2s \o <<e>> ELSE ch.m2s
    <2>1. <<e>> \in Seq(Msg) BY MakesMsg
    <2>2. ChanTypes BY <1>1 DEF ChanTypes
    <2> HIDE DEF e
    <2> QED BY <1>2, <2>1, <2>2, AnswerIs
  <1>11. e[1] = "cont" /\ << >> \o <<e>> = <<e>> OBVIOUS
  <1>12. ch \in Channel /\ j \in Channel BY <1>1, <1>10
  <1>13. ch.mopen /\ ch.s2m # << >> /\ Head(ch.s2m) = <<"PSYNC", v.run, off>> BY <1>5
  <1>14. v.k.state = "NONE" /\ ch.m2s = << >> /\ ~v.mine BY <1>4, <1>5, <1>13 DEF ClientOK
  <1>15. u.k.state = "ONLINE" /\ u.k.out = es /\ u.mine = v.mine /\ u.net = v.net
    BY <1>2, <1>5, <1>8, <1>9, <1>10
  <1> HIDE DEF v, u, ch, j, e
  <1>16. ClientOK(u, j) BY <1>10, <1>13, <1>14, <1>15 DEF ClientOK
  <1>17. ASSUME NEW s \in Slaves, sc[s] = c PROVE AtNext(s, c)
    <2>1. /\ AtConn(v, ch, rs[s], master[s], cached[s], init[s], sdata[s], pos[s])
          /\ master[s] \in Link /\ cached[s] \in Link /\ init[s] \in [run : Int, off : Int]
          /\ sdata[s] \in Data /\ ch.sopen
      BY <1>17, AtConnIs DEF v, ch
    <2>2. CachedOK(v.hist, v.run, cached[s], sdata[s], pos[s]) BY <1>5 DEF ExactInv, SlaveAt
    <2>3. j.m2s = IF ch.net THEN <<e>> ELSE << >> BY <1>10, <1>11, <1>14, <2>1
    <2>4. Follows(u.k.out, v.hist[v.run], off - 1) /\ off - 1 + Len(u.k.out) = v.off
      BY <1>5, <1>6, <1>15
    <2>5. v.net = ch.net BY <1>5
    <2>6. j.s2m = Tail(ch.s2m) BY <1>10
    <2>7. AtConn(u, j, rs[s], master[s], cached[s], init[s], sdata[s], pos[s])
      BY <1>4, <1>11, <1>12, <1>13, <1>14, <1>15, <2>1, <2>2, <2>3, <2>4, <2>5, <2>6, PartialAt
    <2> QED BY <2>7 DEF AtNext, u, j
  <1> QED BY <1>2, <1>3, <1>9, <1>10, <1>16, <1>17, OneConn DEF u, j

\* The history when a slave attaches: any database may be selected next.
LEMMA AttachHist ==
    ASSUME ExactInv, TypeInv', runid' = runid, mdata' = mdata, seldb' = -1,
           bl' = [bl EXCEPT !.on = TRUE],
           moff' = IF CreateBacklog THEN moff + 1 ELSE moff,
           hist' = IF CreateBacklog
                   THEN [hist EXCEPT ![runid] = Append(@, [db |-> -1, data |-> mdata])]
                   ELSE [hist EXCEPT ![runid][moff + 1].db = -1]
    PROVE  /\ Onward /\ HistInv' /\ moff <= moff' /\ (moff' # moff => slaves = << >>)
           /\ Len(hist'[runid]) = moff' + 1 /\ hist'[runid][moff' + 1] = Now'
  <1> DEFINE h == hist[runid]
             p == [db |-> -1, data |-> mdata]
  <1>1. TypeInv /\ HistInv BY DEF ExactInv
  <1>2. /\ runid \in Nat /\ hist \in [0..runid -> Seq(Point)] /\ h \in Seq(Point) /\ moff \in Nat
        /\ bl \in [on : BOOLEAN, win : Seq(Elem)] /\ mdata \in Data /\ p \in Point
    <2>1. /\ runid \in Nat /\ hist \in [0..runid -> Seq(Point)] /\ moff \in Nat
          /\ bl \in [on : BOOLEAN, win : Seq(Elem)] /\ mdata \in Data
      BY <1>1 DEF TypeInv, MasterTypes
    <2>2. runid \in 0..runid BY <2>1
    <2>3. p \in Point BY <2>1 DEF Point
    <2> QED BY <2>1, <2>2, <2>3
  <1>3. Now' = p /\ bl'.on /\ bl'.win = bl.win BY <1>2 DEF Now
  <1>4. Len(h) = moff + 1 /\ Len(bl.win) \in Nat /\ Follows(bl.win, h, moff - Len(bl.win))
    BY <1>1, <1>2 DEF HistInv
  <1> HIDE DEF p
  <1>5. CASE CreateBacklog
    <2> DEFINE g == Append(h, p)
    <2>1. moff' = moff + 1 /\ hist' = [hist EXCEPT ![runid] = g] BY <1>5 DEF p
    <2>2. Grows(h, g)
      <3>1. g = h \o <<p>> /\ <<p>> \in Seq(Point) BY <1>2, AppendIsConcat
      <3> HIDE DEF g, h
      <3> QED BY <1>2, <3>1, GrowsSame
    <2>3. Len(g) = Len(h) + 1 /\ g[Len(h) + 1] = p BY <1>2
    <2> HIDE DEF g
    <2>4. Onward /\ hist'[runid] = g
      BY <1>1, <2>1, <2>2, OnwardGrows DEF h
    <2>5. Len(g) = moff' + 1 /\ g[moff' + 1] = p BY <1>4, <2>1, <2>3
    <2>6. bl.win = << >> /\ slaves = << >> BY <1>1, <1>5 DEF CreateBacklog, HistInv
    <2>7. Follows(<< >>, g, moff' - Len(<< >>))
      <3>1. Len(<< >>) = 0 /\ moff' - 0 = moff' /\ moff' \in Nat /\ Len(g) \in Nat /\ moff' < Len(g)
        BY <1>2, <2>1, <2>5
      <3> QED BY <3>1, FollowsNone
    <2>8. HistInv'
      <3>1. Len(hist'[runid']) = moff' + 1 /\ hist'[runid'][moff' + 1] = Now' BY <1>3, <2>4, <2>5
      <3>2. Follows(bl'.win, hist'[runid'], moff' - Len(bl'.win)) BY <1>3, <2>4, <2>6, <2>7
      <3> QED BY <1>3, <3>1, <3>2 DEF HistInv
    <2>9. moff <= moff' BY <1>2, <2>1
    <2>10. Len(hist'[runid]) = moff' + 1 /\ hist'[runid][moff' + 1] = Now' BY <1>3, <2>4, <2>5
    <2> QED BY <2>4, <2>6, <2>8, <2>9, <2>10
  <1>6. CASE ~CreateBacklog
    <2> DEFINE g == [h EXCEPT ![moff + 1] = [@ EXCEPT !.db = -1]]
    <2>1. moff' = moff /\ hist' = [hist EXCEPT ![runid] = g] BY <1>2, <1>6
    <2>2. bl.on BY <1>1, <1>6 DEF CreateBacklog, TypeInv, ClientTypes
    <2>3. h[moff + 1] = Now BY <1>1, <2>2 DEF HistInv
    <2>4. moff + 1 \in 1..Len(h) BY <1>2, <1>4
    <2>5. h[moff + 1].data = mdata BY <2>3 DEF Now
    <2>6. [h[moff + 1] EXCEPT !.db = -1] = p BY <2>3 DEF Now, p
    <2>7. g = [h EXCEPT ![moff + 1] = p] BY <2>6
    <2> HIDE DEF g
    <2>8. g \in Seq(Point) /\ Len(g) = Len(h) /\ g[moff + 1] = p
          /\ \A i \in 1..Len(h) : i # moff + 1 => g[i] = h[i]
      <3> HIDE DEF h
      <3> QED BY <1>2, <2>4, <2>7
    <2>9. Grows(h, g)
      <3>1. p.db = -1 /\ p.data = mdata BY DEF p
      <3> HIDE DEF h
      <3>2. ASSUME NEW i \in 1..Len(h) PROVE g[i].data = h[i].data /\ g[i].db \in {-1, h[i].db}
        <4>1. CASE i = moff + 1 BY <2>5, <2>8, <3>1, <4>1
        <4>2. CASE i # moff + 1 BY <2>8, <4>2
        <4> QED BY <4>1, <4>2
      <3>3. \A i \in 1..Len(h) : i < Len(h) => g[i] = h[i] BY <1>2, <1>4, <2>8
      <3> QED BY <1>2, <2>8, <3>2, <3>3 DEF Grows
    <2>10. Onward /\ hist'[runid] = g BY <1>1, <2>1, <2>9, OnwardGrows DEF h
    <2>11. Follows(bl.win, g, moff - Len(bl.win))
      <3>1. Len(h) \in Nat /\ Len(g) \in Nat BY <1>2, <2>8
      <3> HIDE DEF h
      <3> QED BY <1>4, <2>9, <3>1, GrowsFollows
    <2>12. HistInv'
      <3>1. Len(hist'[runid']) = moff' + 1 /\ hist'[runid'][moff' + 1] = Now'
        BY <1>3, <1>4, <2>1, <2>8, <2>10
      <3>2. Follows(bl'.win, hist'[runid'], moff' - Len(bl'.win)) BY <1>3, <2>1, <2>10, <2>11
      <3> QED BY <1>3, <3>1, <3>2 DEF HistInv
    <2> QED BY <1>2, <1>3, <1>4, <2>1, <2>8, <2>10, <2>12
  <1> QED BY <1>5, <1>6

\* The other connections when a slave attaches.
LEMMA AttachOther ==
    ASSUME ExactInv, TypeInv', Onward, NEW d \in Conns, chan'[d] = chan[d], cl'[d] = cl[d],
           runid' = runid, mdata' = mdata, seldb' = -1, moff <= moff', moff' # moff => slaves = << >>,
           Len(hist'[runid]) = moff' + 1,
           child.type # "NONE" => child' = child, child.type = "NONE" => child'.ids = {}
    PROVE  Unnoticed(d) /\ ClientOK(ViewN(d), chan'[d])
  <1> DEFINE v == View(d)
             u == ViewN(d)
             ch == chan[d]
  <1>1. TypeInv /\ ch \in Channel BY DEF ExactInv, TypeInv, ChanTypes
  <1>2. /\ IsView(v) /\ IsView(u) /\ ClientOK(v, ch) /\ Len(v.hist[v.run]) = v.off + 1
    BY ConnIs, ViewTypes
  <1>3. Older(v, u) BY OnwardOlder
  <1>4. /\ v.run = runid /\ v.off = moff /\ v.now.db = seldb /\ v.now.data = mdata /\ v.net = ch.net
        /\ v.k = cl[d] /\ v.child = child /\ v.mine = (d \in child.ids)
    BY ViewIs
  <1>5. /\ u.run = runid' /\ u.off = moff' /\ u.now.db = seldb' /\ u.now.data = mdata'
        /\ u.net = chan'[d].net /\ u.hist = hist'
        /\ u.k = cl'[d] /\ u.child = child' /\ u.mine = (d \in child'.ids)
    BY ViewNIs
  <1> HIDE DEF v, u, ch
  <1>6. u.mine = v.mine
    <2>1. CASE child.type # "NONE" BY <1>4, <1>5, <2>1
    <2>2. CASE child.type = "NONE"
      <3>1. d \notin child.ids BY <1>2, <1>4, <2>2 DEF ClientOK
      <3>2. (d \in child.ids) = FALSE /\ (d \in child'.ids) = FALSE BY <2>2, <3>1
      <3> QED BY <1>4, <1>5, <3>2
    <2> QED BY <2>1, <2>2
  <1>7. /\ u.net = v.net /\ u.run = v.run /\ (v.child.type # "NONE" => u.child = v.child) /\ u.k = v.k
        /\ v.off <= u.off
    BY <1>4, <1>5 DEF ch
  <1>8. CASE cl[d].state = "NONE"
    <2>1. Kept(v, u) /\ ClientOK(u, ch) BY <1>2, <1>3, <1>4, <1>6, <1>7, <1>8, IdleView
    <2>2. KeptChan(v, ch, u, chan'[d]) BY <1>1, <1>7 DEF KeptChan, ch
    <2> QED BY <2>1, <2>2 DEF Unnoticed, v, u, ch
  <1>9. CASE cl[d].state # "NONE"
    <2> DEFINE es == << >>
    <2>1. slaves # << >> BY <1>1, <1>9 DEF TypeInv, ClientTypes, Range
    <2>2. moff' = moff BY <2>1
    <2>3. es \in Seq(Reply) /\ Len(es) = 0 OBVIOUS
    <2>4. v.k.out \in Seq(Reply) BY <1>2 DEF IsView, Client
    <2>5. v.k.out \o es = v.k.out BY <2>4
    <2>6. u.off = v.off + Len(es) BY <1>2, <1>4, <1>5, <2>2, <2>3 DEF IsView
    <2>7. Follows(es, u.hist[u.run], v.off)
      <3>1. v.off \in Nat /\ Len(u.hist[u.run]) = v.off + 1 BY <1>2, <1>4, <1>5, <2>2 DEF IsView
      <3>2. Len(u.hist[u.run]) \in Nat /\ v.off < Len(u.hist[u.run]) BY <3>1
      <3> QED BY <3>1, <3>2, FollowsNone
    <2>8. \A st : Executed(st, es) = st BY ExecutedEmpty
    <2> HIDE DEF es
    <2>9. u.k.out = v.k.out \o (IF v.k.state = "START" THEN es ELSE es) BY <1>7, <2>5
    <2>10. es # << >> \/ es = << >> OBVIOUS
    <2>11. \A st \in State : Compat(st, v.now) => Compat(Executed(st, es), u.now)
      BY <1>4, <1>5, <2>8 DEF Compat
    <2>12. \A st \in State, x \in Data : Compat(st, [db |-> v.now.db, data |-> x]) =>
               Compat(Executed(st, es), [db |-> u.now.db, data |-> x])
      BY <1>5, <2>8 DEF Compat
    <2>13. /\ u.k.state = v.k.state /\ u.k.rdb = v.k.rdb /\ v.k.state # "NONE"
           /\ u.k.wh => v.k.wh \/ v.k.state \in {"NONE", "ONLINE"}
      BY <1>4, <1>7, <1>9
    <2>14. Kept(v, u) /\ ClientOK(u, ch)
      BY <1>2, <1>3, <1>6, <1>7, <2>3, <2>6, <2>7, <2>9, <2>10, <2>11, <2>12, <2>13, FedView
    <2>15. KeptChan(v, ch, u, chan'[d]) BY <1>1, <1>7 DEF KeptChan, ch
    <2> QED BY <2>14, <2>15 DEF Unnoticed, v, u, ch
  <1> QED BY <1>8, <1>9

\* The client of a slave that attaches.
LEMMA AttachedIs ==
    ASSUME TypeInv, NEW c \in Conns, cl[c] = NewClient
    PROVE  /\ ~Attach(c).wh
           /\ \/ /\ Attach(c).state = "END" /\ child.type = "DISK"
                 /\ \E d \in Conns : d # c /\ cl[d].state = "END" /\ Attach(c).out = cl[d].out
              \/ /\ Attach(c).state = "END" /\ Attach(c).out = << >>
                 /\ child.type = "NONE" /\ ~diskless
              \/ Attach(c).state = "START" /\ Attach(c).out = << >>
  <1> DEFINE ends == {i \in 1..Len(slaves) : cl[slaves[i]].state = "END"}
             i == Min(ends)
  <1>1. cl \in [Conns -> Client] /\ slaves \in Seq(Conns) BY DEF TypeInv, ClientTypes
  <1>2. cl[c] \in Client /\ ~cl[c].wh /\ cl[c].out = << >> /\ cl[c].state = "NONE"
    <2>1. cl[c] \in Client BY <1>1
    <2>2. cl[c].wh = FALSE /\ cl[c].out = << >> /\ cl[c].state = "NONE" BY DEF NewClient
    <2> QED BY <2>1, <2>2
  <1>3. CASE child.type = "DISK" /\ ends # {}
    <2>1. ends \subseteq Nat OBVIOUS
    <2>2. i \in ends BY <1>3, <2>1, MinIn
    <2>3. slaves[i] \in Conns /\ cl[slaves[i]].state = "END" BY <1>1, <2>2
    <2>4. Attach(c) = [cl[c] EXCEPT !.state = "END", !.out = cl[slaves[i]].out]
      BY <1>3 DEF Attach
    <2> DEFINE d == slaves[i]
               o == cl[d].out
               k == [cl[c] EXCEPT !.state = "END"]
               l == [k EXCEPT !.out = o]
    <2>5. Attach(c) = l BY <2>4
    <2>6. d \in Conns /\ cl[d].state = "END" BY <2>3
    <2> HIDE DEF d, i, ends
    <2>7. d # c BY <1>2, <2>6
    <2> HIDE DEF o
    <2>8. k \in Client /\ k.state = "END" /\ k.wh = cl[c].wh BY <1>2 DEF Client
    <2> HIDE DEF k
    <2>9. l.state = "END" /\ l.wh = k.wh /\ l.out = o BY <2>8 DEF Client
    <2> HIDE DEF l
    <2>10. Attach(c).out = cl[d].out BY <2>5, <2>9 DEF o
    <2> QED BY <1>2, <1>3, <2>5, <2>6, <2>7, <2>8, <2>9, <2>10
  <1>4. CASE ~(child.type = "DISK" /\ ends # {}) /\ child.type = "NONE" /\ ~diskless
    <2>1. Attach(c) = [cl[c] EXCEPT !.state = "END"] BY <1>4 DEF Attach
    <2> QED BY <1>2, <1>4, <2>1 DEF Client
  <1>5. CASE ~(child.type = "DISK" /\ ends # {}) /\ ~(child.type = "NONE" /\ ~diskless)
    <2>1. Attach(c) = [cl[c] EXCEPT !.state = "START"] BY <1>5 DEF Attach
    <2> QED BY <1>2, <2>1 DEF Client
  <1> QED BY <1>3, <1>4, <1>5

\* The slave that is answered +FULLRESYNC, or nothing.
LEMMA FullAt ==
    ASSUME NEW v, NEW u, IsView(u), v.k.state = "NONE", ~v.mine, u.k.state # "NONE", u.net = v.net,
           NEW ch \in Channel, NEW j \in Channel, ch.s2m # << >>, ch.mopen, v.net = ch.net,
           ch.m2s = << >>, j.s2m = Tail(ch.s2m),
           NEW line, line = << >> \/ line = << <<"full", u.run, u.off>> >>,
           Head(ch.s2m)[1] = "PSYNC" => line # << >>,
           j.m2s = (IF ch.net THEN line ELSE << >>),
           Awaits(u, NoInit), Awaits(u, [run |-> u.run, off |-> u.off]),
           NEW r, NEW m \in Link, NEW q \in Link, NEW i \in [run : Int, off : Int], NEW x,
           NEW p, AtConn(v, ch, r, m, q, i, x, p)
    PROVE  AtConn(u, j, r, m, q, i, x, p)
  <1> DEFINE e == <<"full", u.run, u.off>>
  <1>1. /\ ch.s2m \in Seq(Request) /\ Head(ch.s2m) = ch.s2m[1] /\ 1 \in 1..Len(ch.s2m)
        /\ \A a \in 1..Len(j.s2m) : a + 1 \in 1..Len(ch.s2m) /\ j.s2m[a] = ch.s2m[a + 1]
    BY RequestsTail DEF Channel
  <1>2. line = <<e>> => line # << >> /\ Head(line) = e /\ Tail(line) = << >> OBVIOUS
  <1>3. e[1] = "full" /\ e[2] = u.run /\ e[3] = u.off OBVIOUS
  <1>4. u.off >= -1 BY DEF IsView
  <1>5. line = << >> \/ line = <<e>> OBVIOUS
  <1> HIDE DEF e
  <1>6. r # "CONNECTING" BY DEF AtConn, InConnecting
  <1>7. r # "CONNECTED" BY DEF AtConn, InConnected
  <1>8. ASSUME r = "PSYNC" PROVE InPsync(u, j, q, i, x, p)
    <2>1. i = NoInit /\ \A a \in 1..Len(ch.s2m) : ch.s2m[a] = PsyncMsg(q)
      BY <1>8 DEF AtConn, InPsync
    <2>2. \A a \in 1..Len(j.s2m) : j.s2m[a] = PsyncMsg(q) BY <1>1, <2>1
    <2>3. PsyncMsg(q)[1] = "PSYNC" BY DEF PsyncMsg
    <2>4. line = <<e>> BY <1>1, <1>5, <2>1, <2>3
    <2>5. line # << >> /\ Head(line) = e /\ Tail(line) = << >> BY <1>2, <2>4
    <2>6. Transfer(u, << >>, [run |-> u.run, off |-> u.off]) BY DEF Transfer
    <2>7. CASE ch.net
      <3>1. j.m2s # << >> /\ Head(j.m2s) = e /\ Tail(j.m2s) = << >> BY <2>5, <2>7
      <3>2. /\ Head(j.m2s)[1] = "full" /\ Head(j.m2s)[3] >= -1
            /\ Transfer(u, Tail(j.m2s), [run |-> Head(j.m2s)[2], off |-> Head(j.m2s)[3]])
        BY <1>3, <1>4, <2>6, <3>1
      <3> QED BY <2>1, <2>2, <3>1, <3>2 DEF InPsync
    <2>8. CASE ~ch.net BY <2>1, <2>2, <2>8 DEF InPsync
    <2> QED BY <2>7, <2>8
  <1>9. ASSUME r = "TRANSFER" PROVE InTransfer(u, j, i)
    <2>1. i.off >= -1 /\ i = NoInit BY <1>9 DEF AtConn, InTransfer
    <2>2. CASE ch.net /\ line = <<e>>
      <3>1. j.m2s # << >> /\ Head(j.m2s)[1] = "full" BY <1>2, <1>3, <2>2
      <3>2. Transfer(u, j.m2s, i) BY <3>1 DEF Transfer
      <3> QED BY <2>1, <3>2 DEF InTransfer
    <2>3. CASE j.m2s = << >>
      <3>1. Transfer(u, j.m2s, i) BY <2>1, <2>3 DEF Transfer
      <3> QED BY <2>1, <3>1 DEF InTransfer
    <2> QED BY <1>5, <2>2, <2>3
  <1> QED BY <1>6, <1>7, <1>8, <1>9 DEF AtConn

\* The rest of syncCommand, when fork() works.
LEMMA ExactFullSync ==
    ASSUME ExactInv, TypeInv', MaxForkFails = 0, NEW c \in Conns, chan[c].mopen,
           chan[c].s2m # << >>, cl[c].state = "NONE", NEW line,
           line = (IF Head(chan[c].s2m)[1] = "PSYNC" THEN FullResyncLine ELSE << >>),
           NEW forked \in BOOLEAN, FullSync(c, line, forked)
    PROVE  Rest'
  <1> DEFINE v == View(c)
             u == ViewN(c)
             ch == chan[c]
             j == chan'[c]
             k == Attach(c)
             noff == IF CreateBacklog THEN moff + 1 ELSE moff
             fork == child.type = "NONE" /\ ~diskless
  <1>1. TypeInv /\ HistInv /\ ChanTypes /\ cl \in [Conns -> Client] /\ chan \in [Conns -> Channel]
    BY DEF ExactInv, TypeInv, ChanTypes, ClientTypes
  <1>2. forked BY <1>1, AlwaysForks DEF FullSync
  <1>3. /\ chan' = MSend([chan EXCEPT ![c].s2m = Tail(@)], c, line)
        /\ child' = IF fork THEN DiskChild(noff) ELSE child
        /\ cl' = [cl EXCEPT ![c] = k]
        /\ seldb' = -1 /\ bl' = [bl EXCEPT !.on = TRUE] /\ moff' = noff
        /\ hist' = IF CreateBacklog
                   THEN [hist EXCEPT ![runid] = Append(@, [db |-> -1, data |-> mdata])]
                   ELSE [hist EXCEPT ![runid][moff + 1].db = -1]
        /\ runid' = runid /\ mdata' = mdata
        /\ UNCHANGED <<rs, sc, master, cached, init, sdata, pos>>
    BY <1>2 DEF FullSync, svars
  <1>4. /\ Onward /\ HistInv' /\ moff <= moff' /\ (moff' # moff => slaves = << >>)
        /\ Len(hist'[runid]) = moff' + 1 /\ hist'[runid][moff' + 1] = Now'
    BY <1>3, AttachHist
  <1>5. /\ child.type # "NONE" => child' = child
        /\ child.type = "NONE" /\ diskless => child' = child
        /\ child.type = "NONE" /\ ~diskless =>
             /\ child'.type = "DISK" /\ child'.rdb = [data |-> mdata, snap |-> moff']
             /\ child'.ids = {} /\ child'.wrote = FALSE
    BY <1>3 DEF DiskChild, NoChild
  <1>6. line = << >> \/ line = << <<"full", runid, moff'>> >>
    <2>1. bl.on = ~CreateBacklog
      BY <1>1 DEF CreateBacklog, TypeInv, ClientTypes, MasterTypes
    <2> QED BY <1>3, <2>1 DEF FullResyncLine
  <1>7. Head(ch.s2m)[1] = "PSYNC" => line # << >> BY DEF FullResyncLine
  <1>8. line \in Seq(Msg)
    <2> DEFINE e == <<"full", runid, moff'>>
    <2>1. runid \in Nat /\ moff' \in Nat BY <1>1 DEF TypeInv, MasterTypes
    <2>2. e \in Msg BY <2>1, MakesMsg
    <2> HIDE DEF e
    <2>3. << >> \in Seq(Msg) /\ <<e>> \in Seq(Msg) BY <2>2
    <2> QED BY <1>6, <2>3 DEF e
  <1> HIDE DEF noff, fork
  <1>9. /\ chan' \in [Conns -> Channel] /\ \A d \in Conns : d # c => chan'[d] = chan[d]
        /\ j.mopen = ch.mopen /\ j.sopen = ch.sopen /\ j.net = ch.net /\ j.s2m = Tail(ch.s2m)
        /\ j.m2s = IF ch.net /\ ch.sopen THEN ch.m2s \o line ELSE ch.m2s
    BY <1>1, <1>3, <1>8, AnswerIs
  <1>10. \A d \in Conns : d # c => cl'[d] = cl[d] BY <1>1, <1>3
  <1>11. IsView(v) /\ IsView(u) /\ ClientOK(v, ch) BY ConnIs, ViewTypes
  <1>12. /\ v.net = ch.net /\ v.k = cl[c] /\ v.mine = (c \in child.ids)
         /\ u.run = runid' /\ u.off = moff' /\ u.now = Now' /\ u.now.db = seldb' /\ u.now.data = mdata'
         /\ u.net = j.net /\ u.hist = hist' /\ u.k = cl'[c] /\ u.child = child'
         /\ u.mine = (c \in child'.ids)
    BY ViewIs, ViewNIs
  <1>13. ch.mopen /\ ch.s2m # << >> /\ cl[c].state = "NONE" OBVIOUS
  <1>14. cl[c] = NewClient /\ ch.m2s = << >> /\ ~v.mine BY <1>11, <1>12, <1>13 DEF ClientOK
  <1>15. c \notin child.ids BY <1>12, <1>14
  <1>16. child.type = "NONE" => child'.ids = {}
    <2>1. ASSUME child.type = "NONE", diskless, child.ids # {} PROVE FALSE
      <3>1. PICK d \in child.ids : TRUE BY <2>1
      <3>2. d \in Conns BY <1>1, <3>1 DEF TypeInv, MasterTypes, ChildType
      <3>3. ClientOK(View(d), chan[d]) BY <3>2, ConnIs
      <3>4. View(d).mine /\ View(d).child = child BY <3>1, ViewIs
      <3> QED BY <2>1, <3>3, <3>4 DEF ClientOK
    <2> QED BY <1>5, <2>1
  <1>17. c \notin child'.ids BY <1>5, <1>15, <1>16
  <1>18. ASSUME NEW d \in Conns, d # c PROVE Unnoticed(d) /\ ClientOK(ViewN(d), chan'[d])
    BY <1>3, <1>4, <1>5, <1>9, <1>10, <1>16, <1>18, AttachOther
  <1>19. /\ ~k.wh
         /\ \/ /\ k.state = "END" /\ child.type = "DISK"
               /\ \E d \in Conns : d # c /\ cl[d].state = "END" /\ k.out = cl[d].out
            \/ k.state = "END" /\ k.out = << >> /\ child.type = "NONE" /\ ~diskless
            \/ k.state = "START" /\ k.out = << >>
    BY <1>1, <1>14, AttachedIs
  <1>20. cl'[c] = k BY <1>1, <1>3
  <1> HIDE DEF k, v, u, ch, j
  <1>21. u.k = k /\ ~u.mine /\ u.now.db = -1 /\ u.now.data = mdata /\ u.off \in Nat
         /\ u.hist[u.run][u.off + 1] = u.now /\ Len(u.hist[u.run]) = u.off + 1
    BY <1>3, <1>4, <1>11, <1>12, <1>17, <1>20 DEF IsView
  <1>22. k.state = "END" => u.child.type # "NONE" /\ RdbOK(u, u.child.rdb)
    <2>1. CASE k.state = "END" /\ child.type = "DISK"
               /\ \E d \in Conns : d # c /\ cl[d].state = "END" /\ k.out = cl[d].out
      <3>1. PICK d \in Conns : d # c /\ cl[d].state = "END" /\ k.out = cl[d].out BY <2>1
      <3> DEFINE w == ViewN(d)
      <3>2. ClientOK(w, chan'[d]) BY <1>18, <3>1
      <3>3. /\ w.run = runid' /\ w.off = moff' /\ w.now = Now' /\ w.hist = hist'
            /\ w.k = cl'[d] /\ w.child = child'
        BY ViewNIs
      <3>4. cl'[d] = cl[d] BY <1>10, <3>1
      <3> HIDE DEF w
      <3>5. RdbOK(w, child'.rdb) /\ child'.type # "NONE" BY <3>1, <3>2, <3>3, <3>4 DEF ClientOK
      <3>6. w.run = u.run /\ w.off = u.off /\ w.now = u.now /\ w.hist = u.hist /\ w.k.out = u.k.out
            /\ u.child = child'
        BY <1>12, <1>21, <3>1, <3>3, <3>4
      <3> QED BY <3>5, <3>6 DEF RdbOK
    <2>2. CASE k.state = "END" /\ k.out = << >> /\ child.type = "NONE" /\ ~diskless
      <3> DEFINE st == St(0, mdata)
                 h == u.hist[u.run]
                 rdb == u.child.rdb
      <3>1. u.child.type # "NONE" /\ rdb.data = mdata /\ rdb.snap = u.off BY <1>5, <1>12, <2>2
      <3>2. u.k.out = << >> /\ Len(<< >>) = 0 /\ u.off + 0 = u.off BY <1>21, <2>2
      <3>3. Executed(st, << >>) = st BY ExecutedEmpty
      <3>4. st.data = mdata BY DEF St
      <3> HIDE DEF st
      <3>5. Compat(st, u.now) BY <1>21, <3>4 DEF Compat
      <3>6. Follows(<< >>, h, u.off)
        <4>1. Len(h) \in Nat /\ u.off < Len(h) BY <1>21
        <4> QED BY <1>21, <4>1, FollowsNone
      <3>7. Compat(st, h[u.off + 1]) BY <1>21, <3>5
      <3>8. u.off \in 0..u.off /\ u.off + Len(<< >>) >= u.off BY <1>21
      <3> HIDE DEF h, rdb
      <3>9. RdbOK(u, rdb) BY <3>1, <3>2, <3>3, <3>5, <3>6, <3>7, <3>8 DEF RdbOK, h, st
      <3> QED BY <3>1, <3>9 DEF rdb
    <2> QED BY <1>19, <2>1, <2>2
  <1>23. k.state = "START" => Waiting(u)
    <2> SUFFICES ASSUME k.state = "START", NEW x \in Data
                 PROVE  Compat(Executed(St(0, x), u.k.out), [db |-> u.now.db, data |-> x])
      BY DEF Waiting
    <2>1. u.k.out = << >> BY <1>19, <1>21
    <2>2. Executed(St(0, x), << >>) = St(0, x) BY ExecutedEmpty
    <2> QED BY <1>21, <2>1, <2>2 DEF Compat, St
  <1>24. k.state \in {"START", "END"} BY <1>19
  <1>25. ClientOK(u, j) BY <1>9, <1>13, <1>19, <1>21, <1>22, <1>23, <1>24 DEF ClientOK
  <1>26. Awaits(u, NoInit) /\ Awaits(u, [run |-> u.run, off |-> u.off])
    BY <1>19, <1>21, <1>24 DEF Awaits, NoInit
  <1>27. ASSUME NEW s \in Slaves, sc[s] = c PROVE AtNext(s, c)
    <2>1. /\ AtConn(v, ch, rs[s], master[s], cached[s], init[s], sdata[s], pos[s])
          /\ master[s] \in Link /\ cached[s] \in Link /\ init[s] \in [run : Int, off : Int]
          /\ ch.sopen
      BY <1>27, AtConnIs DEF v, ch
    <2>2. << >> \o line = line BY <1>8
    <2>3. j.m2s = IF ch.net THEN line ELSE << >> BY <1>9, <1>14, <2>1, <2>2
    <2>4. line = << >> \/ line = << <<"full", u.run, u.off>> >> BY <1>3, <1>6, <1>12
    <2>5. /\ v.k.state = "NONE" /\ ~v.mine /\ u.k.state # "NONE" /\ u.net = v.net /\ v.net = ch.net
          /\ ch \in Channel /\ j \in Channel /\ j.s2m = Tail(ch.s2m)
      BY <1>1, <1>9, <1>12, <1>13, <1>14, <1>21, <1>24 DEF ch, j
    <2>6. AtConn(u, j, rs[s], master[s], cached[s], init[s], sdata[s], pos[s])
      BY <1>7, <1>11, <1>13, <1>14, <1>26, <2>1, <2>3, <2>4, <2>5, FullAt
    <2> QED BY <2>6 DEF AtNext, u, j
  <1>28. \A d \in Conns : ClientOK(ViewN(d), chan'[d]) BY <1>18, <1>25 DEF u, j
  <1> QED BY <1>3, <1>4, <1>18, <1>27, <1>28, MasterRest

\* SYNC and PSYNC.
LEMMA ExactSync ==
    ASSUME ExactInv, TypeInv', MaxForkFails = 0, NEW c \in Conns, syncCommand(c)
    PROVE  Rest'
  <1> DEFINE msg == Head(chan[c].s2m)
             line == IF msg[1] = "PSYNC" THEN FullResyncLine ELSE << >>
  <1>1. chan[c] \in Channel BY DEF ExactInv, TypeInv, ChanTypes
  <1>2. chan[c].s2m \in Seq(Request) /\ chan[c].mopen /\ chan[c].s2m # << >>
    BY <1>1 DEF Channel, syncCommand
  <1>3. msg \in Request BY <1>2
  <1>4. CASE cl[c].state # "NONE" BY <1>4, ExactSmall
  <1>5. CASE cl[c].state = "NONE" /\ msg[1] = "PSYNC" /\ CanContinue(msg[2], msg[3])
    <2> DEFINE off == msg[3]
    <2>1. AcceptPartial(c, off) BY <1>5 DEF syncCommand
    <2>2. off \in Int /\ msg = <<"PSYNC", msg[2], off>> BY <1>3, <1>5, RequestIs
    <2>3. msg[2] = runid BY <1>5 DEF CanContinue
    <2>4. msg = <<"PSYNC", runid, off>> /\ CanContinue(runid, off) BY <1>5, <2>2, <2>3
    <2> HIDE DEF off
    <2> QED BY <1>2, <1>5, <2>1, <2>2, <2>4, ExactPartial
  <1>6. CASE cl[c].state = "NONE" /\ ~(msg[1] = "PSYNC" /\ CanContinue(msg[2], msg[3]))
    <2>1. PICK forked \in BOOLEAN : FullSync(c, line, forked) BY <1>6 DEF syncCommand
    <2>2. line = (IF Head(chan[c].s2m)[1] = "PSYNC" THEN FullResyncLine ELSE << >>) OBVIOUS
    <2> HIDE DEF line
    <2> QED BY <1>2, <1>6, <2>1, <2>2, ExactFullSync
  <1> QED BY <1>4, <1>5, <1>6

(***************************************************************************)
(* The invariant holds.                                                    *)
(***************************************************************************)

\* At first nothing was fed.
LEMMA ExactInit == Init => ExactInv
  <1> SUFFICES ASSUME Init PROVE ExactInv OBVIOUS
  <1>1. TypeInv BY TypeInit
  <1> DEFINE h == << [db |-> -1, data |-> << >>] >>
  <1>2. runid = 0 /\ moff = 0 /\ hist[runid] = h /\ ~bl.on /\ bl.win = << >> BY DEF Init, NoBacklog
  <1>3. HistInv
    <2>1. Len(h) = 1 /\ Len(<< >>) = 0 OBVIOUS
    <2> HIDE DEF h
    <2>2. Follows(<< >>, h, 0)
      <3>1. 0 \in Nat /\ 0 < Len(h) /\ Len(h) \in Nat BY <2>1
      <3> QED BY <3>1, FollowsNone
    <2>3. Len(hist[runid]) = moff + 1 BY <1>2, <2>1
    <2>4. moff - Len(<< >>) = 0
      <3>1. 0 - 0 = 0 OBVIOUS
      <3> QED BY <1>2, <2>1, <3>1
    <2> QED BY <1>2, <2>2, <2>3, <2>4 DEF HistInv
  <1>4. ASSUME NEW c \in Conns PROVE ClientOK(View(c), chan[c])
    <2> DEFINE v == View(c)
    <2>1. v.k = cl[c] /\ v.mine = (c \in child.ids) BY ViewIs
    <2>2. cl[c] = NewClient /\ chan[c] = Closed /\ child.ids = {} BY DEF Init, NoChild
    <2>3. NewClient.state = "NONE" /\ NewClient.wh = FALSE /\ Closed.mopen = FALSE
      BY DEF NewClient, Closed
    <2> HIDE DEF v
    <2>4. ClientOK(v, chan[c]) BY <2>1, <2>2, <2>3 DEF ClientOK
    <2> QED BY <2>4 DEF v
  <1>5. ASSUME NEW s \in Slaves PROVE SlaveAt(s)
    <2>1. sc[s] = NoConn /\ cached[s].on = FALSE BY DEF Init, NoMaster
    <2> QED BY <2>1 DEF SlaveAt, CachedOK
  <1> QED BY <1>1, <1>3, <1>4, <1>5 DEF ExactInv, Clients

\* Every step keeps it, if no fork fails.
LEMMA ExactStep ==
    ASSUME MaxForkFails = 0
    PROVE  ExactInv /\ [Next]_vars => ExactInv'
  <1> SUFFICES ASSUME ExactInv, [Next]_vars PROVE ExactInv' OBVIOUS
  <1>1. TypeInv' BY TypeStep DEF ExactInv
  <1> SUFFICES Rest' BY <1>1 DEF ExactInv, Rest
  <1>2. CASE UNCHANGED vars
    <2>1. Still /\ UNCHANGED <<bl, child, rs, sc, master, cached, init, sdata, pos, chan, cl>>
      BY <1>2 DEF vars, mvars, svars, hvars, Still
    <2>2. Onward /\ HistInv' BY <2>1, StillHist
    <2>3. ASSUME NEW c \in Conns PROVE Unnoticed(c) /\ ClientOK(ViewN(c), chan'[c])
      BY <1>1, <2>1, SameSame, QuietConn
    <2> QED BY <1>1, <2>1, <2>2, <2>3, MasterRest
  <1>3. CASE MasterAlone
    BY <1>1, <1>3, ExactFeed, ExactSmall, ExactSocketWrites, ExactRestart, ExactCron, ExactChildDone
    DEF MasterAlone
  <1>4. ASSUME NEW c \in Conns, MasterStep(c) \/ MasterDropsSlave(c) \/ NetBreak(c)
        PROVE  Rest'
    BY <1>1, <1>4, ExactReply, ExactBulk, ExactFree, ExactSync, ExactSmall, ExactNetBreak
    DEF MasterStep
  <1>5. ASSUME NEW s \in Slaves, SlaveStep(s) PROVE Rest'
    BY <1>1, <1>5, ExactConnect, ExactPsync, ExactPsyncReply, ExactSlaveSends, ExactLoad, ExactStream,
       ExactLost, ExactLeave
    DEF SlaveStep
  <1> QED BY <1>2, <1>3, <1>4, <1>5 DEF Next

\* A connected slave is going to have the master's data.
LEMMA InvSyncExact == ExactInv => SyncExact
  <1> SUFFICES ASSUME ExactInv, NEW s \in Slaves, Linked(s), pos[s] # "tainted"
               PROVE  Delivered(s) = mdata
    BY DEF SyncExact
  <1> DEFINE c == sc[s]
             v == View(c)
             st == St(master[s].db, sdata[s])
  <1>1. TypeInv BY DEF ExactInv
  <1>2. rs[s] = "CONNECTED" /\ chan[c].net /\ c \in Range(slaves) BY DEF Linked
  <1>3. c \in Conns BY <1>1, <1>2 DEF TypeInv, ClientTypes, Range
  <1>4. cl[c].state # "NONE" BY <1>1, <1>2, <1>3 DEF TypeInv, ClientTypes
  <1>5. AtConn(v, chan[c], rs[s], master[s], cached[s], init[s], sdata[s], pos[s])
    BY <1>3, AtConnIs
  <1>6. v.net = chan[c].net /\ v.k = cl[c] /\ v.now.data = mdata BY ViewIs
  <1>7. Delivered(s) = Executed(st, chan[c].m2s \o cl[c].out).data BY DEF Delivered, St
  <1> HIDE DEF v, st, c
  <1>8. Caught(v, st, chan[c].m2s) BY <1>2, <1>5 DEF AtConn, InConnected, st
  <1>9. Live(v) BY <1>2, <1>4, <1>6 DEF Live
  <1>10. Compat(Executed(st, chan[c].m2s \o cl[c].out), v.now) BY <1>6, <1>8, <1>9 DEF Caught
  <1> QED BY <1>6, <1>7, <1>10 DEF Compat

\* The offset of a slave names its data.
LEMMA InvOffsetNames == ExactInv => OffsetNamesData
  <1> SUFFICES ASSUME ExactInv, NEW s \in Slaves, pos[s] = "exact",
                      NEW m \in {master[s], cached[s]}, m.on, m.run >= 0
               PROVE  /\ m.off < Len(hist[m.run])
                      /\ sdata[s] = hist[m.run][m.off + 1].data
                      /\ hist[m.run][m.off + 1].db \in {-1, m.db}
    BY DEF OffsetNamesData
  <1> DEFINE h == hist[m.run]
  <1>1. TypeInv /\ SlaveAt(s) BY DEF ExactInv
  <1>2. SlaveOK(rs[s], sc[s], master[s], cached[s], init[s], sdata[s], pos[s])
    BY <1>1, SlaveIs DEF TypeInv
  <1>3. hist \in [0..runid -> Seq(Point)] BY <1>1 DEF TypeInv, MasterTypes
  <1>4. \E q \in Seq(Msg) : /\ m.run \in 0..runid /\ Follows(q, h, m.off)
                            /\ Compat(St(m.db, sdata[s]), h[m.off + 1])
    <2>1. CASE m = cached[s]
      <3>1. CachedOK(hist, runid, m, sdata[s], pos[s]) BY <1>1, <2>1 DEF SlaveAt
      <3>2. << >> \in Seq(Msg) OBVIOUS
      <3> QED BY <3>1, <3>2 DEF CachedOK
    <2>2. CASE m = master[s]
      <3> DEFINE c == sc[s]
                 v == View(c)
      <3>1. rs[s] = "CONNECTED" /\ c \in Conns BY <1>2, <2>2 DEF SlaveOK
      <3>2. AtConn(v, chan[c], rs[s], m, cached[s], init[s], sdata[s], pos[s])
        BY <2>2, <3>1, AtConnIs
      <3>3. v.hist = hist /\ v.run = runid BY ViewIs
      <3>4. chan[c].m2s \in Seq(Msg) BY <1>1, <3>1 DEF TypeInv, ChanTypes, Channel
      <3> HIDE DEF v, c
      <3>5. Exact(v, St(m.db, sdata[s]), m.run, m.off, chan[c].m2s)
        BY <3>1, <3>2 DEF AtConn, InConnected
      <3> QED BY <3>3, <3>4, <3>5 DEF Exact
    <2> QED BY <2>1, <2>2
  <1>5. PICK q \in Seq(Msg) : /\ m.run \in 0..runid /\ Follows(q, h, m.off)
                              /\ Compat(St(m.db, sdata[s]), h[m.off + 1])
    BY <1>4
  <1>6. h \in Seq(Point) /\ Len(h) \in Nat /\ Len(q) \in Nat BY <1>3, <1>5
  <1>7. m.off \in Nat /\ m.off + Len(q) < Len(h) BY <1>5 DEF Follows
  <1> HIDE DEF h
  <1>8. m.off < Len(h) BY <1>6, <1>7
  <1>9. sdata[s] = h[m.off + 1].data /\ h[m.off + 1].db \in {-1, m.db} BY <1>5 DEF Compat, St
  <1> QED BY <1>8, <1>9 DEF h

\* In every behaviour without a failed fork the invariant holds.
LEMMA ExactAlways ==
    ASSUME MaxForkFails = 0
    PROVE  Spec => []ExactInv
  <1>1. Init => ExactInv BY ExactInit
  <1>2. ExactInv /\ [Next]_vars => ExactInv' BY ExactStep
  <1> QED BY <1>1, <1>2, PTL DEF Spec

\* A slave that is connected is going to have exactly the master's writes, as
\* long as no fork() of the master fails: the RDB of whichever child served it,
\* the buffer it collected or copied meanwhile and the stream join without a
\* gap or an overlap, for any number of slaves and connections, any size of the
\* backlog and any losses, timeouts, restarts and resumptions.
THEOREM SlavesExact ==
    ASSUME MaxForkFails = 0
    PROVE  Spec => []SyncExact
  <1>1. Spec => []ExactInv BY ExactAlways
  <1>2. ExactInv => SyncExact BY InvSyncExact
  <1> QED BY <1>1, <1>2, PTL

\* Under the same assumption, the offset a slave keeps, and asks to go on from,
\* names its data and its database in the history of the run it keeps: what
\* masterTryPartialResynchronization relies on when it only compares offsets.
THEOREM OffsetsNameData ==
    ASSUME MaxForkFails = 0
    PROVE  Spec => []OffsetNamesData
  <1>1. Spec => []ExactInv BY ExactAlways
  <1>2. ExactInv => OffsetNamesData BY InvOffsetNames
  <1> QED BY <1>1, <1>2, PTL
================================================================================
