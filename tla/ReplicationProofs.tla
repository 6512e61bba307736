--------------------------- MODULE ReplicationProofs ---------------------------
(***************************************************************************)
(* Proofs about Replication, for every set of slaves, connections and      *)
(* databases, every backlog size and every bound: the types of the         *)
(* variables and the assertions the code makes.  ReplicationExactProofs    *)
(* goes on from here.                                                      *)
(***************************************************************************)
EXTENDS Replication, SequenceTheorems, WellFoundedInduction, TLAPS

Data == Seq(Nat \X Dbs)
Rdb == [data : Data, snap : Int]
State == [db : Dbs, data : Data]
Point == [db : Dbs \cup {-1}, data : Data]
Elem == {Sel(d) : d \in Dbs} \cup {Cmd(n) : n \in Nat} \cup {Ping}
Reply == Elem \cup { <<"err">> }
Msg == Reply \cup { <<"cont">> }
             \cup {<<t, r>> : t \in {"bulk", "eof"}, r \in Rdb}
             \cup {<<"full", r, o>> : r \in Nat, o \in Nat}
Request == { <<"SYNC">>, <<"ACK">> } \cup {<<"PSYNC", r, o>> : r \in Int, o \in Int}
Client == [state : {"NONE", "START", "END", "BULK", "ONLINE"}, out : Seq(Reply),
           wh : BOOLEAN, onack : BOOLEAN, rdb : Rdb]
Channel == [s : Slaves \cup {NoConn}, mopen : BOOLEAN, sopen : BOOLEAN, net : BOOLEAN,
            m2s : Seq(Msg), s2m : Seq(Request)]
Link == [on : BOOLEAN, off : Int, run : Int, db : Dbs]

\* f is the reader's state after each element of s.
Trace(f, st, s) ==
    f = [i \in 0..Len(s) |-> IF i = 0 THEN st ELSE Exec(f[i - 1], s[i])]

\* The same, whatever g is elsewhere.
Steps(g, st, s) == g[0] = st /\ \A i \in 1..Len(s) : g[i] = Exec(g[i - 1], s[i])

(***************************************************************************)
(* Induction, stated for sets of natural numbers.                          *)
(***************************************************************************)

\* A set of naturals with 0 and every successor is all of Nat.
LEMMA SetInduction ==
    ASSUME NEW T, T \subseteq Nat, 0 \in T, \A n \in T : n + 1 \in T
    PROVE  T = Nat
  <1> DEFINE U == Nat \ T
             R == OpToRel(<, Nat)
  <1> SUFFICES ASSUME U # {} PROVE FALSE OBVIOUS
  <1>1. \E i \in U : \A j \in U : ~(<<j, i>> \in R)
    <2>1. U \subseteq Nat OBVIOUS
    <2> HIDE DEF U, R
    <2>2. IsWellFoundedOn(R, Nat) BY NatLessThanWellFounded DEF R
    <2> QED BY <2>1, <2>2, WFMin
  <1>2. PICK i \in U : \A j \in U : ~(<<j, i>> \in R) BY <1>1
  <1>3. i \in Nat /\ i # 0 /\ i - 1 \in Nat OBVIOUS
  <1>4. i - 1 \notin U
    <2>1. <<i - 1, i>> \in R BY <1>3 DEF OpToRel
    <2> QED BY <1>2, <2>1
  <1>5. i - 1 \in T BY <1>3, <1>4
  <1>6. (i - 1) + 1 \in T BY <1>5
  <1>7. (i - 1) + 1 = i BY <1>3
  <1> QED BY <1>6, <1>7

(***************************************************************************)
(* Executing stream elements.                                              *)
(***************************************************************************)
\* The execution of stream elements has a trace.
LEMMA TraceExists ==
    ASSUME NEW st, NEW s, Len(s) \in Nat
    PROVE  \E f : Trace(f, st, s)
  <1> DEFINE F(f, m) == f = [i \in 0..m |-> IF i = 0 THEN st ELSE Exec(f[i - 1], s[i])]
             T == {m \in Nat : \E f : F(f, m)}
  <1>1. 0 \in T
    <2> DEFINE g == [i \in 0..0 |-> st]
    <2>1. g = [i \in 0..0 |-> IF i = 0 THEN st ELSE Exec(g[i - 1], s[i])] OBVIOUS
    <2> QED BY <2>1
  <1>2. ASSUME NEW n \in T PROVE n + 1 \in T
    <2>1. PICK g : F(g, n) OBVIOUS
    <2> DEFINE f == [i \in 0..(n + 1) |-> IF i = n + 1 THEN Exec(g[n], s[n + 1]) ELSE g[i]]
               h == [i \in 0..(n + 1) |-> IF i = 0 THEN st ELSE Exec(f[i - 1], s[i])]
    <2>2. n \in Nat OBVIOUS
    <2>3. ASSUME NEW i \in 0..(n + 1) PROVE f[i] = h[i]
      <3>1. CASE i = n + 1
        <4>1. f[i - 1] = g[n] /\ i # 0 /\ i - 1 = n BY <2>2, <3>1
        <4>2. f[i] = Exec(g[n], s[n + 1]) BY <2>2, <3>1
        <4>3. h[i] = Exec(f[i - 1], s[i]) BY <4>1
        <4> QED BY <4>1, <4>2, <4>3, <3>1
      <3>2. CASE i # n + 1
        <4>1. i \in 0..n BY <2>2, <3>2
        <4>2. g[i] = IF i = 0 THEN st ELSE Exec(g[i - 1], s[i]) BY <2>1, <4>1, Zenon
        <4>3. f[i] = g[i] BY <2>2, <3>2
        <4>4. CASE i = 0 BY <4>2, <4>3, <4>4
        <4>5. CASE i # 0
          <5>1. i - 1 \in 0..(n + 1) /\ i - 1 # n + 1 BY <2>2, <4>1, <4>5
          <5>2. f[i - 1] = g[i - 1] BY <5>1
          <5>3. h[i] = Exec(f[i - 1], s[i]) BY <4>5
          <5> QED BY <4>2, <4>3, <4>5, <5>2, <5>3
        <4> QED BY <4>4, <4>5
      <3> QED BY <3>1, <3>2
    <2>4. f = h BY <2>3
    <2>5. F(f, n + 1) BY <2>4
    <2> QED BY <2>2, <2>5
  <1>3. T = Nat
    <2>1. T \subseteq Nat OBVIOUS
    <2> HIDE DEF T
    <2> QED BY <1>1, <1>2, <2>1, SetInduction
  <1>4. Len(s) \in T BY <1>3
  <1>5. PICK f : F(f, Len(s)) BY <1>4
  <1> QED BY <1>5 DEF Trace

\* Executed is the end of its own trace.
LEMMA ExecutedTrace ==
    ASSUME NEW st, NEW s, Len(s) \in Nat
    PROVE  \E f : Trace(f, st, s) /\ Executed(st, s) = f[Len(s)]
  <1> DEFINE g == CHOOSE f : f = [i \in 0..Len(s) |-> IF i = 0 THEN st ELSE Exec(f[i - 1], s[i])]
  <1>1. \E f : f = [i \in 0..Len(s) |-> IF i = 0 THEN st ELSE Exec(f[i - 1], s[i])]
    <2>1. \E f : Trace(f, st, s) BY TraceExists
    <2> QED BY <2>1, Zenon DEF Trace
  <1>2. g = [i \in 0..Len(s) |-> IF i = 0 THEN st ELSE Exec(g[i - 1], s[i])]
    BY <1>1, Zenon
  <1>3. Executed(st, s) = g[Len(s)] BY DEF Executed
  <1> HIDE DEF g
  <1> QED BY <1>2, <1>3 DEF Trace

\* There is one trace.
LEMMA TraceUnique ==
    ASSUME NEW st, NEW s, Len(s) \in Nat, NEW f, NEW g, Steps(f, st, s), Steps(g, st, s)
    PROVE  f[Len(s)] = g[Len(s)]
  <1> DEFINE T == {m \in Nat : m <= Len(s) => f[m] = g[m]}
  <1>1. 0 \in T BY DEF Steps
  <1>2. ASSUME NEW n \in T PROVE n + 1 \in T
    <2> SUFFICES ASSUME n + 1 <= Len(s) PROVE f[n + 1] = g[n + 1] OBVIOUS
    <2>1. f[n] = g[n] /\ n \in Nat OBVIOUS
    <2>2. n + 1 \in 1..Len(s) /\ (n + 1) - 1 = n /\ n + 1 # 0 BY <2>1
    <2>3. g[n + 1] = Exec(g[(n + 1) - 1], s[n + 1]) BY <2>2 DEF Steps
    <2>4. f[n + 1] = Exec(f[(n + 1) - 1], s[n + 1]) BY <2>2 DEF Steps
    <2> QED BY <2>1, <2>2, <2>3, <2>4
  <1>3. T = Nat
    <2>1. T \subseteq Nat OBVIOUS
    <2> HIDE DEF T
    <2> QED BY <1>1, <1>2, <2>1, SetInduction
  <1> QED BY <1>3

\* An execution has steps.
LEMMA ExecutedSteps ==
    ASSUME NEW st, NEW s, Len(s) \in Nat
    PROVE  \E f : Steps(f, st, s) /\ Executed(st, s) = f[Len(s)]
  <1>1. PICK f : Trace(f, st, s) /\ Executed(st, s) = f[Len(s)] BY ExecutedTrace
  <1>2. \A i \in 0..Len(s) : f[i] = IF i = 0 THEN st ELSE Exec(f[i - 1], s[i]) BY <1>1 DEF Trace
  <1>3. Steps(f, st, s)
    <2>1. f[0] = st BY <1>2
    <2>2. ASSUME NEW i \in 1..Len(s) PROVE f[i] = Exec(f[i - 1], s[i])
      <3>1. i \in 0..Len(s) /\ i # 0 OBVIOUS
      <3> QED BY <1>2, <3>1
    <2> QED BY <2>1, <2>2 DEF Steps
  <1> QED BY <1>1, <1>3

\* The result of an execution, from any description of its steps.
LEMMA ExecutedIs ==
    ASSUME NEW st, NEW s, Len(s) \in Nat, NEW g, Steps(g, st, s)
    PROVE  Executed(st, s) = g[Len(s)]
  <1>1. PICK f : Steps(f, st, s) /\ Executed(st, s) = f[Len(s)] BY ExecutedSteps
  <1> QED BY <1>1, TraceUnique

\* Nothing executed, nothing changed.
LEMMA ExecutedEmpty == ASSUME NEW st PROVE Executed(st, << >>) = st
  <1> DEFINE g == [i \in {0} |-> st]
  <1>1. Len(<< >>) = 0 OBVIOUS
  <1>2. Steps(g, st, << >>) BY <1>1 DEF Steps
  <1>3. g[0] = st OBVIOUS
  <1> HIDE DEF g
  <1> QED BY <1>1, <1>2, <1>3, ExecutedIs

\* One element.
LEMMA ExecutedOne == ASSUME NEW st, NEW e PROVE Executed(st, <<e>>) = Exec(st, e)
  <1> DEFINE g == [i \in 0..1 |-> IF i = 0 THEN st ELSE Exec(st, e)]
  <1>1. Len(<<e>>) = 1 /\ <<e>>[1] = e OBVIOUS
  <1>2. g[0] = st /\ g[1] = Exec(st, e) OBVIOUS
  <1> HIDE DEF g
  <1>3. Steps(g, st, <<e>>) BY <1>1, <1>2 DEF Steps
  <1> QED BY <1>1, <1>2, <1>3, ExecutedIs

\* Elements in two parts.
LEMMA ExecutedConcat ==
    ASSUME NEW S, NEW s \in Seq(S), NEW t \in Seq(S), NEW st
    PROVE  Executed(st, s \o t) = Executed(Executed(st, s), t)
  <1>1. Len(s) \in Nat /\ Len(t) \in Nat /\ Len(s \o t) = Len(s) + Len(t) OBVIOUS
  <1>2. PICK f : Steps(f, st, s) /\ Executed(st, s) = f[Len(s)] BY <1>1, ExecutedSteps
  <1>3. PICK h : Steps(h, Executed(st, s), t) /\ Executed(Executed(st, s), t) = h[Len(t)] BY <1>1, ExecutedSteps
  <1> DEFINE g == [i \in 0..Len(s \o t) |-> IF i <= Len(s) THEN f[i] ELSE h[i - Len(s)]]
  <1>4. Steps(g, st, s \o t)
    <2>1. g[0] = st BY <1>1, <1>2 DEF Steps
    <2>2. ASSUME NEW i \in 1..Len(s \o t) PROVE g[i] = Exec(g[i - 1], (s \o t)[i])
      <3>1. CASE i <= Len(s)
        <4>1. g[i] = f[i] /\ g[i - 1] = f[i - 1] /\ (s \o t)[i] = s[i] /\ i \in 1..Len(s)
          BY <1>1, <3>1
        <4> QED BY <1>2, <4>1 DEF Steps
      <3>2. CASE i > Len(s)
        <4> DEFINE j == i - Len(s)
        <4>1. j \in 1..Len(t) /\ (s \o t)[i] = t[j] /\ g[i] = h[j] BY <1>1, <3>2
        <4>2. g[i - 1] = h[j - 1]
          <5>1. CASE j = 1
            <6>1. g[i - 1] = f[Len(s)] BY <1>1, <5>1
            <6>2. h[0] = f[Len(s)] BY <1>2, <1>3 DEF Steps
            <6> QED BY <5>1, <6>1, <6>2
          <5>2. CASE j # 1
            <6>1. i - 1 > Len(s) /\ i - 1 \in 0..Len(s \o t) /\ (i - 1) - Len(s) = j - 1
              BY <1>1, <4>1, <5>2
            <6> QED BY <1>1, <6>1
          <5> QED BY <5>1, <5>2
        <4>3. h[j] = Exec(h[j - 1], t[j]) BY <1>3, <4>1 DEF Steps
        <4> QED BY <4>1, <4>2, <4>3
      <3> QED BY <1>1, <3>1, <3>2
    <2> QED BY <2>1, <2>2 DEF Steps
  <1>5. g[Len(s \o t)] = h[Len(t)]
    <2>1. CASE Len(t) = 0
      <3>1. g[Len(s \o t)] = f[Len(s)] BY <1>1, <2>1
      <3>2. h[0] = f[Len(s)] BY <1>2, <1>3 DEF Steps
      <3> QED BY <2>1, <3>1, <3>2
    <2>2. CASE Len(t) # 0 BY <1>1, <2>2
    <2> QED BY <2>1, <2>2
  <1>6. Executed(st, s \o t) = g[Len(s \o t)]
    <2> DEFINE u == s \o t
    <2>1. Len(u) \in Nat BY <1>1
    <2> HIDE DEF u, g
    <2>2. Steps(g, st, u) => Executed(st, u) = g[Len(u)] BY <2>1, ExecutedIs
    <2> QED BY <1>4, <2>2 DEF u
  <1> QED BY <1>3, <1>5, <1>6

(***************************************************************************)
(* The types of messages and of what is executed.                          *)
(***************************************************************************)

\* What a message carries, by its kind.
LEMMA MsgIs ==
    ASSUME NEW e \in Msg
    PROVE  /\ e[1] = "sel" => e[2] \in Dbs
           /\ e[1] = "cmd" => e[2] \in Nat
           /\ e[1] = "full" => e[2] \in Nat /\ e[3] \in Nat
           /\ e[1] \in {"bulk", "eof"} => e[2] \in Rdb
  <1>1. CASE e \in Elem BY <1>1 DEF Elem, Sel, Cmd, Ping
  <1>2. CASE e \in { <<"err">>, <<"cont">> } BY <1>2
  <1>3. CASE \E t \in {"bulk", "eof"}, r \in Rdb : e = <<t, r>> BY <1>3
  <1>4. CASE \E r \in Nat, o \in Nat : e = <<"full", r, o>> BY <1>4
  <1> QED BY <1>1, <1>2, <1>3, <1>4 DEF Msg, Reply

\* The messages the handlers make.
LEMMA MakesMsg ==
    /\ \A d \in Dbs : Sel(d) \in Elem
    /\ \A n \in Nat : Cmd(n) \in Elem
    /\ Ping \in Elem
    /\ <<"err">> \in Reply /\ <<"cont">> \in Msg
    /\ \A r \in Rdb : <<"bulk", r>> \in Msg /\ <<"eof", r>> \in Msg
    /\ \A r, o \in Nat : <<"full", r, o>> \in Msg
    /\ Elem \subseteq Reply /\ Reply \subseteq Msg
  BY DEF Elem, Reply, Msg

\* The requests a slave makes.
LEMMA MakesRequest ==
    /\ <<"SYNC">> \in Request /\ <<"ACK">> \in Request
    /\ \A r, o \in Int : <<"PSYNC", r, o>> \in Request
  BY DEF Request

\* A state of the reader stays one.
LEMMA ExecType ==
    ASSUME NEW st \in State, NEW e \in Msg
    PROVE  Exec(st, e) \in State
  <1>1. st.db \in Dbs /\ st.data \in Data /\ st = [db |-> st.db, data |-> st.data] BY DEF State
  <1>2. CASE e[1] = "sel"
    <2>1. Exec(st, e) = [st EXCEPT !.db = e[2]] BY <1>2 DEF Exec
    <2> QED BY <1>1, <1>2, <2>1, MsgIs DEF State
  <1>3. CASE e[1] = "cmd"
    <2>1. Exec(st, e) = [st EXCEPT !.data = Append(@, <<e[2], st.db>>)] BY <1>3 DEF Exec
    <2>2. <<e[2], st.db>> \in Nat \X Dbs BY <1>1, <1>3, MsgIs
    <2>3. Append(st.data, <<e[2], st.db>>) \in Data BY <1>1, <2>2 DEF Data
    <2> QED BY <1>1, <2>1, <2>3 DEF State
  <1>4. CASE e[1] \notin {"sel", "cmd"}
    <2>1. Exec(st, e) = st BY <1>4 DEF Exec
    <2> QED BY <2>1
  <1> QED BY <1>2, <1>3, <1>4

\* Also after a whole queue.
LEMMA ExecutedType ==
    ASSUME NEW st \in State, NEW s \in Seq(Msg)
    PROVE  Executed(st, s) \in State
  <1>1. Len(s) \in Nat OBVIOUS
  <1>2. PICK f : Steps(f, st, s) /\ Executed(st, s) = f[Len(s)] BY <1>1, ExecutedSteps
  <1> DEFINE T == {m \in Nat : m <= Len(s) => f[m] \in State}
  <1>3. 0 \in T BY <1>2 DEF Steps
  <1>4. ASSUME NEW n \in T PROVE n + 1 \in T
    <2> SUFFICES ASSUME n + 1 <= Len(s) PROVE f[n + 1] \in State OBVIOUS
    <2>1. f[n] \in State /\ n \in Nat BY <1>1
    <2>2. n + 1 \in 1..Len(s) /\ (n + 1) - 1 = n BY <1>1, <2>1
    <2>3. f[n + 1] = Exec(f[n], s[n + 1]) BY <1>2, <2>2 DEF Steps
    <2>4. s[n + 1] \in Msg BY <2>2
    <2> QED BY <2>1, <2>3, <2>4, ExecType
  <1>5. T = Nat
    <2>1. T \subseteq Nat OBVIOUS
    <2> HIDE DEF T
    <2> QED BY <1>3, <1>4, <2>1, SetInduction
  <1>6. Len(s) \in T BY <1>1, <1>5
  <1> QED BY <1>1, <1>2, <1>6

\* The first element, and the rest.
LEMMA ExecutedHead ==
    ASSUME NEW S, NEW s \in Seq(S), s # << >>, NEW st
    PROVE  Executed(st, s) = Executed(Exec(st, Head(s)), Tail(s))
  <1>1. <<Head(s)>> \in Seq(S) /\ Tail(s) \in Seq(S) OBVIOUS
  <1>2. s = <<Head(s)>> \o Tail(s) OBVIOUS
  <1>3. Executed(st, <<Head(s)>> \o Tail(s)) = Executed(Executed(st, <<Head(s)>>), Tail(s))
    BY <1>1, ExecutedConcat
  <1>4. Executed(st, <<Head(s)>>) = Exec(st, Head(s)) BY ExecutedOne
  <1> QED BY <1>2, <1>3, <1>4

(***************************************************************************)
(* Lists of clients.                                                       *)
(***************************************************************************)

\* What is kept of a list, after each of its elements.
KeptTrace(f, q, cs) ==
    f = [i \in 0..Len(q) |->
            IF i = 0 THEN << >>
            ELSE IF q[i] \in cs THEN f[i - 1] ELSE Append(f[i - 1], q[i])]

\* There is such a function.
LEMMA KeptExists ==
    ASSUME NEW q, NEW cs, Len(q) \in Nat
    PROVE  \E f : KeptTrace(f, q, cs)
  <1> DEFINE K(x, i) == IF q[i] \in cs THEN x ELSE Append(x, q[i])
             F(f, m) == f = [i \in 0..m |-> IF i = 0 THEN << >> ELSE K(f[i - 1], i)]
             T == {m \in Nat : \E f : F(f, m)}
  <1>0. \A f : F(f, Len(q)) => KeptTrace(f, q, cs) BY DEF KeptTrace
  <1> HIDE DEF K
  <1>1. 0 \in T
    <2> DEFINE g == [i \in 0..0 |-> << >>]
    <2>1. g = [i \in 0..0 |-> IF i = 0 THEN << >> ELSE K(g[i - 1], i)] OBVIOUS
    <2> QED BY <2>1
  <1>2. ASSUME NEW n \in T PROVE n + 1 \in T
    <2>1. PICK g : F(g, n) OBVIOUS
    <2> DEFINE f == [i \in 0..(n + 1) |-> IF i = n + 1 THEN K(g[n], n + 1) ELSE g[i]]
               h == [i \in 0..(n + 1) |-> IF i = 0 THEN << >> ELSE K(f[i - 1], i)]
    <2>2. n \in Nat OBVIOUS
    <2>3. ASSUME NEW i \in 0..(n + 1) PROVE f[i] = h[i]
      <3>1. CASE i = n + 1
        <4>1. f[i - 1] = g[n] /\ i # 0 BY <2>2, <3>1
        <4>2. f[i] = K(g[n], n + 1) BY <2>2, <3>1
        <4>3. h[i] = K(f[i - 1], i) BY <4>1
        <4> QED BY <4>1, <4>2, <4>3, <3>1
      <3>2. CASE i # n + 1
        <4>1. i \in 0..n BY <2>2, <3>2
        <4>2. g[i] = IF i = 0 THEN << >> ELSE K(g[i - 1], i) BY <2>1, <4>1, Zenon
        <4>3. f[i] = g[i] BY <2>2, <3>2
        <4>4. CASE i = 0 BY <4>2, <4>3, <4>4
        <4>5. CASE i # 0
          <5>1. i - 1 \in 0..(n + 1) /\ i - 1 # n + 1 BY <2>2, <4>1, <4>5
          <5>2. f[i - 1] = g[i - 1] BY <5>1
          <5>3. h[i] = K(f[i - 1], i) BY <4>5
          <5> QED BY <4>2, <4>3, <4>5, <5>2, <5>3
        <4> QED BY <4>4, <4>5
      <3> QED BY <3>1, <3>2
    <2>4. f = h BY <2>3
    <2>5. F(f, n + 1) BY <2>4
    <2> HIDE DEF f, h, F
    <2> QED BY <2>2, <2>5
  <1>3. T = Nat
    <2>1. T \subseteq Nat OBVIOUS
    <2> HIDE DEF T
    <2> QED BY <1>1, <1>2, <2>1, SetInduction
  <1>4. Len(q) \in T BY <1>3
  <1>5. PICK f : F(f, Len(q)) BY <1>4
  <1> QED BY <1>0, <1>5

\* freeClient takes the clients out of the list, and leaves it a list without
\* repetitions.
LEMMA WithoutIs ==
    ASSUME NEW S, NEW q \in Seq(S), NEW cs, IsInjective(q)
    PROVE  /\ Without(q, cs) \in Seq(S)
           /\ IsInjective(Without(q, cs))
           /\ Range(Without(q, cs)) = Range(q) \ cs
  <1>1. Len(q) \in Nat /\ DOMAIN q = 1..Len(q) OBVIOUS
  <1> DEFINE g == CHOOSE f : f = [i \in 0..Len(q) |->
                    IF i = 0 THEN << >>
                    ELSE IF q[i] \in cs THEN f[i - 1] ELSE Append(f[i - 1], q[i])]
  <1>2. g = [i \in 0..Len(q) |->
                IF i = 0 THEN << >>
                ELSE IF q[i] \in cs THEN g[i - 1] ELSE Append(g[i - 1], q[i])]
    <2>1. \E f : KeptTrace(f, q, cs) BY <1>1, KeptExists
    <2>2. \E f : f = [i \in 0..Len(q) |->
                    IF i = 0 THEN << >>
                    ELSE IF q[i] \in cs THEN f[i - 1] ELSE Append(f[i - 1], q[i])]
      BY <2>1, Zenon DEF KeptTrace
    <2> QED BY <2>2, Zenon
  <1>3. Without(q, cs) = g[Len(q)] BY DEF Without
  <1> HIDE DEF g
  <1>4. g[0] = << >> BY <1>1, <1>2
  <1>5. ASSUME NEW i \in 1..Len(q)
        PROVE  g[i] = IF q[i] \in cs THEN g[i - 1] ELSE Append(g[i - 1], q[i])
    <2>1. i \in 0..Len(q) /\ i # 0 OBVIOUS
    <2> QED BY <1>2, <2>1
  <1> DEFINE Good(x, n) == /\ x \in Seq(S)
                           /\ \A a, b \in 1..Len(x) : x[a] = x[b] => a = b
                           /\ \A a \in 1..Len(x) : \E j \in 1..n : x[a] = q[j] /\ q[j] \notin cs
                           /\ \A j \in 1..n : q[j] \notin cs => \E a \in 1..Len(x) : x[a] = q[j]
             T == {n \in Nat : n <= Len(q) => Good(g[n], n)}
  <1>6. 0 \in T
    <2>1. Good(<< >>, 0) OBVIOUS
    <2> HIDE DEF Good
    <2> QED BY <1>4, <2>1
  <1>7. ASSUME NEW n \in T PROVE n + 1 \in T
    <2> SUFFICES ASSUME n + 1 <= Len(q) PROVE Good(g[n + 1], n + 1) OBVIOUS
    <2>1. n \in Nat /\ Good(g[n], n) BY <1>1
    <2>2. n + 1 \in 1..Len(q) /\ (n + 1) - 1 = n BY <1>1, <2>1
    <2> DEFINE x == g[n]
               e == q[n + 1]
    <2>3. g[n + 1] = IF e \in cs THEN x ELSE Append(x, e) BY <1>5, <2>2
    <2>4. Good(x, n) /\ e \in S BY <2>1, <2>2
    <2>5. \A j \in 1..n : j \in 1..Len(q) /\ q[j] # e BY <1>1, <2>1, <2>2 DEF IsInjective
    <2>6. 1..(n + 1) = (1..n) \cup {n + 1} BY <2>1
    <2> HIDE DEF x
    <2>7. CASE e \in cs
      <3>1. g[n + 1] = x BY <2>3, <2>7
      <3>2. Good(x, n + 1) BY <2>4, <2>6, <2>7
      <3> QED BY <3>1, <3>2
    <2>8. CASE e \notin cs
      <3> DEFINE y == Append(x, e)
      <3>1. g[n + 1] = y BY <2>3, <2>8
      <3>2. y \in Seq(S) /\ Len(y) = Len(x) + 1 /\ Len(x) \in Nat /\ y[Len(x) + 1] = e
        BY <2>4
      <3>3. \A a \in 1..Len(x) : y[a] = x[a] BY <2>4
      <3> HIDE DEF y
      <3>4. \A a \in 1..Len(x) : x[a] # e BY <2>4, <2>5
      <3>5. 1..Len(y) = (1..Len(x)) \cup {Len(x) + 1} BY <3>2
      <3>6. \A a, b \in 1..Len(y) : y[a] = y[b] => a = b
        <4> SUFFICES ASSUME NEW a \in 1..Len(y), NEW b \in 1..Len(y), y[a] = y[b] PROVE a = b
          OBVIOUS
        <4>1. CASE a \in 1..Len(x) /\ b \in 1..Len(x) BY <2>4, <3>3, <4>1
        <4>2. CASE a = Len(x) + 1 /\ b \in 1..Len(x) BY <3>2, <3>3, <3>4, <4>2
        <4>3. CASE b = Len(x) + 1 /\ a \in 1..Len(x) BY <3>2, <3>3, <3>4, <4>3
        <4>4. CASE a = Len(x) + 1 /\ b = Len(x) + 1 BY <4>4
        <4> QED BY <3>5, <4>1, <4>2, <4>3, <4>4
      <3>7. \A a \in 1..Len(y) : \E j \in 1..(n + 1) : y[a] = q[j] /\ q[j] \notin cs
        <4> SUFFICES ASSUME NEW a \in 1..Len(y)
                     PROVE  \E j \in 1..(n + 1) : y[a] = q[j] /\ q[j] \notin cs
          OBVIOUS
        <4>1. CASE a \in 1..Len(x)
          <5>1. PICK j \in 1..n : x[a] = q[j] /\ q[j] \notin cs BY <2>4, <4>1
          <5>2. y[a] = q[j] /\ j \in 1..(n + 1) BY <2>6, <3>3, <4>1, <5>1
          <5> QED BY <5>1, <5>2
        <4>2. CASE a = Len(x) + 1
          <5>1. n + 1 \in 1..(n + 1) BY <2>6
          <5>2. y[a] = q[n + 1] BY <3>2, <4>2
          <5> QED BY <2>8, <5>1, <5>2
        <4> QED BY <3>5, <4>1, <4>2
      <3>8. \A j \in 1..(n + 1) : q[j] \notin cs => \E a \in 1..Len(y) : y[a] = q[j]
        BY <2>4, <2>6, <3>2, <3>3, <3>5
      <3> QED BY <3>1, <3>2, <3>6, <3>7, <3>8
    <2> QED BY <2>7, <2>8
  <1>8. T = Nat
    <2>1. T \subseteq Nat OBVIOUS
    <2> HIDE DEF T
    <2> QED BY <1>6, <1>7, <2>1, SetInduction
  <1>9. Good(g[Len(q)], Len(q))
    <2>1. Len(q) \in T BY <1>1, <1>8
    <2> HIDE DEF Good
    <2> QED BY <1>1, <2>1
  <1> DEFINE w == Without(q, cs)
  <1>10. Good(w, Len(q)) BY <1>3, <1>9
  <1> HIDE DEF w
  <1>11. DOMAIN w = 1..Len(w) BY <1>10
  <1>12. Range(w) = Range(q) \ cs
    <2>1. ASSUME NEW x \in Range(w) PROVE x \in Range(q) \ cs
      <3>1. PICK a \in 1..Len(w) : x = w[a] BY <1>11 DEF Range
      <3>2. PICK j \in 1..Len(q) : w[a] = q[j] /\ q[j] \notin cs BY <1>10
      <3> QED BY <1>1, <3>1, <3>2 DEF Range
    <2>2. ASSUME NEW x \in Range(q) \ cs PROVE x \in Range(w)
      <3>1. PICK j \in 1..Len(q) : x = q[j] BY <1>1 DEF Range
      <3>2. PICK a \in 1..Len(w) : w[a] = q[j] BY <1>10, <3>1
      <3> QED BY <1>11, <3>1, <3>2 DEF Range
    <2> QED BY <2>1, <2>2
  <1>13. IsInjective(w) BY <1>10, <1>11 DEF IsInjective
  <1> QED BY <1>10, <1>12, <1>13 DEF w

\* The first of some places of a list is one of them.
LEMMA MinIn ==
    ASSUME NEW X, X \subseteq Nat, X # {}
    PROVE  Min(X) \in X
  <1> DEFINE R == OpToRel(<, Nat)
  <1>1. \E i \in X : \A j \in X : ~(<<j, i>> \in R)
    <2> HIDE DEF R
    <2>1. IsWellFoundedOn(R, Nat) BY NatLessThanWellFounded DEF R
    <2> QED BY <2>1, WFMin
  <1>2. PICK i \in X : \A j \in X : ~(<<j, i>> \in R) BY <1>1
  <1>3. \A j \in X : i <= j
    <2> TAKE j \in X
    <2>1. i \in Nat /\ j \in Nat OBVIOUS
    <2>2. j < i => <<j, i>> \in R BY <2>1 DEF OpToRel
    <2> HIDE DEF R
    <2>3. ~(j < i) BY <1>2, <2>2
    <2> QED BY <2>1, <2>3
  <1> QED BY <1>3 DEF Min

(***************************************************************************)
(* Types, and the protocol they rest on.                                   *)
(***************************************************************************)
ChildType == [type : {"NONE", "DISK", "SOCKET"}, rdb : Rdb, ids : SUBSET Conns, wrote : BOOLEAN]
Used == [feed : Nat, event : Nat, fork : Nat]

MasterTypes ==
    /\ used \in Used /\ used.event <= MaxEvents
    /\ diskless \in BOOLEAN
    /\ runid \in Nat /\ runid <= used.event
    /\ mdata \in Data /\ seldb \in Dbs \cup {-1} /\ moff \in Nat
    /\ bl \in [on : BOOLEAN, win : Seq(Elem)] /\ Len(bl.win) <= BacklogSize
    /\ child \in ChildType /\ rdbfile \in Rdb
    /\ hist \in [0..runid -> Seq(Point)]
ClientTypes ==
    /\ cl \in [Conns -> Client]
    /\ slaves \in Seq(Conns) /\ IsInjective(slaves)
    /\ \A c \in Conns : (cl[c].state # "NONE") = (c \in Range(slaves))
    /\ slaves # << >> => bl.on
ChanTypes == chan \in [Conns -> Channel]
SlaveTypes ==
    /\ rs \in [Slaves -> {"NONE", "CONNECT", "PSYNC", "CONNECTED"} \cup Handshake]
    /\ sc \in [Slaves -> Conns \cup {NoConn}]
    /\ master \in [Slaves -> Link] /\ cached \in [Slaves -> Link]
    /\ init \in [Slaves -> [run : Int, off : Int]]
    /\ sdata \in [Slaves -> Data]
    /\ pos \in [Slaves -> {"exact", "shifted", "tainted"}]
    /\ \A s \in Slaves :
         /\ (sc[s] # NoConn) = (rs[s] \notin {"NONE", "CONNECT"})
         /\ master[s].on = (rs[s] = "CONNECTED")
         /\ rs[s] \in {"TRANSFER", "TRANSFER_LOST", "CONNECTED", "NONE"} => ~cached[s].on

\* The next thing the slave reads is +CONTINUE.
HeadCont(q) == q # << >> /\ Head(q)[1] = "cont"

\* Slave s, in state r and with cached master m, at its end of connection k:
\* +CONTINUE only comes to a slave that asked for it with a cached master.
LinkOK(s, k, r, m) ==
    /\ k.sopen /\ k.s = s
    /\ r = "CONNECTING" => k.s2m = << >> /\ ~HeadCont(k.m2s)
    /\ r = "PSYNC" =>
         /\ HeadCont(k.m2s) => m.on
         /\ \A i \in 1..Len(k.s2m) : k.s2m[i][1] = "PSYNC" /\ k.s2m[i][2] >= 0 => m.on
LinkInv == \A s \in Slaves : sc[s] # NoConn => LinkOK(s, chan[sc[s]], rs[s], cached[s])

\* Inductive strengthening of TypeOK and AssertionsHold.
TypeInv == MasterTypes /\ ClientTypes /\ ChanTypes /\ SlaveTypes /\ LinkInv

\* What TypeInv is for.
LEMMA TypeInvImplies == TypeInv => TypeOK /\ AssertionsHold
  <1> SUFFICES ASSUME TypeInv PROVE TypeOK /\ AssertionsHold OBVIOUS
  <1>1. runid \in 0..MaxEvents
    BY ReplAssumption DEF TypeInv, MasterTypes, Used
  <1>2. \A c \in Conns : cl[c].state \in {"NONE", "START", "END", "BULK", "ONLINE"}
    BY DEF TypeInv, ClientTypes, Client
  <1>3. child.type \in {"NONE", "DISK", "SOCKET"} BY DEF TypeInv, MasterTypes, ChildType
  <1>4. TypeOK
    BY <1>1, <1>2, <1>3 DEF TypeOK, TypeInv, MasterTypes, ClientTypes, SlaveTypes
  <1>5. AssertionsHold BY DEF AssertionsHold, TypeInv, ClientTypes, SlaveTypes
  <1> QED BY <1>4, <1>5

\* The values the program starts from, and returns to.
LEMMA InitialTypes ==
    /\ 0 \in Dbs /\ -1 \notin Dbs /\ Dbs \subseteq Nat
    /\ << >> \in Data /\ NoRdb \in Rdb /\ NewClient \in Client /\ Closed \in Channel
    /\ NoChild \in ChildType /\ NoMaster \in Link /\ NoInit \in [run : Int, off : Int]
  <1>1. 0 \in Dbs /\ -1 \notin Dbs /\ Dbs \subseteq Nat BY ReplAssumption
  <1>2. << >> \in Data /\ NoRdb \in Rdb BY DEF Data, NoRdb, Rdb
  <1>3. << >> \in Seq(Reply) /\ << >> \in Seq(Msg) /\ << >> \in Seq(Request) OBVIOUS
  <1>4. NewClient \in Client BY <1>2, <1>3 DEF NewClient, Client
  <1>5. Closed \in Channel BY <1>3 DEF Closed, Channel
  <1>6. NoChild \in ChildType BY <1>2 DEF NoChild, ChildType
  <1>7. NoMaster \in Link BY <1>1 DEF NoMaster, Link
  <1>8. NoInit \in [run : Int, off : Int] BY DEF NoInit
  <1> QED BY <1>1, <1>2, <1>4, <1>5, <1>6, <1>7, <1>8

\* The initial states.
LEMMA TypeInit == Init => TypeInv
  <1> SUFFICES ASSUME Init PROVE TypeInv OBVIOUS
  <1> USE DEF Init
  <1>1. MasterTypes
    <2>1. used \in Used /\ used.event <= MaxEvents BY ReplAssumption DEF Used
    <2>2. runid \in Nat /\ runid <= used.event BY DEF Used
    <2>3. bl \in [on : BOOLEAN, win : Seq(Elem)] /\ Len(bl.win) <= BacklogSize
      BY ReplAssumption DEF NoBacklog
    <2>4. hist \in [0..runid -> Seq(Point)]
      <3>1. [db |-> -1, data |-> << >>] \in Point BY InitialTypes DEF Point
      <3>2. << [db |-> -1, data |-> << >>] >> \in Seq(Point) BY <3>1
      <3> QED BY <3>2
    <2>5. diskless \in BOOLEAN BY ReplAssumption
    <2> QED BY <2>1, <2>2, <2>3, <2>4, <2>5, InitialTypes DEF MasterTypes
  <1>2. ClientTypes
    <2>1. slaves \in Seq(Conns) /\ IsInjective(slaves) /\ Range(slaves) = {}
      BY DEF IsInjective, Range
    <2>2. \A c \in Conns : cl[c].state = "NONE" BY DEF NewClient
    <2> QED BY <2>1, <2>2, InitialTypes DEF ClientTypes
  <1>3. ChanTypes BY InitialTypes DEF ChanTypes
  <1>4. SlaveTypes BY InitialTypes DEF SlaveTypes, Handshake, NoMaster
  <1>5. LinkInv BY DEF LinkInv
  <1> QED BY <1>1, <1>2, <1>3, <1>4, <1>5 DEF TypeInv

(***************************************************************************)
(* What the operations on connections and clients do.                      *)
(***************************************************************************)

\* A channel whose two queues are replaced.
LEMMA ChannelWith ==
    ASSUME NEW k \in Channel, NEW a \in Seq(Msg), NEW b \in Seq(Request)
    PROVE  /\ [k EXCEPT !.m2s = a] \in Channel
           /\ [k EXCEPT !.s2m = b] \in Channel
           /\ [k EXCEPT !.m2s = a, !.s2m = b] \in Channel
  BY DEF Channel

\* The master sends es on c.
LEMMA MSendIs ==
    ASSUME NEW ch \in [Conns -> Channel], NEW c \in Conns, NEW es \in Seq(Msg)
    PROVE  /\ MSend(ch, c, es) \in [Conns -> Channel]
           /\ \A d \in Conns : d # c => MSend(ch, c, es)[d] = ch[d]
           /\ MSend(ch, c, es)[c] =
                IF ch[c].net /\ ch[c].sopen THEN [ch[c] EXCEPT !.m2s = @ \o es] ELSE ch[c]
  <1> DEFINE k == ch[c]
             a == IF k.net /\ k.sopen THEN k.m2s \o es ELSE k.m2s
  <1>1. k \in Channel /\ k.m2s \in Seq(Msg) /\ k.m2s \o es \in Seq(Msg) BY DEF Channel
  <1>2. a \in Seq(Msg) BY <1>1
  <1>3. MSend(ch, c, es) = [ch EXCEPT ![c] = [k EXCEPT !.m2s = a]] BY DEF MSend
  <1>4. [k EXCEPT !.m2s = k.m2s] = k BY <1>1 DEF Channel
  <1>5. [k EXCEPT !.m2s = a] = IF k.net /\ k.sopen THEN [k EXCEPT !.m2s = k.m2s \o es] ELSE k
    BY <1>4
  <1>6. [k EXCEPT !.m2s = a] \in Channel
    <2>1. << >> \in Seq(Request) OBVIOUS
    <2> QED BY <1>1, <1>2, <2>1, ChannelWith
  <1> HIDE DEF a
  <1> QED BY <1>3, <1>5, <1>6

\* A slave sends es on c.
LEMMA SSendIs ==
    ASSUME NEW ch \in [Conns -> Channel], NEW c \in Conns, NEW es \in Seq(Request)
    PROVE  /\ SSend(ch, c, es) \in [Conns -> Channel]
           /\ \A d \in Conns : d # c => SSend(ch, c, es)[d] = ch[d]
           /\ SSend(ch, c, es)[c] =
                IF ch[c].net /\ ch[c].mopen THEN [ch[c] EXCEPT !.s2m = @ \o es] ELSE ch[c]
  <1> DEFINE k == ch[c]
             a == IF k.net /\ k.mopen THEN k.s2m \o es ELSE k.s2m
  <1>1. k \in Channel /\ k.s2m \in Seq(Request) /\ k.s2m \o es \in Seq(Request) BY DEF Channel
  <1>2. a \in Seq(Request) BY <1>1
  <1>3. SSend(ch, c, es) = [ch EXCEPT ![c] = [k EXCEPT !.s2m = a]] BY DEF SSend
  <1>4. [k EXCEPT !.s2m = k.s2m] = k BY <1>1 DEF Channel
  <1>5. [k EXCEPT !.s2m = a] = IF k.net /\ k.mopen THEN [k EXCEPT !.s2m = k.s2m \o es] ELSE k
    BY <1>4
  <1>6. [k EXCEPT !.s2m = a] \in Channel
    <2>1. << >> \in Seq(Msg) OBVIOUS
    <2> QED BY <1>1, <1>2, <2>1, ChannelWith
  <1> HIDE DEF a
  <1> QED BY <1>3, <1>5, <1>6

\* The master closes its end of the connections cs.
LEMMA MCloseIs ==
    ASSUME NEW ch \in [Conns -> Channel], NEW cs \in SUBSET Conns
    PROVE  /\ MClose(ch, cs) \in [Conns -> Channel]
           /\ \A d \in Conns \ cs : MClose(ch, cs)[d] = ch[d]
           /\ \A d \in cs : MClose(ch, cs)[d] =
                IF ch[d].sopen THEN [ch[d] EXCEPT !.mopen = FALSE, !.s2m = << >>] ELSE Closed
  <1>1. ASSUME NEW d \in cs
        PROVE  /\ MClose(ch, cs)[d] =
                    IF ch[d].sopen THEN [ch[d] EXCEPT !.mopen = FALSE, !.s2m = << >>] ELSE Closed
               /\ MClose(ch, cs)[d] \in Channel
    <2> DEFINE k == [ch[d] EXCEPT !.mopen = FALSE, !.s2m = << >>]
    <2>1. ch[d] \in Channel /\ d \in Conns OBVIOUS
    <2>2. k \in Channel /\ ~k.mopen /\ k.sopen = ch[d].sopen
      <3> DEFINE j == ch[d]
      <3>1. j \in Channel BY <2>1
      <3> HIDE DEF j
      <3>2. [j EXCEPT !.mopen = FALSE] \in Channel BY <3>1 DEF Channel
      <3>3. << >> \in Seq(Request) OBVIOUS
      <3>4. [j EXCEPT !.mopen = FALSE, !.s2m = << >>] \in Channel BY <3>2, <3>3 DEF Channel
      <3>5. [j EXCEPT !.mopen = FALSE, !.s2m = << >>].mopen = FALSE BY <3>1 DEF Channel
      <3>6. [j EXCEPT !.mopen = FALSE, !.s2m = << >>].sopen = j.sopen BY <3>1 DEF Channel
      <3> QED BY <3>4, <3>5, <3>6 DEF j
    <2>3. MClose(ch, cs)[d] = Normal(k) BY <2>1 DEF MClose
    <2> HIDE DEF k
    <2>4. Normal(k) = IF ch[d].sopen THEN k ELSE Closed BY <2>2 DEF Normal
    <2> QED BY <2>2, <2>3, <2>4, InitialTypes DEF k
  <1>2. ASSUME NEW d \in Conns \ cs PROVE MClose(ch, cs)[d] = ch[d] BY DEF MClose
  <1>3. MClose(ch, cs) = [d \in Conns |-> MClose(ch, cs)[d]] BY DEF MClose
  <1>4. \A d \in Conns : MClose(ch, cs)[d] \in Channel BY <1>1, <1>2
  <1>5. MClose(ch, cs) \in [Conns -> Channel] BY <1>3, <1>4
  <1> QED BY <1>1, <1>2, <1>5

\* A slave closes its end of c.
LEMMA SCloseIs ==
    ASSUME NEW ch \in [Conns -> Channel], NEW c \in Conns
    PROVE  /\ SClose(ch, c) \in [Conns -> Channel]
           /\ \A d \in Conns : d # c => SClose(ch, c)[d] = ch[d]
           /\ SClose(ch, c)[c] =
                IF ch[c].mopen THEN [ch[c] EXCEPT !.sopen = FALSE, !.m2s = << >>] ELSE Closed
  <1> DEFINE k == [ch[c] EXCEPT !.sopen = FALSE, !.m2s = << >>]
  <1>1. k \in Channel /\ ~k.sopen /\ k.mopen = ch[c].mopen
    <2> DEFINE j == ch[c]
    <2>1. j \in Channel OBVIOUS
    <2> HIDE DEF j
    <2>2. [j EXCEPT !.sopen = FALSE] \in Channel BY <2>1 DEF Channel
    <2>3. << >> \in Seq(Msg) OBVIOUS
    <2>4. [j EXCEPT !.sopen = FALSE, !.m2s = << >>] \in Channel BY <2>2, <2>3 DEF Channel
    <2>5. [j EXCEPT !.sopen = FALSE, !.m2s = << >>].sopen = FALSE BY <2>1 DEF Channel
    <2>6. [j EXCEPT !.sopen = FALSE, !.m2s = << >>].mopen = j.mopen BY <2>1 DEF Channel
    <2> QED BY <2>4, <2>5, <2>6 DEF j
  <1>2. SClose(ch, c) = [ch EXCEPT ![c] = Normal(k)] BY DEF SClose
  <1> HIDE DEF k
  <1>3. Normal(k) = IF ch[c].mopen THEN k ELSE Closed BY <1>1 DEF Normal
  <1>4. Normal(k) \in Channel BY <1>1, <1>3, InitialTypes
  <1> QED BY <1>2, <1>3, <1>4 DEF k

\* The master queues es for a client.
LEMMA AddReplyIs ==
    ASSUME NEW k \in Client, NEW es \in Seq(Reply)
    PROVE  /\ AddReply(k, es) \in Client
           /\ AddReply(k, es).state = k.state
           /\ AddReply(k, es).out = k.out \o es
           /\ AddReply(k, es).rdb = k.rdb
           /\ AddReply(k, es).onack = k.onack
           /\ AddReply(k, es).wh => k.wh \/ k.state \in {"NONE", "ONLINE"}
  <1> DEFINE w == k.wh \/ (es # << >> /\ k.out = << >> /\ k.state \in {"NONE", "ONLINE"})
             o == k.out \o es
  <1>1. AddReply(k, es) = [k EXCEPT !.out = o, !.wh = w] BY DEF AddReply
  <1>2. o \in Seq(Reply) /\ w \in BOOLEAN BY DEF Client
  <1>3. w => k.wh \/ k.state \in {"NONE", "ONLINE"} OBVIOUS
  <1> HIDE DEF w, o
  <1>4. [k EXCEPT !.out = o] \in Client BY <1>2 DEF Client
  <1>5. [k EXCEPT !.out = o, !.wh = w] \in Client BY <1>2, <1>4 DEF Client
  <1>6. /\ [k EXCEPT !.out = o, !.wh = w].state = k.state
        /\ [k EXCEPT !.out = o, !.wh = w].out = o
        /\ [k EXCEPT !.out = o, !.wh = w].wh = w
    BY DEF Client
  <1>7. /\ [k EXCEPT !.out = o, !.wh = w].rdb = k.rdb
        /\ [k EXCEPT !.out = o, !.wh = w].onack = k.onack
    BY DEF Client
  <1> QED BY <1>1, <1>3, <1>5, <1>6, <1>7 DEF o

(***************************************************************************)
(* Types: steps of the network and of the master.                          *)
(***************************************************************************)

\* A step of the master's on a connection, as its slave sees it: no +CONTINUE
\* comes to the front, and requests are only taken away.
Quiet(k, j) ==
    k.sopen =>
        /\ j.sopen /\ j.s = k.s
        /\ HeadCont(j.m2s) => HeadCont(k.m2s)
        /\ \A i \in 1..Len(j.s2m) : \E n \in 1..Len(k.s2m) : j.s2m[i] = k.s2m[n]

\* Such a step does not disturb the protocol.
LEMMA QuietLink ==
    ASSUME NEW s, NEW k \in Channel, NEW j \in Channel, NEW r, NEW m,
           LinkOK(s, k, r, m), Quiet(k, j)
    PROVE  LinkOK(s, j, r, m)
  <1>1. j.sopen /\ j.s = s BY DEF LinkOK, Quiet
  <1>2. k.s2m = << >> => j.s2m = << >>
    <2>1. j.s2m \in Seq(Request) BY DEF Channel
    <2> SUFFICES ASSUME k.s2m = << >>, j.s2m # << >> PROVE FALSE OBVIOUS
    <2>2. 1 \in 1..Len(j.s2m) BY <2>1
    <2>3. \E n \in 1..Len(k.s2m) : j.s2m[1] = k.s2m[n] BY <2>2 DEF LinkOK, Quiet
    <2> QED BY <2>3
  <1> QED BY <1>1, <1>2 DEF LinkOK, Quiet

\* The master's side of every connection.
LEMMA QuietLinks ==
    ASSUME LinkInv, ChanTypes, ChanTypes', SlaveTypes, UNCHANGED <<rs, sc, cached>>,
           \A c \in Conns : Quiet(chan[c], chan'[c])
    PROVE  LinkInv'
  <1> SUFFICES ASSUME NEW s \in Slaves, sc[s] # NoConn
               PROVE  LinkOK(s, chan'[sc[s]], rs[s], cached[s])
    BY DEF LinkInv
  <1> DEFINE c == sc[s]
  <1>1. c \in Conns BY DEF SlaveTypes
  <1>2. LinkOK(s, chan[c], rs[s], cached[s]) BY DEF LinkInv
  <1>3. chan[c] \in Channel /\ chan'[c] \in Channel BY <1>1 DEF ChanTypes
  <1> HIDE DEF c
  <1>4. LinkOK(s, chan'[c], rs[s], cached[s]) BY <1>1, <1>2, <1>3, QuietLink
  <1> QED BY <1>4 DEF c

\* Quiet: nothing happens.
LEMMA QuietSame == ASSUME NEW k PROVE Quiet(k, k) BY DEF Quiet

\* Two quiet steps are quiet.
LEMMA QuietTwice ==
    ASSUME NEW k, NEW j, NEW n, Quiet(k, j), Quiet(j, n)
    PROVE  Quiet(k, n)
  <1> SUFFICES ASSUME k.sopen PROVE
               /\ n.sopen /\ n.s = k.s
               /\ HeadCont(n.m2s) => HeadCont(k.m2s)
               /\ \A i \in 1..Len(n.s2m) : \E a \in 1..Len(k.s2m) : n.s2m[i] = k.s2m[a]
    BY DEF Quiet
  <1>1. /\ j.sopen /\ j.s = k.s
        /\ HeadCont(j.m2s) => HeadCont(k.m2s)
        /\ \A i \in 1..Len(j.s2m) : \E a \in 1..Len(k.s2m) : j.s2m[i] = k.s2m[a]
    BY DEF Quiet
  <1>2. /\ n.sopen /\ n.s = j.s
        /\ HeadCont(n.m2s) => HeadCont(j.m2s)
        /\ \A i \in 1..Len(n.s2m) : \E a \in 1..Len(j.s2m) : n.s2m[i] = j.s2m[a]
    BY <1>1 DEF Quiet
  <1>3. ASSUME NEW i \in 1..Len(n.s2m) PROVE \E a \in 1..Len(k.s2m) : n.s2m[i] = k.s2m[a]
    <2>1. PICK a \in 1..Len(j.s2m) : n.s2m[i] = j.s2m[a] BY <1>2
    <2>2. PICK b \in 1..Len(k.s2m) : j.s2m[a] = k.s2m[b] BY <1>1
    <2> QED BY <2>1, <2>2
  <1> QED BY <1>1, <1>2, <1>3

\* Quiet: the master sends.
LEMMA QuietSend ==
    ASSUME NEW k \in Channel, NEW es \in Seq(Msg), ~HeadCont(es)
    PROVE  Quiet(k, [k EXCEPT !.m2s = @ \o es])
  <1> DEFINE q == k.m2s
             j == [k EXCEPT !.m2s = q \o es]
  <1>1. q \in Seq(Msg) BY DEF Channel
  <1>2. j.sopen = k.sopen /\ j.s = k.s /\ j.s2m = k.s2m /\ j.m2s = q \o es BY DEF Channel
  <1>3. HeadCont(q \o es) => HeadCont(q)
    <2> HIDE DEF q
    <2>1. CASE q = << >>
      <3>1. q \o es = es BY <2>1
      <3> QED BY <3>1
    <2>2. CASE q # << >>
      <3>1. Head(q \o es) = Head(q) BY <1>1, <2>2
      <3> QED BY <2>2, <3>1 DEF HeadCont
    <2> QED BY <2>1, <2>2
  <1> HIDE DEF j
  <1>4. Quiet(k, j) BY <1>2, <1>3 DEF Quiet
  <1> QED BY <1>4 DEF j

\* Quiet: the master reads.
LEMMA QuietRead ==
    ASSUME NEW k \in Channel, k.s2m # << >>
    PROVE  /\ [k EXCEPT !.s2m = Tail(@)] \in Channel
           /\ Quiet(k, [k EXCEPT !.s2m = Tail(@)])
  <1> DEFINE j == [k EXCEPT !.s2m = Tail(@)]
  <1>1. k.s2m \in Seq(Request) BY DEF Channel
  <1>2. Tail(k.s2m) \in Seq(Request) BY <1>1
  <1>3. j \in Channel BY <1>2 DEF Channel
  <1>4. j.sopen = k.sopen /\ j.s = k.s /\ j.m2s = k.m2s /\ j.s2m = Tail(k.s2m) BY DEF Channel
  <1>5. \A i \in 1..Len(Tail(k.s2m)) : i + 1 \in 1..Len(k.s2m) /\ Tail(k.s2m)[i] = k.s2m[i + 1]
    BY <1>1
  <1> HIDE DEF j
  <1>6. Quiet(k, j) BY <1>4, <1>5 DEF Quiet
  <1> QED BY <1>3, <1>6 DEF j

\* Quiet: the master closes.
LEMMA QuietClose ==
    ASSUME NEW ch \in [Conns -> Channel], NEW cs \in SUBSET Conns, NEW c \in Conns
    PROVE  Quiet(ch[c], MClose(ch, cs)[c])
  <1>1. CASE c \notin cs
    <2>1. MClose(ch, cs)[c] = ch[c] BY <1>1, MCloseIs
    <2> QED BY <2>1, QuietSame
  <1>2. CASE c \in cs /\ ~ch[c].sopen BY <1>2 DEF Quiet
  <1>3. CASE c \in cs /\ ch[c].sopen
    <2> DEFINE k == ch[c]
               j == [k EXCEPT !.mopen = FALSE, !.s2m = << >>]
    <2>1. MClose(ch, cs)[c] = j BY <1>3, MCloseIs
    <2>2. k \in Channel OBVIOUS
    <2>3. j.sopen = k.sopen /\ j.s = k.s /\ j.m2s = k.m2s /\ j.s2m = << >> BY <2>2 DEF Channel
    <2> HIDE DEF j
    <2>4. Quiet(k, j) BY <2>3 DEF Quiet
    <2> QED BY <2>1, <2>4
  <1> QED BY <1>1, <1>2, <1>3

\* What the master queues is never +CONTINUE.
LEMMA RepliesQuiet ==
    ASSUME NEW es \in Seq(Reply)
    PROVE  es \in Seq(Msg) /\ ~HeadCont(es)
  <1>1. es \in Seq(Msg) BY MakesMsg, SeqMonotonic
  <1>2. \A e \in Reply : e[1] # "cont" BY DEF Reply, Elem, Sel, Cmd, Ping
  <1>3. es # << >> => Head(es) \in Reply OBVIOUS
  <1> QED BY <1>1, <1>2, <1>3 DEF HeadCont

\* One more of the bounded events.
LEMMA SpendType ==
    ASSUME MasterTypes, NEW k \in {"feed", "event"}, NEW max, Spend(k, max),
           k = "event" => max = MaxEvents
    PROVE  used' \in Used /\ used'.event <= MaxEvents /\ used.event <= used'.event
           /\ (k = "event" => used'.event = used.event + 1)
  <1>1. used \in Used /\ used.event <= MaxEvents BY DEF MasterTypes
  <1>2. used' = [used EXCEPT ![k] = @ + 1] /\ used[k] < max BY DEF Spend
  <1>3. CASE k = "feed" BY <1>1, <1>2, <1>3, ReplAssumption DEF Used
  <1>4. CASE k = "event" BY <1>1, <1>2, <1>4, ReplAssumption DEF Used
  <1> QED BY <1>3, <1>4

\* The link dies.
LEMMA TypesNetBreak ==
    ASSUME TypeInv, NEW c \in Conns, NetBreak(c)
    PROVE  TypeInv'
  <1> USE DEF TypeInv
  <1>1. UNCHANGED <<mvars, svars, hist, pos>> BY DEF NetBreak
  <1>2. used' \in Used /\ used'.event <= MaxEvents /\ used.event <= used'.event
    BY SpendType DEF NetBreak
  <1>3. MasterTypes' BY <1>1, <1>2 DEF MasterTypes, mvars, Used
  <1>4. ClientTypes' BY <1>1 DEF ClientTypes, mvars
  <1>5. SlaveTypes' BY <1>1 DEF SlaveTypes, svars
  <1> DEFINE k == chan[c]
             j == [k EXCEPT !.net = FALSE, !.m2s = << >>, !.s2m = << >>]
  <1>6. k \in Channel BY DEF ChanTypes
  <1>7. chan' = [chan EXCEPT ![c] = j]
    <2>1. chan' = [chan EXCEPT ![c].net = FALSE, ![c].m2s = << >>, ![c].s2m = << >>]
      BY DEF NetBreak
    <2> QED BY <2>1 DEF ChanTypes
  <1>8. j \in Channel
    <2> HIDE DEF k
    <2>1. [k EXCEPT !.net = FALSE] \in Channel BY <1>6 DEF Channel
    <2>2. << >> \in Seq(Msg) /\ << >> \in Seq(Request) OBVIOUS
    <2> QED BY <2>1, <2>2, ChannelWith
  <1>9. Quiet(k, j)
    <2>1. j.sopen = k.sopen /\ j.s = k.s /\ j.m2s = << >> /\ j.s2m = << >> BY <1>6 DEF Channel
    <2> HIDE DEF j
    <2> QED BY <2>1 DEF Quiet, HeadCont
  <1> HIDE DEF j
  <1>10. ChanTypes' BY <1>7, <1>8 DEF ChanTypes
  <1>11. \A d \in Conns : Quiet(chan[d], chan'[d])
    <2> TAKE d \in Conns
    <2>1. CASE d = c BY <1>7, <1>9, <2>1 DEF ChanTypes
    <2>2. CASE d # c
      <3>1. chan'[d] = chan[d] BY <1>7, <2>2 DEF ChanTypes
      <3> QED BY <3>1, QuietSame
    <2> QED BY <2>1, <2>2
  <1>12. LinkInv' BY <1>1, <1>10, <1>11, QuietLinks DEF svars
  <1> QED BY <1>3, <1>4, <1>5, <1>10, <1>12

\* The elements of one fed command.
SelOf(d) == IF seldb = d THEN << >> ELSE <<Sel(d)>>
ElsOf(d, e) == Append(SelOf(d), e)

\* They are stream elements.
LEMMA FedElements ==
    ASSUME NEW d, d = seldb \/ d \in Dbs, NEW e \in Elem
    PROVE  /\ SelOf(d) \in Seq(Elem) /\ ElsOf(d, e) \in Seq(Elem)
           /\ SelOf(d) \in Seq(Reply) /\ ElsOf(d, e) \in Seq(Reply)
           /\ Len(SelOf(d)) \in {0, 1} /\ Len(ElsOf(d, e)) = Len(SelOf(d)) + 1
  <1>1. SelOf(d) \in Seq(Elem) /\ Len(SelOf(d)) \in {0, 1} BY MakesMsg DEF SelOf
  <1> HIDE DEF SelOf
  <1>2. ElsOf(d, e) \in Seq(Elem) /\ Len(ElsOf(d, e)) = Len(SelOf(d)) + 1 BY <1>1 DEF ElsOf
  <1>3. SelOf(d) \in Seq(Reply) /\ ElsOf(d, e) \in Seq(Reply)
    BY <1>1, <1>2, MakesMsg, SeqMonotonic
  <1> QED BY <1>1, <1>2, <1>3

\* The window of the backlog after els.
Window(win, els) ==
    LET w == win \o els
    IN  SubSeq(w, 1 + (IF Len(w) > BacklogSize THEN Len(w) - BacklogSize ELSE 0), Len(w))

\* The end of the old window and of els.
LEMMA WindowIs ==
    ASSUME NEW S, NEW win \in Seq(S), NEW els \in Seq(S)
    PROVE  /\ Window(win, els) \in Seq(S)
           /\ Len(Window(win, els)) <= BacklogSize
           /\ Len(Window(win, els)) <= Len(win) + Len(els)
           /\ \A i \in 1..Len(Window(win, els)) : Window(win, els)[i] =
                (win \o els)[i + ((Len(win) + Len(els)) - Len(Window(win, els)))]
  <1> DEFINE w == win \o els
             m == 1 + (IF Len(w) > BacklogSize THEN Len(w) - BacklogSize ELSE 0)
  <1>1. w \in Seq(S) /\ Len(w) = Len(win) + Len(els) /\ Len(w) \in Nat OBVIOUS
  <1>2. Window(win, els) = SubSeq(w, m, Len(w)) BY DEF Window
  <1>3. m \in 1..(Len(w) + 1) /\ Len(w) - m + 1 <= BacklogSize BY <1>1, ReplAssumption
  <1> HIDE DEF w, m
  <1>4. \A i \in m..Len(w) : w[i] \in S BY <1>1, <1>3
  <1>5. /\ SubSeq(w, m, Len(w)) \in Seq(S)
        /\ Len(SubSeq(w, m, Len(w))) = IF m <= Len(w) THEN Len(w) - m + 1 ELSE 0
        /\ \A i \in 1..(Len(w) - m + 1) : SubSeq(w, m, Len(w))[i] = w[m + i - 1]
    <2>1. m \in Int /\ Len(w) \in Int BY <1>1, <1>3
    <2> QED BY <1>4, <2>1, SubSeqProperties
  <1>6. Len(SubSeq(w, m, Len(w))) = Len(w) - m + 1 BY <1>1, <1>3, <1>5
  <1>7. ASSUME NEW i \in 1..(Len(w) - m + 1)
        PROVE  m + i - 1 = i + ((Len(win) + Len(els)) - (Len(w) - m + 1))
    BY <1>1, <1>3
  <1>8. /\ Len(SubSeq(w, m, Len(w))) <= BacklogSize
        /\ Len(SubSeq(w, m, Len(w))) <= Len(win) + Len(els)
    BY <1>1, <1>3, <1>6
  <1>9. \A i \in 1..Len(SubSeq(w, m, Len(w))) : SubSeq(w, m, Len(w))[i] =
            w[i + ((Len(win) + Len(els)) - Len(SubSeq(w, m, Len(w))))]
    BY <1>5, <1>6, <1>7
  <1> QED BY <1>2, <1>5, <1>8, <1>9 DEF w

\* replicationFeedSlaves, when there is somebody to feed.
FedAll(d, e, data) ==
    /\ seldb' = d
    /\ moff' = moff + Len(ElsOf(d, e))
    /\ bl' = [bl EXCEPT !.win = Window(bl.win, ElsOf(d, e))]
    /\ cl' = [c \in Conns |->
                IF c \notin Range(slaves) THEN cl[c]
                ELSE AddReply(cl[c], SlaveShare(cl[c], SelOf(d), ElsOf(d, e)))]
    /\ hist' = [hist EXCEPT ![runid] =
                  @ \o [i \in 1..Len(SelOf(d)) |-> [db |-> d, data |-> mdata]]
                    \o << [db |-> d, data |-> data] >>]

\* There is nobody to feed, or everybody is fed.
LEMMA FeedIs ==
    ASSUME NEW d, NEW e, NEW data, replicationFeedSlaves(d, e, data)
    PROVE  IF ~bl.on /\ slaves = << >> THEN UNCHANGED <<seldb, moff, bl, cl, hist>>
           ELSE FedAll(d, e, data)
  BY Zenon DEF replicationFeedSlaves, FedAll, SelOf, ElsOf, Window

\* The types after it.
LEMMA FeedTypes ==
    ASSUME TypeInv, NEW d, d = seldb \/ d \in Dbs, NEW e \in Elem, NEW data \in Data,
           replicationFeedSlaves(d, e, data)
    PROVE  /\ seldb' \in Dbs \cup {-1} /\ moff' \in Nat
           /\ bl' \in [on : BOOLEAN, win : Seq(Elem)] /\ Len(bl'.win) <= BacklogSize
           /\ bl'.on = bl.on
           /\ cl' \in [Conns -> Client] /\ \A c \in Conns : cl'[c].state = cl[c].state
           /\ hist' \in [0..runid -> Seq(Point)]
  <1> USE DEF TypeInv
  <1>1. CASE ~bl.on /\ slaves = << >>
    <2>1. UNCHANGED <<seldb, moff, bl, cl, hist>> BY <1>1, FeedIs
    <2> QED BY <2>1 DEF MasterTypes, ClientTypes
  <1>2. CASE ~(~bl.on /\ slaves = << >>)
    <2> DEFINE sel == SelOf(d)
               els == ElsOf(d, e)
    <2>1. FedAll(d, e, data) BY <1>2, FeedIs
    <2>2. /\ els \in Seq(Elem) /\ sel \in Seq(Reply) /\ els \in Seq(Reply)
          /\ Len(sel) \in {0, 1} /\ Len(els) = Len(sel) + 1
      BY FedElements
    <2>3. d \in Dbs \cup {-1} BY DEF MasterTypes
    <2>4. seldb' \in Dbs \cup {-1} /\ moff' \in Nat
      BY <2>1, <2>2, <2>3 DEF FedAll, MasterTypes
    <2>5. /\ bl' \in [on : BOOLEAN, win : Seq(Elem)] /\ Len(bl'.win) <= BacklogSize
          /\ bl'.on = bl.on
      <3> DEFINE w == Window(bl.win, els)
      <3>1. bl \in [on : BOOLEAN, win : Seq(Elem)] BY DEF MasterTypes
      <3>2. bl.win \in Seq(Elem) BY <3>1
      <3>3. w \in Seq(Elem) /\ Len(w) <= BacklogSize BY <2>2, <3>2, WindowIs
      <3>4. bl' = [bl EXCEPT !.win = w] BY <2>1 DEF FedAll
      <3> HIDE DEF w
      <3> QED BY <3>1, <3>3, <3>4
    <2>6. cl' \in [Conns -> Client] /\ \A c \in Conns : cl'[c].state = cl[c].state
      <3> DEFINE share(c) == SlaveShare(cl[c], sel, els)
      <3>1. cl' = [c \in Conns |-> IF c \notin Range(slaves) THEN cl[c] ELSE AddReply(cl[c], share(c))]
        BY <2>1 DEF FedAll
      <3>2. \A c \in Conns : share(c) \in Seq(Reply) BY <2>2 DEF SlaveShare
      <3>3. \A c \in Conns : cl[c] \in Client BY DEF ClientTypes
      <3> HIDE DEF share
      <3>4. \A c \in Conns : /\ AddReply(cl[c], share(c)) \in Client
                             /\ AddReply(cl[c], share(c)).state = cl[c].state
        BY <3>2, <3>3, AddReplyIs
      <3> QED BY <3>1, <3>3, <3>4
    <2>7. hist' \in [0..runid -> Seq(Point)]
      <3> DEFINE h == hist[runid]
                 a == [i \in 1..Len(sel) |-> [db |-> d, data |-> mdata]]
                 b == << [db |-> d, data |-> data] >>
      <3>1. hist \in [0..runid -> Seq(Point)] /\ runid \in 0..runid BY DEF MasterTypes
      <3>2. h \in Seq(Point) BY <3>1
      <3>3. [db |-> d, data |-> mdata] \in Point /\ [db |-> d, data |-> data] \in Point
        BY <2>3 DEF Point, MasterTypes
      <3>4. Len(sel) \in Nat BY <2>2
      <3>5. a \in Seq(Point) /\ b \in Seq(Point) BY <3>3, <3>4
      <3>6. hist' = [hist EXCEPT ![runid] = h \o a \o b] BY <2>1, <3>1 DEF FedAll
      <3> HIDE DEF a, b, h
      <3>7. h \o a \o b \in Seq(Point) BY <3>2, <3>5
      <3> QED BY <3>1, <3>6, <3>7
    <2> QED BY <2>4, <2>5, <2>6, <2>7
  <1> QED BY <1>1, <1>2

\* A write, or a PING of replicationCron: element e in database d, after which
\* the dataset is data.
Fed(d, e, data) ==
    /\ d = seldb \/ d \in Dbs
    /\ \/ e = Ping /\ data = mdata
       \/ \E n \in Nat : e = Cmd(n) /\ d \in Dbs /\ data = Append(mdata, <<n, d>>)
    /\ replicationFeedSlaves(d, e, data)
    /\ mdata' = data /\ Spend("feed", MaxFeeds)
    /\ UNCHANGED <<diskless, runid, slaves, child, rdbfile, chan, svars, pos>>

\* Writes and PINGs are such.
LEMMA FedStep ==
    ASSUME MasterTypes, (\E d \in Dbs : Write(d)) \/ FeedPing
    PROVE  \E d \in Dbs \cup {-1}, e \in Elem, data \in Data : Fed(d, e, data)
  <1>1. CASE \E d \in Dbs : Write(d)
    <2>1. PICK d \in Dbs : Write(d) BY <1>1
    <2> DEFINE data == Append(mdata, <<used.feed + 1, d>>)
               e == Cmd(used.feed + 1)
    <2>2. used.feed + 1 \in Nat /\ mdata \in Data BY DEF MasterTypes, Used
    <2>3. data \in Data /\ e \in Elem BY <2>2, MakesMsg DEF Data
    <2>4. /\ replicationFeedSlaves(d, e, data) /\ mdata' = data /\ Spend("feed", MaxFeeds)
          /\ UNCHANGED <<diskless, runid, slaves, child, rdbfile, chan, svars, pos>>
      BY <2>1 DEF Write
    <2>5. \E n \in Nat : e = Cmd(n) /\ d \in Dbs /\ data = Append(mdata, <<n, d>>) BY <2>2
    <2> HIDE DEF data, e
    <2>6. Fed(d, e, data) BY <2>4, <2>5 DEF Fed
    <2> QED BY <2>3, <2>6
  <1>2. CASE FeedPing
    <2>1. mdata \in Data /\ Ping \in Elem /\ seldb \in Dbs \cup {-1} BY MakesMsg DEF MasterTypes
    <2>2. Fed(seldb, Ping, mdata) BY <1>2 DEF FeedPing, Fed
    <2> QED BY <2>1, <2>2
  <1> QED BY <1>1, <1>2

\* Writes and PINGs.
LEMMA TypesFeed ==
    ASSUME TypeInv, (\E d \in Dbs : Write(d)) \/ FeedPing
    PROVE  TypeInv'
  <1> USE DEF TypeInv
  <1>1. PICK d \in Dbs \cup {-1}, e \in Elem, data \in Data :
          /\ d = seldb \/ d \in Dbs
          /\ replicationFeedSlaves(d, e, data)
          /\ mdata' = data /\ Spend("feed", MaxFeeds)
          /\ UNCHANGED <<diskless, runid, slaves, child, rdbfile, chan, svars, pos>>
    BY FedStep DEF Fed
  <1>2. used' \in Used /\ used'.event <= MaxEvents /\ used.event <= used'.event
    BY <1>1, SpendType
  <1>3. /\ seldb' \in Dbs \cup {-1} /\ moff' \in Nat
        /\ bl' \in [on : BOOLEAN, win : Seq(Elem)] /\ Len(bl'.win) <= BacklogSize
        /\ bl'.on = bl.on
        /\ cl' \in [Conns -> Client] /\ \A c \in Conns : cl'[c].state = cl[c].state
        /\ hist' \in [0..runid -> Seq(Point)]
    BY <1>1, FeedTypes
  <1>4. MasterTypes' BY <1>1, <1>2, <1>3 DEF MasterTypes, Used
  <1>5. ClientTypes' BY <1>1, <1>3 DEF ClientTypes
  <1>6. ChanTypes' /\ SlaveTypes' /\ LinkInv'
    BY <1>1 DEF ChanTypes, SlaveTypes, LinkInv, svars
  <1> QED BY <1>4, <1>5, <1>6

\* One client changes, and stays a slave or none.
LEMMA ClientStep ==
    ASSUME ClientTypes, NEW c \in Conns, NEW k \in Client,
           (k.state # "NONE") = (cl[c].state # "NONE"),
           cl' = [cl EXCEPT ![c] = k], slaves' = slaves, bl' = bl
    PROVE  ClientTypes'
  <1>1. cl' \in [Conns -> Client] BY DEF ClientTypes
  <1>2. \A d \in Conns : (cl'[d].state # "NONE") = (cl[d].state # "NONE") BY DEF ClientTypes
  <1> QED BY <1>1, <1>2 DEF ClientTypes

\* One connection changes, quietly.
LEMMA ChannelStep ==
    ASSUME ChanTypes, LinkInv, SlaveTypes, NEW c \in Conns, chan' \in [Conns -> Channel],
           Quiet(chan[c], chan'[c]), \A d \in Conns : d # c => chan'[d] = chan[d],
           UNCHANGED <<rs, sc, cached>>
    PROVE  ChanTypes' /\ LinkInv'
  <1>1. ChanTypes' BY DEF ChanTypes
  <1>2. \A d \in Conns : Quiet(chan[d], chan'[d])
    <2> TAKE d \in Conns
    <2>1. CASE d = c BY <2>1
    <2>2. CASE d # c
      <3>1. chan'[d] = chan[d] BY <2>2
      <3> QED BY <3>1, QuietSame
    <2> QED BY <2>1, <2>2
  <1> QED BY <1>1, <1>2, QuietLinks

\* The master sends what no slave takes for +CONTINUE.
LEMMA SendStep ==
    ASSUME ChanTypes, LinkInv, SlaveTypes, NEW c \in Conns, NEW es \in Seq(Msg), ~HeadCont(es),
           chan' = MSend(chan, c, es), UNCHANGED <<rs, sc, cached>>
    PROVE  ChanTypes' /\ LinkInv'
  <1>1. chan \in [Conns -> Channel] /\ chan[c] \in Channel BY DEF ChanTypes
  <1>2. /\ chan' \in [Conns -> Channel]
        /\ \A d \in Conns : d # c => chan'[d] = chan[d]
        /\ chan'[c] = IF chan[c].net /\ chan[c].sopen THEN [chan[c] EXCEPT !.m2s = @ \o es]
                                                      ELSE chan[c]
    BY <1>1, MSendIs
  <1>3. Quiet(chan[c], [chan[c] EXCEPT !.m2s = @ \o es]) BY <1>1, QuietSend
  <1>4. Quiet(chan[c], chan'[c]) BY <1>2, <1>3, QuietSame
  <1> QED BY <1>2, <1>4, ChannelStep

\* sendReplyToClient, sendBulkToSlave.
LEMMA TypesSend ==
    ASSUME TypeInv, NEW c \in Conns, sendReplyToClient(c) \/ sendBulkToSlave(c)
    PROVE  TypeInv'
  <1> USE DEF TypeInv
  <1>1. cl \in [Conns -> Client] /\ cl[c] \in Client BY DEF ClientTypes
  <1>2. cl[c].out \in Seq(Reply) /\ cl[c].rdb \in Rdb BY <1>1 DEF Client
  <1>3. UNCHANGED <<diskless, runid, mdata, seldb, moff, bl, slaves, child, rdbfile, svars, hvars>>
    BY DEF sendReplyToClient, sendBulkToSlave
  <1>4. MasterTypes' /\ SlaveTypes' BY <1>3 DEF MasterTypes, SlaveTypes, svars, hvars
  <1>5. CASE sendReplyToClient(c)
    <2> DEFINE k == [cl[c] EXCEPT !.out = << >>, !.wh = FALSE]
    <2>1. chan' = MSend(chan, c, cl[c].out) BY <1>5 DEF sendReplyToClient
    <2>2. cl[c].out \in Seq(Msg) /\ ~HeadCont(cl[c].out) BY <1>2, RepliesQuiet
    <2>3. ChanTypes' /\ LinkInv' BY <1>3, <2>1, <2>2, SendStep DEF svars
    <2>4. cl' = [cl EXCEPT ![c] = k]
      <3>1. cl' = [cl EXCEPT ![c].out = << >>, ![c].wh = FALSE] BY <1>5 DEF sendReplyToClient
      <3> QED BY <1>1, <3>1
    <2>5. k \in Client /\ k.state = cl[c].state
      <3>1. << >> \in Seq(Reply) OBVIOUS
      <3>2. [cl[c] EXCEPT !.out = << >>] \in Client BY <1>1, <3>1 DEF Client
      <3>3. k \in Client BY <3>2 DEF Client
      <3>4. k.state = cl[c].state BY <1>1 DEF Client
      <3> QED BY <3>3, <3>4
    <2> HIDE DEF k
    <2>6. ClientTypes' BY <1>3, <2>4, <2>5, ClientStep
    <2> QED BY <1>4, <2>3, <2>6
  <1>6. CASE sendBulkToSlave(c)
    <2> DEFINE k == [cl[c] EXCEPT !.state = "ONLINE", !.wh = TRUE, !.onack = FALSE, !.rdb = NoRdb]
               r == Marked(cl[c].rdb, cl[c])
               es == << <<"bulk", r>> >>
    <2>1. chan' = MSend(chan, c, es) BY <1>6 DEF sendBulkToSlave
    <2>2. r \in Rdb BY <1>2 DEF Marked, Rdb
    <2> HIDE DEF r
    <2>3. es \in Seq(Msg) /\ ~HeadCont(es)
      <3>1. <<"bulk", r>> \in Msg BY <2>2, MakesMsg
      <3>2. Head(es) = <<"bulk", r>> OBVIOUS
      <3>3. Head(es)[1] = "bulk" BY <3>2
      <3> QED BY <3>1, <3>3 DEF HeadCont
    <2> HIDE DEF es
    <2>4. ChanTypes' /\ LinkInv' BY <1>3, <2>1, <2>3, SendStep DEF svars
    <2>5. cl' = [cl EXCEPT ![c] = k]
      <3>1. cl' = [cl EXCEPT ![c].state = "ONLINE", ![c].wh = TRUE, ![c].onack = FALSE,
                             ![c].rdb = NoRdb]
        BY <1>6 DEF sendBulkToSlave
      <3> QED BY <1>1, <3>1
    <2>6. k \in Client /\ k.state = "ONLINE"
      <3>1. [cl[c] EXCEPT !.state = "ONLINE"] \in Client BY <1>1 DEF Client
      <3>2. [cl[c] EXCEPT !.state = "ONLINE", !.wh = TRUE] \in Client BY <3>1 DEF Client
      <3>3. [cl[c] EXCEPT !.state = "ONLINE", !.wh = TRUE, !.onack = FALSE] \in Client
        BY <3>2 DEF Client
      <3>4. k \in Client BY <3>3, InitialTypes DEF Client
      <3>5. k.state = "ONLINE" BY <1>1 DEF Client
      <3> QED BY <3>4, <3>5
    <2>7. cl[c].state = "BULK" BY <1>6 DEF sendBulkToSlave
    <2> HIDE DEF k
    <2>8. ClientTypes' BY <1>3, <2>5, <2>6, <2>7, ClientStep
    <2> QED BY <1>4, <2>4, <2>8
  <1> QED BY <1>5, <1>6

\* freeClient.
LEMMA FreeStep ==
    ASSUME TypeInv, NEW cs \in SUBSET Conns, freeClients(cs), UNCHANGED <<bl, rs, sc, cached>>
    PROVE  ClientTypes' /\ ChanTypes' /\ LinkInv'
  <1> USE DEF TypeInv
  <1>1. chan \in [Conns -> Channel] BY DEF ChanTypes
  <1>2. chan' = MClose(chan, cs) BY DEF freeClients
  <1>3. ChanTypes' BY <1>1, <1>2, MCloseIs DEF ChanTypes
  <1>4. LinkInv' BY <1>1, <1>2, <1>3, QuietClose, QuietLinks
  <1>5. /\ slaves' \in Seq(Conns) /\ IsInjective(slaves')
        /\ Range(slaves') = Range(slaves) \ cs
    BY WithoutIs DEF freeClients, ClientTypes
  <1>6. cl' = [c \in Conns |-> IF c \in cs THEN NewClient ELSE cl[c]] BY DEF freeClients
  <1>7. cl' \in [Conns -> Client] BY <1>6, InitialTypes DEF ClientTypes
  <1>8. \A c \in Conns : (cl'[c].state # "NONE") = (c \in Range(slaves'))
    <2> TAKE c \in Conns
    <2>1. CASE c \in cs
      <3>1. cl'[c].state = "NONE" BY <1>6, <2>1 DEF NewClient
      <3> QED BY <1>5, <2>1, <3>1
    <2>2. CASE c \notin cs
      <3>1. cl'[c] = cl[c] BY <1>6, <2>2
      <3> QED BY <1>5, <2>2, <3>1 DEF ClientTypes
    <2> QED BY <2>1, <2>2
  <1>9. slaves' # << >> => bl'.on
    <2> SUFFICES ASSUME slaves' # << >> PROVE bl.on OBVIOUS
    <2>1. 1 \in DOMAIN slaves' BY <1>5
    <2>2. slaves'[1] \in Range(slaves) BY <1>5, <2>1 DEF Range
    <2>3. slaves # << >> BY <2>2 DEF Range
    <2> QED BY <2>3 DEF ClientTypes
  <1> QED BY <1>3, <1>4, <1>5, <1>7, <1>8, <1>9 DEF ClientTypes

\* The end of a connection, a slave dropped by replicationCron.
LEMMA TypesFree ==
    ASSUME TypeInv, NEW c \in Conns, MasterReadEof(c) \/ MasterDropsSlave(c)
    PROVE  TypeInv'
  <1> USE DEF TypeInv
  <1>1. /\ freeClients({c})
        /\ UNCHANGED <<diskless, runid, mdata, seldb, moff, bl, child, rdbfile, svars, hist, pos>>
    BY DEF MasterReadEof, MasterDropsSlave, hvars
  <1>2. used' \in Used /\ used'.event <= MaxEvents /\ used.event <= used'.event
    <2>1. CASE UNCHANGED used BY <2>1 DEF MasterTypes, Used
    <2>2. CASE Spend("event", MaxEvents) BY <2>2, SpendType
    <2> QED BY <2>1, <2>2 DEF MasterReadEof, MasterDropsSlave, hvars
  <1>3. MasterTypes' BY <1>1, <1>2 DEF MasterTypes, Used
  <1>4. SlaveTypes' BY <1>1 DEF SlaveTypes, svars
  <1>5. ClientTypes' /\ ChanTypes' /\ LinkInv' BY <1>1, FreeStep DEF svars
  <1> QED BY <1>3, <1>4, <1>5

\* The backlog expires, BGSAVE, REPLCONF ACK.
LEMMA TypesSmall ==
    ASSUME TypeInv, BacklogExpires \/ bgsaveCommand \/ (\E c \in Conns : replconfAck(c))
    PROVE  TypeInv'
  <1> USE DEF TypeInv
  <1>1. CASE BacklogExpires
    <2>1. UNCHANGED <<diskless, runid, mdata, seldb, moff, slaves, cl, child, rdbfile, chan, svars, hvars>>
      BY <1>1 DEF BacklogExpires
    <2>2. bl' = NoBacklog /\ slaves = << >> BY <1>1 DEF BacklogExpires
    <2>3. bl' \in [on : BOOLEAN, win : Seq(Elem)] /\ Len(bl'.win) <= BacklogSize
      BY <2>2, ReplAssumption DEF NoBacklog
    <2> QED BY <2>1, <2>2, <2>3
        DEF MasterTypes, ClientTypes, ChanTypes, SlaveTypes, LinkInv, svars, hvars
  <1>2. CASE bgsaveCommand
    <2>1. UNCHANGED <<diskless, runid, mdata, seldb, moff, bl, slaves, cl, rdbfile, chan, svars, hist, pos>>
      BY <1>2 DEF bgsaveCommand
    <2>2. used' \in Used /\ used'.event <= MaxEvents /\ used.event <= used'.event
      BY <1>2, SpendType DEF bgsaveCommand
    <2>3. child' \in ChildType
      <3>1. [data |-> mdata, snap |-> moff] \in Rdb BY DEF MasterTypes, Rdb
      <3>2. child' = DiskChild(moff) BY <1>2 DEF bgsaveCommand
      <3> QED BY <3>1, <3>2 DEF DiskChild, NoChild, ChildType
    <2>4. MasterTypes' BY <2>1, <2>2, <2>3 DEF MasterTypes, Used
    <2> QED BY <2>1, <2>4 DEF ClientTypes, ChanTypes, SlaveTypes, LinkInv, svars
  <1>3. CASE \E c \in Conns : replconfAck(c)
    <2>1. PICK c \in Conns : replconfAck(c) BY <1>3
    <2>2. UNCHANGED <<diskless, runid, mdata, seldb, moff, bl, slaves, child, rdbfile, svars, hvars>>
      BY <2>1 DEF replconfAck
    <2>3. MasterTypes' /\ SlaveTypes' BY <2>2 DEF MasterTypes, SlaveTypes, svars, hvars
    <2> DEFINE j == [chan[c] EXCEPT !.s2m = Tail(@)]
    <2>4. chan' = [chan EXCEPT ![c] = j] /\ chan[c].s2m # << >>
      BY <2>1 DEF replconfAck
    <2>5. chan \in [Conns -> Channel] /\ chan[c] \in Channel BY DEF ChanTypes
    <2>6. j \in Channel /\ Quiet(chan[c], j) BY <2>4, <2>5, QuietRead
    <2> HIDE DEF j
    <2>7. ChanTypes' /\ LinkInv'
      <3>1. chan' \in [Conns -> Channel] /\ chan'[c] = j /\ \A d \in Conns : d # c => chan'[d] = chan[d]
        BY <2>4, <2>5, <2>6
      <3> QED BY <2>2, <2>6, <3>1, ChannelStep DEF svars
    <2>8. ClientTypes'
      <3> DEFINE k == [cl[c] EXCEPT !.onack = FALSE, !.wh = TRUE]
      <3>1. cl \in [Conns -> Client] /\ cl[c] \in Client BY DEF ClientTypes
      <3>2. cl' = cl \/ cl' = [cl EXCEPT ![c] = k]
        <4>1. cl' = cl \/ cl' = [cl EXCEPT ![c].onack = FALSE, ![c].wh = TRUE]
          BY <2>1 DEF replconfAck
        <4> QED BY <3>1, <4>1
      <3>3. k \in Client /\ k.state = cl[c].state
        <4>1. [cl[c] EXCEPT !.onack = FALSE] \in Client BY <3>1 DEF Client
        <4>2. k \in Client BY <4>1 DEF Client
        <4>3. k.state = cl[c].state BY <3>1 DEF Client
        <4> QED BY <4>2, <4>3
      <3> HIDE DEF k
      <3>4. CASE cl' = cl BY <2>2, <3>4 DEF ClientTypes
      <3>5. CASE cl' = [cl EXCEPT ![c] = k] BY <2>2, <3>3, <3>5, ClientStep
      <3> QED BY <3>2, <3>4, <3>5
    <2> QED BY <2>3, <2>7, <2>8
  <1> QED BY <1>1, <1>2, <1>3

\* The master reads a request and answers on the same connection.
LEMMA AnswerIs ==
    ASSUME ChanTypes, NEW c \in Conns, chan[c].s2m # << >>, NEW es \in Seq(Msg),
           chan' = MSend([chan EXCEPT ![c].s2m = Tail(@)], c, es)
    PROVE  /\ chan' \in [Conns -> Channel]
           /\ \A d \in Conns : d # c => chan'[d] = chan[d]
           /\ chan'[c].s = chan[c].s /\ chan'[c].mopen = chan[c].mopen
           /\ chan'[c].sopen = chan[c].sopen /\ chan'[c].net = chan[c].net
           /\ chan'[c].s2m = Tail(chan[c].s2m)
           /\ chan'[c].m2s = IF chan[c].net /\ chan[c].sopen THEN chan[c].m2s \o es ELSE chan[c].m2s
           /\ ~HeadCont(es) => Quiet(chan[c], chan'[c])
  <1> DEFINE j == [chan[c] EXCEPT !.s2m = Tail(@)]
             ch == [chan EXCEPT ![c] = j]
             i == [j EXCEPT !.m2s = @ \o es]
  <1>1. chan \in [Conns -> Channel] /\ chan[c] \in Channel BY DEF ChanTypes
  <1>2. j \in Channel /\ Quiet(chan[c], j) BY <1>1, QuietRead
  <1>3. chan' = MSend(ch, c, es) OBVIOUS
  <1>4. /\ j.s = chan[c].s /\ j.mopen = chan[c].mopen /\ j.sopen = chan[c].sopen
        /\ j.net = chan[c].net /\ j.m2s = chan[c].m2s /\ j.s2m = Tail(chan[c].s2m)
    BY <1>1 DEF Channel
  <1> HIDE DEF j
  <1>5. ch \in [Conns -> Channel] /\ ch[c] = j /\ \A d \in Conns : d # c => ch[d] = chan[d]
    BY <1>1, <1>2
  <1> HIDE DEF ch
  <1>6. /\ chan' \in [Conns -> Channel]
        /\ \A d \in Conns : d # c => chan'[d] = chan[d]
        /\ chan'[c] = IF j.net /\ j.sopen THEN i ELSE j
    <2> DEFINE sent == MSend(ch, c, es)
    <2>1. /\ sent \in [Conns -> Channel]
          /\ \A d \in Conns : d # c => sent[d] = ch[d]
          /\ sent[c] = IF ch[c].net /\ ch[c].sopen THEN [ch[c] EXCEPT !.m2s = @ \o es] ELSE ch[c]
      BY <1>5, MSendIs
    <2> HIDE DEF sent
    <2>2. chan' = sent BY <1>3 DEF sent
    <2> QED BY <1>5, <2>1, <2>2
  <1>7. /\ i.s = j.s /\ i.mopen = j.mopen /\ i.sopen = j.sopen
        /\ i.net = j.net /\ i.s2m = j.s2m /\ i.m2s = j.m2s \o es
    BY <1>2 DEF Channel
  <1>8. ~HeadCont(es) => Quiet(j, i) BY <1>2, QuietSend
  <1> HIDE DEF i
  <1>9. ~HeadCont(es) => Quiet(j, chan'[c]) BY <1>6, <1>8, QuietSame
  <1>10. Quiet(chan[c], j) /\ Quiet(j, chan'[c]) => Quiet(chan[c], chan'[c])
    <2> DEFINE k == chan[c]
               n == chan'[c]
    <2> HIDE DEF k, n
    <2>1. Quiet(k, j) /\ Quiet(j, n) => Quiet(k, n) BY QuietTwice
    <2> QED BY <2>1 DEF k, n
  <1> QED BY <1>2, <1>4, <1>6, <1>7, <1>9, <1>10

\* A slave more in the list.
LEMMA AttachStep ==
    ASSUME ClientTypes, NEW c \in Conns, NEW k \in Client, k.state # "NONE",
           cl[c].state = "NONE", cl' = [cl EXCEPT ![c] = k],
           slaves' = Append(slaves, c), bl'.on
    PROVE  ClientTypes'
  <1>1. slaves \in Seq(Conns) /\ IsInjective(slaves) /\ c \notin Range(slaves) BY DEF ClientTypes
  <1> DEFINE w == Append(slaves, c)
             n == Len(slaves)
  <1>2. /\ w \in Seq(Conns) /\ Len(w) = n + 1 /\ n \in Nat /\ w[n + 1] = c
        /\ DOMAIN w = 1..(n + 1) /\ DOMAIN slaves = 1..n
    BY <1>1
  <1>3. \A i \in 1..n : w[i] = slaves[i] BY <1>1
  <1> HIDE DEF w, n
  <1>4. Range(w) = Range(slaves) \cup {c}
    <2>1. ASSUME NEW x \in Range(w) PROVE x \in Range(slaves) \cup {c}
      <3>1. PICK i \in 1..(n + 1) : x = w[i] BY <1>2 DEF Range
      <3>2. i \in 1..n \/ i = n + 1 BY <1>2
      <3> QED BY <1>2, <1>3, <3>1, <3>2 DEF Range
    <2>2. ASSUME NEW x \in Range(slaves) PROVE x \in Range(w)
      <3>1. PICK i \in 1..n : x = slaves[i] BY <1>2 DEF Range
      <3>2. i \in 1..(n + 1) BY <1>2
      <3> QED BY <1>2, <1>3, <3>1, <3>2 DEF Range
    <2>3. c \in Range(w)
      <3>1. n + 1 \in 1..(n + 1) BY <1>2
      <3> QED BY <1>2, <3>1 DEF Range
    <2> QED BY <2>1, <2>2, <2>3
  <1>5. IsInjective(w)
    <2> SUFFICES ASSUME NEW a \in 1..(n + 1), NEW b \in 1..(n + 1), w[a] = w[b] PROVE a = b
      BY <1>2 DEF IsInjective
    <2>1. \A i \in 1..n : slaves[i] # c BY <1>1, <1>2 DEF Range
    <2>2. CASE a \in 1..n /\ b \in 1..n BY <1>1, <1>2, <1>3, <2>2 DEF IsInjective
    <2>3. CASE a = n + 1 /\ b \in 1..n BY <1>2, <1>3, <2>1, <2>3
    <2>4. CASE b = n + 1 /\ a \in 1..n BY <1>2, <1>3, <2>1, <2>4
    <2>5. CASE a = n + 1 /\ b = n + 1 BY <2>5
    <2> QED BY <1>2, <2>2, <2>3, <2>4, <2>5
  <1>6. slaves' = w BY DEF w
  <1>7. cl' \in [Conns -> Client] BY DEF ClientTypes
  <1>8. \A d \in Conns : (cl'[d].state # "NONE") = (d \in Range(slaves'))
    <2> TAKE d \in Conns
    <2>1. CASE d = c BY <1>4, <1>6, <2>1 DEF ClientTypes
    <2>2. CASE d # c BY <1>4, <1>6, <2>2 DEF ClientTypes
    <2> QED BY <2>1, <2>2
  <1> QED BY <1>2, <1>5, <1>6, <1>7, <1>8 DEF ClientTypes

\* Masters that accept a partial resynchronization.
LEMMA TypesPartial ==
    ASSUME TypeInv, NEW c \in Conns, chan[c].s2m # << >>, cl[c].state = "NONE",
           NEW run, NEW off \in Int, Head(chan[c].s2m) = <<"PSYNC", run, off>>,
           CanContinue(run, off), AcceptPartial(c, off)
    PROVE  TypeInv'
  <1> USE DEF TypeInv
  <1>1. UNCHANGED <<diskless, runid, mdata, seldb, moff, bl, child, rdbfile, svars, hvars>>
    BY DEF AcceptPartial
  <1>2. MasterTypes' /\ SlaveTypes' BY <1>1 DEF MasterTypes, SlaveTypes, svars, hvars
  <1>3. ClientTypes'
    <2> DEFINE new == [NewClient EXCEPT !.state = "ONLINE"]
               es == SubSeq(bl.win, off - BacklogOff + 1, Len(bl.win))
               k == AddReply(new, es)
    <2>1. new \in Client /\ new.state = "ONLINE"
      <3>1. NewClient \in Client BY InitialTypes
      <3> QED BY <3>1 DEF Client
    <2>2. es \in Seq(Reply)
      <3>1. bl.win \in Seq(Elem) /\ Len(bl.win) \in Nat /\ moff \in Nat BY DEF MasterTypes
      <3>2. off - BacklogOff + 1 \in Int /\ off - BacklogOff + 1 >= 1
        BY <3>1 DEF BacklogOff, CanContinue
      <3>3. \A i \in (off - BacklogOff + 1)..Len(bl.win) : bl.win[i] \in Reply
        BY <3>1, <3>2, MakesMsg
      <3> QED BY <3>1, <3>2, <3>3, SubSeqProperties
    <2>3. k \in Client /\ k.state = "ONLINE"
      <3> HIDE DEF new, es
      <3> QED BY <2>1, <2>2, AddReplyIs
    <2>4. cl' = [cl EXCEPT ![c] = k] /\ slaves' = Append(slaves, c) /\ bl'.on
      BY <1>1 DEF AcceptPartial, CanContinue
    <2> HIDE DEF k
    <2> QED BY <2>3, <2>4, AttachStep
  <1> DEFINE es == << <<"cont">> >>
  <1>4. es \in Seq(Msg) BY MakesMsg
  <1>5. chan' = MSend([chan EXCEPT ![c].s2m = Tail(@)], c, es) BY DEF AcceptPartial
  <1> HIDE DEF es
  <1>6. /\ chan' \in [Conns -> Channel]
        /\ \A d \in Conns : d # c => chan'[d] = chan[d]
        /\ chan'[c].s = chan[c].s /\ chan'[c].sopen = chan[c].sopen
        /\ chan'[c].s2m = Tail(chan[c].s2m)
    BY <1>4, <1>5, AnswerIs
  <1>7. chan[c].s2m \in Seq(Request) BY DEF ChanTypes, Channel
  <1>8. LinkInv'
    <2> SUFFICES ASSUME NEW s \in Slaves, sc[s] # NoConn
                 PROVE  LinkOK(s, chan'[sc[s]], rs[s], cached[s])
      BY <1>1 DEF LinkInv, svars
    <2>1. sc[s] \in Conns BY DEF SlaveTypes
    <2>2. LinkOK(s, chan[sc[s]], rs[s], cached[s]) BY DEF LinkInv
    <2>3. CASE sc[s] # c BY <1>6, <2>1, <2>2, <2>3
    <2>4. CASE sc[s] = c
      <3>1. 1 \in 1..Len(chan[c].s2m) /\ chan[c].s2m[1] = <<"PSYNC", run, off>> BY <1>7
      <3>2. run >= 0 BY DEF CanContinue, MasterTypes
      <3>3. chan[c].s2m[1][1] = "PSYNC" /\ chan[c].s2m[1][2] >= 0 BY <3>1, <3>2
      <3>4. rs[s] # "CONNECTING" BY <2>2, <2>4 DEF LinkOK
      <3>5. rs[s] = "PSYNC" => cached[s].on BY <2>2, <2>4, <3>1, <3>3 DEF LinkOK
      <3> QED BY <1>6, <2>2, <2>4, <3>4, <3>5 DEF LinkOK
    <2> QED BY <2>3, <2>4
  <1>9. ChanTypes' BY <1>6 DEF ChanTypes
  <1> QED BY <1>2, <1>3, <1>8, <1>9

\* The client syncCommand attaches.
LEMMA AttachIs ==
    ASSUME ClientTypes, NEW c \in Conns
    PROVE  Attach(c) \in Client /\ Attach(c).state \in {"START", "END"}
  <1> DEFINE ends == {i \in 1..Len(slaves) : cl[slaves[i]].state = "END"}
             i == Min(ends)
  <1>1. cl \in [Conns -> Client] /\ slaves \in Seq(Conns) BY DEF ClientTypes
  <1>2. cl[c] \in Client BY <1>1
  <1>3. CASE child.type = "DISK" /\ ends # {}
    <2>1. ends \subseteq Nat OBVIOUS
    <2>2. i \in ends BY <1>3, <2>1, MinIn
    <2>3. slaves[i] \in Conns BY <1>1, <2>2
    <2>4. cl[slaves[i]].out \in Seq(Reply) BY <1>1, <2>3 DEF Client
    <2>5. Attach(c) = [cl[c] EXCEPT !.state = "END", !.out = cl[slaves[i]].out]
      BY <1>3 DEF Attach
    <2> DEFINE o == cl[slaves[i]].out
    <2> HIDE DEF o, i, ends
    <2>6. [cl[c] EXCEPT !.state = "END"] \in Client BY <1>2 DEF Client
    <2>7. [cl[c] EXCEPT !.state = "END", !.out = o] \in Client BY <2>4, <2>6 DEF Client, o
    <2>8. [cl[c] EXCEPT !.state = "END", !.out = o].state = "END" BY <1>2 DEF Client
    <2> QED BY <2>5, <2>7, <2>8 DEF o
  <1>4. CASE ~(child.type = "DISK" /\ ends # {})
    <2>1. \/ Attach(c) = [cl[c] EXCEPT !.state = "END"]
          \/ Attach(c) = [cl[c] EXCEPT !.state = "START"]
      BY <1>4 DEF Attach
    <2> QED BY <1>2, <2>1 DEF Client
  <1> QED BY <1>3, <1>4

\* A fork spent, or none.
LEMMA ForkType ==
    ASSUME MasterTypes, NEW b \in BOOLEAN, used' = [used EXCEPT !.fork = @ + UsedFork(b)]
    PROVE  used' \in Used /\ used'.event = used.event
  <1>1. UsedFork(b) \in Nat BY DEF UsedFork
  <1> QED BY <1>1 DEF MasterTypes, Used

\* The history when a slave attaches.
LEMMA HistAttach ==
    ASSUME MasterTypes
    PROVE  /\ [hist EXCEPT ![runid] = Append(@, [db |-> -1, data |-> mdata])]
                \in [0..runid -> Seq(Point)]
           /\ [hist EXCEPT ![runid][moff + 1].db = -1] \in [0..runid -> Seq(Point)]
  <1> DEFINE h == hist[runid]
             p == [h[moff + 1] EXCEPT !.db = -1]
  <1>1. hist \in [0..runid -> Seq(Point)] /\ runid \in 0..runid BY DEF MasterTypes
  <1>2. h \in Seq(Point) BY <1>1
  <1>3. [db |-> -1, data |-> mdata] \in Point BY DEF MasterTypes, Point
  <1>4. Append(h, [db |-> -1, data |-> mdata]) \in Seq(Point) BY <1>2, <1>3
  <1>5. [hist EXCEPT ![runid][moff + 1].db = -1] = [hist EXCEPT ![runid] = [h EXCEPT ![moff + 1] = p]]
    BY <1>1
  <1>6. [h EXCEPT ![moff + 1] = p] \in Seq(Point)
    <2>1. CASE moff + 1 \in 1..Len(h)
      <3>1. h[moff + 1] \in Point BY <1>2, <2>1
      <3>2. p \in Point BY <3>1 DEF Point
      <3> HIDE DEF p, h
      <3> QED BY <1>2, <2>1, <3>2
    <2>2. CASE moff + 1 \notin 1..Len(h)
      <3> HIDE DEF p, h
      <3>1. [h EXCEPT ![moff + 1] = p] = h BY <1>2, <2>2
      <3> QED BY <1>2, <3>1
    <2> QED BY <2>1, <2>2
  <1> HIDE DEF h, p
  <1> QED BY <1>1, <1>4, <1>5, <1>6 DEF h

\* A full synchronization.
LEMMA TypesFullSync ==
    ASSUME TypeInv, NEW c \in Conns, chan[c].s2m # << >>, cl[c].state = "NONE",
           NEW line \in Seq(Msg), ~HeadCont(line), NEW forked \in BOOLEAN,
           FullSync(c, line, forked)
    PROVE  TypeInv'
  <1> USE DEF TypeInv
  <1> DEFINE noff == IF CreateBacklog THEN moff + 1 ELSE moff
             fork == child.type = "NONE" /\ ~diskless
  <1>1. /\ chan' = MSend([chan EXCEPT ![c].s2m = Tail(@)], c, line)
        /\ used' = [used EXCEPT !.fork = @ + UsedFork(forked)]
        /\ UNCHANGED <<diskless, runid, mdata, rdbfile, svars, pos>>
    BY DEF FullSync
  <1>2. used' \in Used /\ used'.event = used.event BY <1>1, ForkType
  <1>3. SlaveTypes' BY <1>1 DEF SlaveTypes, svars
  <1>4. ChanTypes' /\ LinkInv'
    <2>1. /\ chan' \in [Conns -> Channel]
          /\ \A d \in Conns : d # c => chan'[d] = chan[d]
          /\ Quiet(chan[c], chan'[c])
      BY <1>1, AnswerIs
    <2> QED BY <1>1, <2>1, ChannelStep DEF svars
  <1>5. moff \in Nat /\ noff \in Nat /\ mdata \in Data BY DEF MasterTypes
  <1>6. CASE fork /\ ~forked
    <2>1. /\ cl' = [cl EXCEPT ![c] = AddReply(cl[c], << <<"err">> >>)]
          /\ UNCHANGED <<child, seldb, slaves, bl, moff, hist>>
      BY <1>6 DEF FullSync
    <2>2. MasterTypes' BY <1>1, <1>2, <2>1 DEF MasterTypes
    <2> DEFINE es == << <<"err">> >>
               k == AddReply(cl[c], es)
    <2>3. es \in Seq(Reply) /\ cl[c] \in Client BY MakesMsg DEF ClientTypes
    <2>4. k \in Client /\ k.state = cl[c].state
      <3> HIDE DEF es
      <3> QED BY <2>3, AddReplyIs
    <2> HIDE DEF k
    <2>5. ClientTypes'
      <3>1. cl' = [cl EXCEPT ![c] = k] BY <2>1 DEF k
      <3> QED BY <2>1, <2>4, <3>1, ClientStep
    <2> QED BY <1>3, <1>4, <2>2, <2>5
  <1>7. CASE ~(fork /\ ~forked)
    <2>1. /\ child' = IF fork THEN DiskChild(noff) ELSE child
          /\ cl' = [cl EXCEPT ![c] = Attach(c)]
          /\ seldb' = -1
          /\ slaves' = Append(slaves, c)
          /\ bl' = [bl EXCEPT !.on = TRUE]
          /\ moff' = noff
          /\ hist' = IF CreateBacklog
                     THEN [hist EXCEPT ![runid] = Append(@, [db |-> -1, data |-> mdata])]
                     ELSE [hist EXCEPT ![runid][moff + 1].db = -1]
      BY <1>7 DEF FullSync
    <2>2. child' \in ChildType
      <3>1. [data |-> mdata, snap |-> noff] \in Rdb BY <1>5 DEF Rdb
      <3>2. DiskChild(noff) \in ChildType BY <3>1 DEF DiskChild, NoChild, ChildType
      <3> QED BY <2>1, <3>2 DEF MasterTypes
    <2>3. hist' \in [0..runid -> Seq(Point)]
      <3> HIDE DEF TypeInv
      <3>1. MasterTypes BY DEF TypeInv
      <3>2. CASE CreateBacklog BY <2>1, <3>1, <3>2, HistAttach
      <3>3. CASE ~CreateBacklog BY <2>1, <3>1, <3>3, HistAttach
      <3> QED BY <3>2, <3>3
    <2>4. bl' \in [on : BOOLEAN, win : Seq(Elem)] /\ Len(bl'.win) <= BacklogSize /\ bl'.on
      <3>1. bl \in [on : BOOLEAN, win : Seq(Elem)] /\ Len(bl.win) <= BacklogSize BY DEF MasterTypes
      <3> QED BY <2>1, <3>1
    <2>5. MasterTypes'
      <3> HIDE DEF noff, fork
      <3> QED BY <1>1, <1>2, <1>5, <2>1, <2>2, <2>3, <2>4 DEF MasterTypes
    <2>6. Attach(c) \in Client /\ Attach(c).state \in {"START", "END"} BY AttachIs
    <2>7. ClientTypes'
      <3> DEFINE k == Attach(c)
      <3>1. k \in Client /\ k.state # "NONE" /\ cl' = [cl EXCEPT ![c] = k] BY <2>1, <2>6
      <3> HIDE DEF k
      <3> QED BY <2>1, <2>4, <3>1, AttachStep
    <2> QED BY <1>3, <1>4, <2>5, <2>7
  <1> QED BY <1>6, <1>7

\* What a request carries.
LEMMA RequestIs ==
    ASSUME NEW e \in Request, e[1] = "PSYNC"
    PROVE  e[2] \in Int /\ e[3] \in Int /\ e = <<"PSYNC", e[2], e[3]>>
  <1>1. e # <<"SYNC">> /\ e # <<"ACK">> OBVIOUS
  <1>2. PICK r \in Int, o \in Int : e = <<"PSYNC", r, o>> BY <1>1 DEF Request
  <1> QED BY <1>2

\* SYNC and PSYNC.
LEMMA TypesSync ==
    ASSUME TypeInv, NEW c \in Conns, syncCommand(c)
    PROVE  TypeInv'
  <1> USE DEF TypeInv
  <1> DEFINE msg == Head(chan[c].s2m)
  <1>1. chan \in [Conns -> Channel] /\ chan[c] \in Channel BY DEF ChanTypes
  <1>2. chan[c].s2m \in Seq(Request) BY <1>1 DEF Channel
  <1>3. chan[c].s2m # << >> /\ msg[1] \in {"PSYNC", "SYNC"} BY DEF syncCommand
  <1>4. msg \in Request BY <1>2, <1>3
  <1>5. CASE cl[c].state # "NONE"
    <2> DEFINE j == [chan[c] EXCEPT !.s2m = Tail(@)]
    <2>1. chan' = [chan EXCEPT ![c] = j] /\ UNCHANGED <<mvars, svars, hvars>>
      BY <1>5 DEF syncCommand
    <2>2. j \in Channel /\ Quiet(chan[c], j) BY <1>1, <1>3, QuietRead
    <2> HIDE DEF j
    <2>3. chan' \in [Conns -> Channel] /\ chan'[c] = j /\ \A d \in Conns : d # c => chan'[d] = chan[d]
      BY <1>1, <2>1, <2>2
    <2>4. ChanTypes' /\ LinkInv' BY <2>1, <2>2, <2>3, ChannelStep DEF svars
    <2>5. MasterTypes' /\ ClientTypes' /\ SlaveTypes'
      BY <2>1 DEF MasterTypes, ClientTypes, SlaveTypes, mvars, svars, hvars
    <2> QED BY <2>4, <2>5
  <1>6. CASE cl[c].state = "NONE" /\ msg[1] = "PSYNC" /\ CanContinue(msg[2], msg[3])
    <2> DEFINE run == msg[2]
               off == msg[3]
    <2>1. AcceptPartial(c, off) BY <1>6 DEF syncCommand
    <2>2. off \in Int /\ msg = <<"PSYNC", run, off>> BY <1>4, <1>6, RequestIs
    <2>3. CanContinue(run, off) BY <1>6
    <2> HIDE DEF run, off, TypeInv
    <2> QED BY <1>3, <1>6, <2>1, <2>2, <2>3, TypesPartial
  <1>7. CASE cl[c].state = "NONE" /\ ~(msg[1] = "PSYNC" /\ CanContinue(msg[2], msg[3]))
    <2> DEFINE line == IF msg[1] = "PSYNC" THEN FullResyncLine ELSE << >>
    <2>1. \E forked \in BOOLEAN : FullSync(c, line, forked) BY <1>7 DEF syncCommand
    <2>2. line \in Seq(Msg) /\ ~HeadCont(line)
      <3> DEFINE o == IF bl.on THEN moff ELSE moff + 1
                 q == << <<"full", runid, o>> >>
      <3>1. runid \in Nat /\ o \in Nat BY DEF MasterTypes
      <3> HIDE DEF o
      <3>2. q \in Seq(Msg) BY <3>1, MakesMsg
      <3>3. Head(q) = <<"full", runid, o>> OBVIOUS
      <3>4. Head(q)[1] = "full" BY <3>3
      <3>5. FullResyncLine = q BY DEF FullResyncLine, o
      <3> HIDE DEF q
      <3>6. CASE msg[1] = "PSYNC"
        <4>1. line = q BY <3>5, <3>6
        <4> QED BY <3>2, <3>4, <4>1 DEF HeadCont
      <3>7. CASE msg[1] # "PSYNC"
        <4>1. line = << >> BY <3>7
        <4>2. << >> \in Seq(Msg) /\ ~HeadCont(<< >>) BY DEF HeadCont
        <4> HIDE DEF line
        <4> QED BY <4>1, <4>2
      <3> QED BY <3>6, <3>7
    <2> HIDE DEF line, TypeInv
    <2> QED BY <1>3, <1>7, <2>1, <2>2, TypesFullSync
  <1> QED BY <1>5, <1>6, <1>7

\* Clients moved to another state of the handshake.
LEMMA SetStateIs ==
    ASSUME NEW k \in [Conns -> Client], NEW cs \in SUBSET Conns, \A c \in cs : k[c].state # "NONE"
    PROVE  /\ SetState(k, cs, "END") \in [Conns -> Client]
           /\ \A c \in Conns :
                /\ (SetState(k, cs, "END")[c].state # "NONE") = (k[c].state # "NONE")
                /\ c \notin cs => SetState(k, cs, "END")[c] = k[c]
                /\ c \in cs => SetState(k, cs, "END")[c] = [k[c] EXCEPT !.state = "END"]
  <1>1. \A c \in Conns : k[c] \in Client OBVIOUS
  <1>2. \A c \in Conns : /\ [k[c] EXCEPT !.state = "END"] \in Client
                         /\ [k[c] EXCEPT !.state = "END"].state = "END"
    BY <1>1 DEF Client
  <1>3. SetState(k, cs, "END") = [c \in Conns |-> IF c \in cs THEN [k[c] EXCEPT !.state = "END"] ELSE k[c]]
    BY DEF SetState
  <1> QED BY <1>1, <1>2, <1>3

\* startBgsaveForReplication: the types of the clients and of the child.
LEMMA BgsaveTypes ==
    ASSUME MasterTypes, NEW k \in [Conns -> Client], NEW ss \in Seq(Conns), NEW forked \in BOOLEAN
    PROVE  /\ BgsaveClients(k, ss) \in [Conns -> Client]
           /\ \A c \in Conns : (BgsaveClients(k, ss)[c].state # "NONE") = (k[c].state # "NONE")
           /\ BgsaveChild(k, ss, moff, forked) \in ChildType
  <1> DEFINE cs == InState(k, ss, "START")
  <1>1. cs \subseteq Conns /\ \A c \in cs : k[c].state # "NONE"
    <2>1. Range(ss) \subseteq Conns BY DEF Range
    <2> QED BY <2>1 DEF InState
  <1>2. BgsaveClients(k, ss) = IF diskless THEN SetState(k, cs, "END") ELSE k BY DEF BgsaveClients
  <1> HIDE DEF cs
  <1>3. /\ SetState(k, cs, "END") \in [Conns -> Client]
        /\ \A c \in Conns : (SetState(k, cs, "END")[c].state # "NONE") = (k[c].state # "NONE")
    BY <1>1, SetStateIs
  <1>4. /\ BgsaveClients(k, ss) \in [Conns -> Client]
        /\ \A c \in Conns : (BgsaveClients(k, ss)[c].state # "NONE") = (k[c].state # "NONE")
    BY <1>2, <1>3
  <1>5. BgsaveChild(k, ss, moff, forked) \in ChildType
    <2>1. [data |-> mdata, snap |-> moff] \in Rdb BY DEF MasterTypes, Rdb
    <2>2. DiskChild(moff) \in ChildType BY <2>1 DEF DiskChild, NoChild, ChildType
    <2>3. SocketChild(moff, cs) \in ChildType BY <1>1, <2>1 DEF SocketChild, NoChild, ChildType
    <2>4. BgsaveChild(k, ss, moff, forked) \in {NoChild, DiskChild(moff), SocketChild(moff, cs)}
      BY DEF BgsaveChild, cs
    <2> QED BY <2>2, <2>3, <2>4, InitialTypes
  <1> QED BY <1>4, <1>5

\* The cron starts a child.
LEMMA TypesCron ==
    ASSUME TypeInv, NEW forked \in BOOLEAN, CronBgsave(forked)
    PROVE  TypeInv'
  <1> USE DEF TypeInv
  <1>1. /\ used' = [used EXCEPT !.fork = @ + UsedFork(forked)]
        /\ child' = BgsaveChild(cl, slaves, moff, forked)
        /\ UNCHANGED <<diskless, runid, mdata, seldb, moff, bl, slaves, rdbfile, chan, svars,
                       hist, pos>>
    BY DEF CronBgsave
  <1>2. used' \in Used /\ used'.event = used.event BY <1>1, ForkType
  <1>3. cl \in [Conns -> Client] /\ slaves \in Seq(Conns) BY DEF ClientTypes
  <1>4. /\ BgsaveClients(cl, slaves) \in [Conns -> Client]
        /\ \A c \in Conns : (BgsaveClients(cl, slaves)[c].state # "NONE") = (cl[c].state # "NONE")
        /\ BgsaveChild(cl, slaves, moff, forked) \in ChildType
    BY <1>3, BgsaveTypes
  <1>5. MasterTypes' BY <1>1, <1>2, <1>4 DEF MasterTypes
  <1> DEFINE waiting == InState(cl, slaves, "START")
  <1>6. /\ SetState(cl, waiting, "END") \in [Conns -> Client]
        /\ \A c \in Conns : (SetState(cl, waiting, "END")[c].state # "NONE") = (cl[c].state # "NONE")
    <2>1. waiting \subseteq Conns /\ \A c \in waiting : cl[c].state # "NONE"
      <3>1. Range(slaves) \subseteq Conns BY <1>3 DEF Range
      <3> QED BY <3>1 DEF InState
    <2> HIDE DEF waiting
    <2> QED BY <1>3, <2>1, SetStateIs
  <1>7. cl' = SetState(cl, waiting, "END") \/ cl' = BgsaveClients(cl, slaves) BY DEF CronBgsave
  <1> HIDE DEF waiting
  <1>8. cl' \in [Conns -> Client] /\ \A c \in Conns : (cl'[c].state # "NONE") = (cl[c].state # "NONE")
    BY <1>4, <1>6, <1>7
  <1>9. ClientTypes' BY <1>1, <1>8 DEF ClientTypes
  <1>10. ChanTypes' /\ SlaveTypes' /\ LinkInv' BY <1>1 DEF ChanTypes, SlaveTypes, LinkInv, svars
  <1> QED BY <1>5, <1>9, <1>10

\* The socket child writes.
LEMMA TypesSocketWrites ==
    ASSUME TypeInv, SocketChildWrites
    PROVE  TypeInv'
  <1> USE DEF TypeInv
  <1> DEFINE live == {c \in child.ids : chan[c].net /\ chan[c].sopen}
             m(c) == <<"eof", Marked(child.rdb, cl[c])>>
             j(c) == [chan[c] EXCEPT !.m2s = Append(@, m(c))]
  <1>1. UNCHANGED <<diskless, runid, mdata, seldb, moff, bl, slaves, cl, rdbfile, svars, hvars>>
    BY DEF SocketChildWrites
  <1>2. chan' = [c \in Conns |-> IF c \in live THEN j(c) ELSE chan[c]] BY DEF SocketChildWrites
  <1>3. child' = [child EXCEPT !.wrote = TRUE, !.ids = live] BY DEF SocketChildWrites
  <1>4. child \in ChildType /\ child.rdb \in Rdb /\ live \subseteq Conns BY DEF MasterTypes, ChildType
  <1>5. child' \in ChildType
    <2> HIDE DEF live
    <2>1. [child EXCEPT !.wrote = TRUE] \in ChildType BY <1>4 DEF ChildType
    <2> QED BY <1>3, <1>4, <2>1 DEF ChildType
  <1>6. MasterTypes' BY <1>1, <1>5 DEF MasterTypes, hvars
  <1>7. ClientTypes' /\ SlaveTypes' BY <1>1 DEF ClientTypes, SlaveTypes, svars, hvars
  <1> HIDE DEF live
  <1>8. ASSUME NEW c \in Conns PROVE j(c) \in Channel /\ Quiet(chan[c], j(c))
    <2> DEFINE es == << m(c) >>
    <2>1. chan[c] \in Channel /\ chan[c].m2s \in Seq(Msg) BY DEF ChanTypes, Channel
    <2>2. Marked(child.rdb, cl[c]) \in Rdb BY <1>4 DEF Marked, Rdb
    <2>3. m(c) \in Msg /\ m(c)[1] = "eof" BY <2>2, MakesMsg
    <2> HIDE DEF m
    <2>4. Head(es) = m(c) /\ es \in Seq(Msg) BY <2>3
    <2>5. ~HeadCont(es) BY <2>3, <2>4 DEF HeadCont
    <2>6. j(c) = [chan[c] EXCEPT !.m2s = @ \o es] BY <2>1
    <2> HIDE DEF es
    <2>7. Quiet(chan[c], j(c)) BY <2>1, <2>4, <2>5, <2>6, QuietSend
    <2>8. chan[c].m2s \o es \in Seq(Msg) BY <2>1, <2>4
    <2>9. << >> \in Seq(Request) OBVIOUS
    <2>10. j(c) \in Channel BY <2>1, <2>6, <2>8, <2>9, ChannelWith
    <2> QED BY <2>7, <2>10
  <1> HIDE DEF j
  <1>9. ChanTypes' BY <1>2, <1>8 DEF ChanTypes
  <1>10. \A c \in Conns : Quiet(chan[c], chan'[c]) BY <1>2, <1>8, QuietSame
  <1>11. LinkInv' BY <1>1, <1>9, <1>10, QuietLinks DEF svars
  <1> QED BY <1>6, <1>7, <1>9, <1>11

\* The clients after a child ended, before the next one is started.
Moved(drop, late, ends, file) ==
    [c \in Conns |->
        CASE c \in drop -> NewClient
          [] c \in late -> [cl[c] EXCEPT !.state = "END"]
          [] c \in ends \ drop /\ child.type = "DISK" ->
                [cl[c] EXCEPT !.state = "BULK", !.wh = FALSE, !.rdb = file]
          [] c \in ends \ drop /\ child.type = "SOCKET" ->
                [cl[c] EXCEPT !.state = "ONLINE", !.onack = TRUE]
          [] OTHER -> cl[c]]

\* What becomes of one client q of connection c: k.
MovedTo(k, q, c, drop, late, ends, file) ==
    /\ c \in drop => k = NewClient
    /\ c \in late => k = [q EXCEPT !.state = "END"]
    /\ c \in ends \ drop /\ child.type = "DISK" =>
          k = [q EXCEPT !.state = "BULK", !.wh = FALSE, !.rdb = file]
    /\ c \in ends \ drop /\ child.type = "SOCKET" =>
          k = [q EXCEPT !.state = "ONLINE", !.onack = TRUE]
    /\ c \notin late \cup ends => k = q

\* One by one.
LEMMA MovedIs ==
    ASSUME NEW drop, NEW file, NEW c \in Conns, child.type \in {"DISK", "SOCKET"},
           NEW late, NEW ends, drop \subseteq ends, late \cap ends = {}
    PROVE  MovedTo(Moved(drop, late, ends, file)[c], cl[c], c, drop, late, ends, file)
  <1> DEFINE a == [cl[c] EXCEPT !.state = "END"]
             b == [cl[c] EXCEPT !.state = "BULK", !.wh = FALSE, !.rdb = file]
             d == [cl[c] EXCEPT !.state = "ONLINE", !.onack = TRUE]
             m == CASE c \in drop -> NewClient
                    [] c \in late -> a
                    [] c \in ends \ drop /\ child.type = "DISK" -> b
                    [] c \in ends \ drop /\ child.type = "SOCKET" -> d
                    [] OTHER -> cl[c]
  <1>1. Moved(drop, late, ends, file)[c] = m BY DEF Moved
  <1> HIDE DEF a, b, d
  <1>2. /\ c \in drop => m = NewClient
        /\ c \in late => m = a
        /\ c \in ends \ drop /\ child.type = "DISK" => m = b
        /\ c \in ends \ drop /\ child.type = "SOCKET" => m = d
        /\ c \notin late \cup ends => m = cl[c]
    OBVIOUS
  <1> HIDE DEF m
  <1> QED BY <1>1, <1>2 DEF a, b, d, MovedTo

\* They are clients.
LEMMA MovedTypes ==
    ASSUME ClientTypes, NEW drop, NEW late, NEW ends, NEW file \in Rdb, NEW c \in Conns,
           c \in late \cup ends => cl[c].state # "NONE",
           child.type \in {"DISK", "SOCKET"}, drop \subseteq ends, late \cap ends = {}
    PROVE  /\ Moved(drop, late, ends, file)[c] \in Client
           /\ (Moved(drop, late, ends, file)[c].state # "NONE") =
                (cl[c].state # "NONE" /\ c \notin drop)
  <1> DEFINE k == Moved(drop, late, ends, file)[c]
             q == cl[c]
  <1>1. q \in Client BY DEF ClientTypes
  <1>2. \/ c \in drop /\ k = NewClient
        \/ c \notin drop /\ c \in late /\ k = [q EXCEPT !.state = "END"]
        \/ c \notin drop /\ c \in ends /\ k = [q EXCEPT !.state = "BULK", !.wh = FALSE, !.rdb = file]
        \/ c \notin drop /\ c \in ends /\ k = [q EXCEPT !.state = "ONLINE", !.onack = TRUE]
        \/ c \notin drop /\ k = q
    <2>1. MovedTo(k, q, c, drop, late, ends, file) BY MovedIs
    <2> HIDE DEF k, q
    <2> QED BY <2>1 DEF MovedTo
  <1> HIDE DEF k, q
  <1>3. CASE c \in drop /\ k = NewClient
    <2>1. k.state = "NONE" BY <1>3 DEF NewClient
    <2> QED BY <1>3, <2>1, InitialTypes DEF k
  <1>4. CASE c \notin drop /\ c \in late /\ k = [q EXCEPT !.state = "END"]
    <2>1. k \in Client /\ k.state = "END" BY <1>1, <1>4 DEF Client
    <2> QED BY <1>4, <2>1 DEF k
  <1>5. CASE c \notin drop /\ c \in ends /\ k = [q EXCEPT !.state = "BULK", !.wh = FALSE, !.rdb = file]
    <2>1. [q EXCEPT !.state = "BULK"] \in Client BY <1>1 DEF Client
    <2>2. [q EXCEPT !.state = "BULK", !.wh = FALSE] \in Client BY <2>1 DEF Client
    <2>3. k \in Client BY <1>5, <2>2 DEF Client
    <2>4. k.state = "BULK" BY <1>1, <1>5 DEF Client
    <2> QED BY <1>5, <2>3, <2>4 DEF k
  <1>6. CASE c \notin drop /\ c \in ends /\ k = [q EXCEPT !.state = "ONLINE", !.onack = TRUE]
    <2>1. [q EXCEPT !.state = "ONLINE"] \in Client BY <1>1 DEF Client
    <2>2. k \in Client BY <1>6, <2>1 DEF Client
    <2>3. k.state = "ONLINE" BY <1>1, <1>6 DEF Client
    <2> QED BY <1>6, <2>2, <2>3 DEF k
  <1>7. CASE c \notin drop /\ k = q BY <1>1, <1>7 DEF k, q
  <1> QED BY <1>2, <1>3, <1>4, <1>5, <1>6, <1>7

\* What ChildDone closes.
DropOf(ok) ==
    LET ends == InState(cl, slaves, "END")
    IN  IF child.type = "SOCKET" THEN (IF ok THEN ends \ child.ids ELSE ends)
                                 ELSE (IF ok THEN {} ELSE ends)
\* And the file it leaves.
FileOf(ok) == IF ok /\ child.type = "DISK" THEN child.rdb ELSE rdbfile

\* ChildDone, in these terms.
LEMMA ChildDoneIs ==
    ASSUME NEW ok \in BOOLEAN, NEW forked \in BOOLEAN, ChildDone(ok, forked)
    PROVE  LET ends == InState(cl, slaves, "END")
               late == InState(cl, slaves, "START")
               drop == DropOf(ok)
               ss == Without(slaves, drop)
               moved == Moved(drop, late, ends, FileOf(ok))
           IN  /\ child.type # "NONE"
               /\ child.type = "SOCKET" /\ ok => child.wrote /\ child.ids # {}
               /\ ok \/ used.event < MaxEvents \/ (child.type = "SOCKET" /\ child.wrote /\ child.ids = {})
               /\ late # {} \/ forked
               /\ used' = [used EXCEPT
                    !.fork = @ + UsedFork(forked),
                    !.event = @ + IF ok \/ (child.type = "SOCKET" /\ child.wrote /\ child.ids = {})
                                  THEN 0 ELSE 1]
               /\ rdbfile' = FileOf(ok)
               /\ slaves' = ss
               /\ chan' = MClose(chan, drop)
               /\ child' = IF late = {} THEN NoChild ELSE BgsaveChild(moved, ss, moff, forked)
               /\ cl' = IF late = {} THEN moved ELSE BgsaveClients(moved, ss)
               /\ UNCHANGED <<diskless, runid, mdata, seldb, moff, bl, svars, hist, pos>>
  BY Zenon DEF ChildDone, Moved, DropOf, FileOf

\* The clients ChildDone is about.
LEMMA ChildDoneSets ==
    ASSUME ClientTypes, NEW ok \in BOOLEAN
    PROVE  /\ DropOf(ok) \subseteq InState(cl, slaves, "END") /\ DropOf(ok) \in SUBSET Conns
           /\ InState(cl, slaves, "START") \cap InState(cl, slaves, "END") = {}
           /\ \A c \in InState(cl, slaves, "START") \cup InState(cl, slaves, "END") :
                cl[c].state # "NONE"
  <1>1. Range(slaves) \subseteq Conns
    <2>1. slaves \in Seq(Conns) BY DEF ClientTypes
    <2> QED BY <2>1 DEF Range
  <1>2. DropOf(ok) \subseteq InState(cl, slaves, "END") BY DEF DropOf
  <1>3. InState(cl, slaves, "END") \subseteq Conns BY <1>1 DEF InState
  <1>4. InState(cl, slaves, "START") \cap InState(cl, slaves, "END") = {} BY DEF InState
  <1>5. \A c \in InState(cl, slaves, "START") \cup InState(cl, slaves, "END") : cl[c].state # "NONE"
    BY DEF InState
  <1> QED BY <1>2, <1>3, <1>4, <1>5

\* A child ends.
LEMMA TypesChildDone ==
    ASSUME TypeInv, NEW ok \in BOOLEAN, NEW forked \in BOOLEAN, ChildDone(ok, forked)
    PROVE  TypeInv'
  <1> USE DEF TypeInv
  <1> DEFINE ends == InState(cl, slaves, "END")
             late == InState(cl, slaves, "START")
             drop == DropOf(ok)
             file == FileOf(ok)
             ss == Without(slaves, drop)
             moved == Moved(drop, late, ends, file)
  <1>1. /\ child.type # "NONE"
        /\ ok \/ used.event < MaxEvents \/ (child.type = "SOCKET" /\ child.wrote /\ child.ids = {})
        /\ used' = [used EXCEPT
             !.fork = @ + UsedFork(forked),
             !.event = @ + IF ok \/ (child.type = "SOCKET" /\ child.wrote /\ child.ids = {})
                           THEN 0 ELSE 1]
        /\ rdbfile' = file
        /\ slaves' = ss
        /\ chan' = MClose(chan, drop)
        /\ child' = IF late = {} THEN NoChild ELSE BgsaveChild(moved, ss, moff, forked)
        /\ cl' = IF late = {} THEN moved ELSE BgsaveClients(moved, ss)
        /\ UNCHANGED <<diskless, runid, mdata, seldb, moff, bl, svars, hist, pos>>
    <2> HIDE DEF TypeInv
    <2> QED BY ChildDoneIs, Zenon
  <1>2. used' \in Used /\ used'.event <= MaxEvents /\ used.event <= used'.event
    <2> DEFINE u == UsedFork(forked)
               b == ok \/ (child.type = "SOCKET" /\ child.wrote /\ child.ids = {})
    <2>1. u \in Nat BY DEF UsedFork
    <2> DEFINE v == IF b THEN 0 ELSE 1
    <2>2. used' = [used EXCEPT !.fork = @ + u, !.event = @ + v] BY <1>1
    <2>3. used \in Used /\ used.event <= MaxEvents BY DEF MasterTypes
    <2>4. b \/ used.event < MaxEvents BY <1>1
    <2>5. v \in Nat /\ used.event + v <= MaxEvents
      <3> HIDE DEF b
      <3> QED BY <2>3, <2>4, ReplAssumption DEF Used
    <2> HIDE DEF u, v
    <2> DEFINE w == [used EXCEPT !.fork = @ + u]
    <2>8. w \in Used /\ w.event = used.event BY <2>1, <2>3 DEF Used
    <2>9. used' = [w EXCEPT !.event = used.event + v] BY <2>2
    <2>10. used.event + v \in Nat BY <2>3, <2>5 DEF Used
    <2> HIDE DEF w
    <2>6. used' \in Used /\ used'.event = used.event + v BY <2>8, <2>9, <2>10 DEF Used
    <2>7. used'.event = used.event + v BY <2>6
    <2> QED BY <2>3, <2>5, <2>6, <2>7 DEF Used
  <1>3. child.type \in {"DISK", "SOCKET"} BY <1>1 DEF MasterTypes, ChildType
  <1>4. /\ drop \subseteq ends /\ drop \in SUBSET Conns /\ late \cap ends = {}
        /\ \A c \in late \cup ends : cl[c].state # "NONE"
    BY ChildDoneSets
  <1>5. file \in Rdb BY DEF FileOf, MasterTypes, ChildType
  <1>6. /\ ss \in Seq(Conns) /\ IsInjective(ss) /\ Range(ss) = Range(slaves) \ drop
    BY WithoutIs DEF ClientTypes
  <1> HIDE DEF ends, late, drop, file, ss
  <1>7. \A c \in Conns : /\ moved[c] \in Client
                         /\ (moved[c].state # "NONE") = (cl[c].state # "NONE" /\ c \notin drop)
    BY <1>3, <1>4, <1>5, MovedTypes
  <1>8. moved \in [Conns -> Client]
    <2>1. moved = [c \in Conns |-> moved[c]] BY DEF Moved
    <2> HIDE DEF moved
    <2> QED BY <1>7, <2>1
  <1> HIDE DEF moved
  <1>9. /\ BgsaveClients(moved, ss) \in [Conns -> Client]
        /\ \A c \in Conns : (BgsaveClients(moved, ss)[c].state # "NONE") = (moved[c].state # "NONE")
        /\ BgsaveChild(moved, ss, moff, forked) \in ChildType
    BY <1>6, <1>8, BgsaveTypes
  <1>10. child' \in ChildType BY <1>1, <1>9, InitialTypes
  <1>11. MasterTypes' BY <1>1, <1>2, <1>5, <1>10 DEF MasterTypes, Used
  <1>12. cl' \in [Conns -> Client] /\ \A c \in Conns : (cl'[c].state # "NONE") = (moved[c].state # "NONE")
    BY <1>1, <1>8, <1>9
  <1>13. \A c \in Conns : (cl'[c].state # "NONE") = (c \in Range(slaves'))
    BY <1>1, <1>6, <1>7, <1>12 DEF ClientTypes
  <1>14. slaves' # << >> => bl'.on
    <2> SUFFICES ASSUME slaves' # << >> PROVE bl.on BY <1>1
    <2>1. 1 \in DOMAIN ss BY <1>1, <1>6
    <2>2. ss[1] \in Range(slaves) BY <1>6, <2>1 DEF Range
    <2>3. slaves # << >> BY <2>2 DEF Range
    <2> QED BY <2>3 DEF ClientTypes
  <1>15. ClientTypes' BY <1>1, <1>6, <1>12, <1>13, <1>14 DEF ClientTypes
  <1>16. chan \in [Conns -> Channel] BY DEF ChanTypes
  <1>17. ChanTypes' BY <1>1, <1>4, <1>16, MCloseIs DEF ChanTypes
  <1>18. UNCHANGED <<rs, sc, cached>> BY <1>1 DEF svars
  <1>19. LinkInv' BY <1>1, <1>4, <1>16, <1>17, <1>18, QuietClose, QuietLinks
  <1>20. SlaveTypes' BY <1>1 DEF SlaveTypes, svars
  <1> QED BY <1>11, <1>15, <1>17, <1>19, <1>20

\* The master restarts.
LEMMA TypesRestart ==
    ASSUME TypeInv, MasterRestarts
    PROVE  TypeInv'
  <1> USE DEF TypeInv
  <1>1. /\ runid' = runid + 1
        /\ mdata' = rdbfile.data
        /\ seldb' = -1 /\ moff' = 0 /\ bl' = NoBacklog /\ slaves' = << >>
        /\ cl' = [c \in Conns |-> NewClient]
        /\ child' = NoChild
        /\ chan' = MClose(chan, Conns)
        /\ hist' = [r \in 0..(runid + 1) |->
                      IF r = runid + 1 THEN << [db |-> -1, data |-> rdbfile.data] >> ELSE hist[r]]
        /\ UNCHANGED <<diskless, rdbfile, svars, pos>>
    BY DEF MasterRestarts
  <1>2. used' \in Used /\ used'.event <= MaxEvents /\ used'.event = used.event + 1
    BY SpendType DEF MasterRestarts
  <1>3. rdbfile.data \in Data /\ runid \in Nat /\ runid <= used.event /\ used \in Used
    BY DEF MasterTypes, Rdb
  <1>4. runid' \in Nat /\ runid' <= used'.event BY <1>1, <1>2, <1>3 DEF Used
  <1>5. hist' \in [0..runid' -> Seq(Point)]
    <2> DEFINE p == << [db |-> -1, data |-> rdbfile.data] >>
    <2>1. [db |-> -1, data |-> rdbfile.data] \in Point BY <1>3 DEF Point
    <2>2. p \in Seq(Point) BY <2>1
    <2>3. hist \in [0..runid -> Seq(Point)] BY DEF MasterTypes
    <2>4. hist' = [r \in 0..(runid + 1) |-> IF r = runid + 1 THEN p ELSE hist[r]] BY <1>1
    <2> HIDE DEF p
    <2>5. \A r \in 0..(runid + 1) : r = runid + 1 \/ r \in 0..runid BY <1>3
    <2> QED BY <1>1, <2>2, <2>3, <2>4, <2>5
  <1>6. bl' \in [on : BOOLEAN, win : Seq(Elem)] /\ Len(bl'.win) <= BacklogSize
    BY <1>1, ReplAssumption DEF NoBacklog
  <1>7. MasterTypes' BY <1>1, <1>2, <1>3, <1>4, <1>5, <1>6, InitialTypes DEF MasterTypes
  <1>8. ClientTypes'
    <2>1. slaves' \in Seq(Conns) /\ IsInjective(slaves') /\ Range(slaves') = {}
      BY <1>1 DEF IsInjective, Range
    <2>2. \A c \in Conns : cl'[c].state = "NONE" BY <1>1 DEF NewClient
    <2>3. cl' \in [Conns -> Client] BY <1>1, InitialTypes
    <2> QED BY <1>1, <2>1, <2>2, <2>3 DEF ClientTypes
  <1>9. chan \in [Conns -> Channel] /\ Conns \in SUBSET Conns BY DEF ChanTypes
  <1>10. ChanTypes' BY <1>1, <1>9, MCloseIs DEF ChanTypes
  <1>11. UNCHANGED <<rs, sc, cached>> BY <1>1 DEF svars
  <1>12. LinkInv' BY <1>1, <1>9, <1>10, <1>11, QuietClose, QuietLinks
  <1>13. SlaveTypes' BY <1>1 DEF SlaveTypes, svars
  <1> QED BY <1>7, <1>8, <1>10, <1>12, <1>13

(***************************************************************************)
(* Types: steps of a slave.                                                *)
(***************************************************************************)

\* A step of slave s leaves the variables of the others alone.
OnlySlave(s) ==
    /\ rs' = [rs EXCEPT ![s] = rs'[s]]
    /\ sc' = [sc EXCEPT ![s] = sc'[s]]
    /\ master' = [master EXCEPT ![s] = master'[s]]
    /\ cached' = [cached EXCEPT ![s] = cached'[s]]
    /\ init' = [init EXCEPT ![s] = init'[s]]
    /\ sdata' = [sdata EXCEPT ![s] = sdata'[s]]
    /\ pos' = [pos EXCEPT ![s] = pos'[s]]

\* The variables of one slave.
SlaveOK(r, c, m, q, i, x, p) ==
    /\ r \in {"NONE", "CONNECT", "PSYNC", "CONNECTED"} \cup Handshake
    /\ c \in Conns \cup {NoConn}
    /\ m \in Link /\ q \in Link
    /\ i \in [run : Int, off : Int]
    /\ x \in Data
    /\ p \in {"exact", "shifted", "tainted"}
    /\ (c # NoConn) = (r \notin {"NONE", "CONNECT"})
    /\ m.on = (r = "CONNECTED")
    /\ r \in {"TRANSFER", "TRANSFER_LOST", "CONNECTED", "NONE"} => ~q.on

\* The variables of s, before a step.
LEMMA SlaveIs ==
    ASSUME SlaveTypes, NEW s \in Slaves
    PROVE  SlaveOK(rs[s], sc[s], master[s], cached[s], init[s], sdata[s], pos[s])
  BY DEF SlaveTypes, SlaveOK

\* A step of s on connection e, which is its own or one it opens.
SlaveStepOn(s, e) ==
    /\ e \in Conns => sc[s] = e \/ ~chan[e].sopen
    /\ chan' \in [Conns -> Channel]
    /\ \A d \in Conns : d # e => chan'[d] = chan[d]
    /\ OnlySlave(s)
    /\ UNCHANGED <<mvars, hist>>
    /\ used' \in Used /\ used'.event <= MaxEvents /\ used.event <= used'.event

\* Such a step, with what it does to s and to its connection.
LEMMA SlaveTypesStep ==
    ASSUME TypeInv, NEW s \in Slaves, NEW e, SlaveStepOn(s, e),
           SlaveOK(rs'[s], sc'[s], master'[s], cached'[s], init'[s], sdata'[s], pos'[s]),
           sc'[s] # NoConn => LinkOK(s, chan'[sc'[s]], rs'[s], cached'[s])
    PROVE  TypeInv'
  <1> USE DEF TypeInv
  <1>1. UNCHANGED <<mvars, hist>> BY DEF SlaveStepOn
  <1>2. MasterTypes' BY <1>1 DEF MasterTypes, SlaveStepOn, mvars, Used
  <1>3. ClientTypes' BY <1>1 DEF ClientTypes, mvars
  <1>4. ChanTypes' BY DEF ChanTypes, SlaveStepOn
  <1>5. \A t \in Slaves : t # s =>
          /\ rs'[t] = rs[t] /\ sc'[t] = sc[t] /\ master'[t] = master[t]
          /\ cached'[t] = cached[t]
    BY DEF SlaveStepOn, OnlySlave, SlaveTypes
  <1>6. SlaveTypes'
    <2>1. /\ rs' \in [Slaves -> {"NONE", "CONNECT", "PSYNC", "CONNECTED"} \cup Handshake]
          /\ sc' \in [Slaves -> Conns \cup {NoConn}]
      BY DEF SlaveStepOn, OnlySlave, SlaveTypes, SlaveOK
    <2>2. /\ master' \in [Slaves -> Link] /\ cached' \in [Slaves -> Link]
      BY DEF SlaveStepOn, OnlySlave, SlaveTypes, SlaveOK
    <2>3. /\ init' \in [Slaves -> [run : Int, off : Int]]
          /\ sdata' \in [Slaves -> Data]
          /\ pos' \in [Slaves -> {"exact", "shifted", "tainted"}]
      BY DEF SlaveStepOn, OnlySlave, SlaveTypes, SlaveOK
    <2>4. \A t \in Slaves :
            /\ (sc'[t] # NoConn) = (rs'[t] \notin {"NONE", "CONNECT"})
            /\ master'[t].on = (rs'[t] = "CONNECTED")
            /\ rs'[t] \in {"TRANSFER", "TRANSFER_LOST", "CONNECTED", "NONE"} => ~cached'[t].on
      BY <1>5 DEF SlaveTypes, SlaveOK
    <2> QED BY <2>1, <2>2, <2>3, <2>4 DEF SlaveTypes
  <1>7. LinkInv'
    <2> SUFFICES ASSUME NEW t \in Slaves, sc'[t] # NoConn
                 PROVE  LinkOK(t, chan'[sc'[t]], rs'[t], cached'[t])
      BY DEF LinkInv
    <2>1. CASE t = s BY <2>1
    <2>2. CASE t # s
      <3>1. sc[t] = sc'[t] /\ sc[t] # NoConn /\ sc[t] \in Conns BY <1>5, <2>2 DEF SlaveTypes
      <3>2. LinkOK(t, chan[sc[t]], rs[t], cached[t]) BY <3>1 DEF LinkInv
      <3>3. sc[t] # e
        <4> SUFFICES ASSUME sc[t] = e PROVE FALSE OBVIOUS
        <4>1. chan[e].sopen /\ chan[e].s = t BY <3>2 DEF LinkOK
        <4>2. sc[s] = e BY <3>1, <4>1 DEF SlaveStepOn
        <4>3. LinkOK(s, chan[e], rs[s], cached[s]) BY <3>1, <4>2 DEF LinkInv
        <4> QED BY <2>2, <4>1, <4>3 DEF LinkOK
      <3>4. chan'[sc[t]] = chan[sc[t]] BY <3>1, <3>3 DEF SlaveStepOn
      <3> QED BY <1>5, <2>2, <3>1, <3>2, <3>4
    <2> QED BY <2>1, <2>2
  <1> QED BY <1>2, <1>3, <1>4, <1>6, <1>7

\* A step that need not spend anything.
LEMMA MaySpend ==
    ASSUME TypeInv, UNCHANGED used \/ Spend("event", MaxEvents)
    PROVE  used' \in Used /\ used'.event <= MaxEvents /\ used.event <= used'.event
  <1>1. MasterTypes BY DEF TypeInv
  <1>2. CASE UNCHANGED used BY <1>1, <1>2 DEF MasterTypes, Used
  <1>3. CASE Spend("event", MaxEvents) BY <1>1, <1>3, SpendType
  <1> QED BY <1>2, <1>3

\* The connection of a slave that has one.
LEMMA OwnLink ==
    ASSUME TypeInv, NEW s \in Slaves, rs[s] \notin {"NONE", "CONNECT"}
    PROVE  /\ sc[s] \in Conns /\ chan \in [Conns -> Channel] /\ chan[sc[s]] \in Channel
           /\ LinkOK(s, chan[sc[s]], rs[s], cached[s])
           /\ chan[sc[s]].m2s \in Seq(Msg) /\ chan[sc[s]].s2m \in Seq(Request)
  <1>1. sc[s] \in Conns /\ sc[s] # NoConn BY ReplAssumption DEF TypeInv, SlaveTypes
  <1>2. chan \in [Conns -> Channel] /\ chan[sc[s]] \in Channel BY <1>1 DEF TypeInv, ChanTypes
  <1>3. chan[sc[s]].m2s \in Seq(Msg) /\ chan[sc[s]].s2m \in Seq(Request) BY <1>2 DEF Channel
  <1> QED BY <1>1, <1>2, <1>3 DEF TypeInv, LinkInv

\* One message is consumed, or all of them are.
LEMMA ConsumedIs ==
    ASSUME chan \in [Conns -> Channel], NEW c \in Conns, NEW q \in Seq(Msg),
           chan' = [chan EXCEPT ![c].m2s = q]
    PROVE  /\ chan' \in [Conns -> Channel]
           /\ \A d \in Conns : d # c => chan'[d] = chan[d]
           /\ chan'[c].s = chan[c].s /\ chan'[c].mopen = chan[c].mopen
           /\ chan'[c].sopen = chan[c].sopen /\ chan'[c].net = chan[c].net
           /\ chan'[c].s2m = chan[c].s2m /\ chan'[c].m2s = q
  <1> DEFINE k == chan[c]
             j == [k EXCEPT !.m2s = q]
  <1>1. k \in Channel OBVIOUS
  <1>2. << >> \in Seq(Request) OBVIOUS
  <1>3. j \in Channel BY <1>1, <1>2, ChannelWith
  <1>4. chan' = [chan EXCEPT ![c] = j] OBVIOUS
  <1>5. /\ j.s = k.s /\ j.mopen = k.mopen /\ j.sopen = k.sopen /\ j.net = k.net
        /\ j.s2m = k.s2m /\ j.m2s = q
    BY <1>1 DEF Channel
  <1> HIDE DEF j
  <1>6. chan' \in [Conns -> Channel] /\ chan'[c] = j /\ \A d \in Conns : d # c => chan'[d] = chan[d]
    BY <1>3, <1>4
  <1> QED BY <1>5, <1>6

\* The first message of a slave's queue.
LEMMA ReadIs ==
    ASSUME TypeInv, NEW s \in Slaves, NEW st \in {"PSYNC", "CONNECTED"} \cup Handshake, CanRead(s, st)
    PROVE  /\ Head1(sc[s]) \in Msg /\ Tail(chan[sc[s]].m2s) \in Seq(Msg) /\ rs[s] = st
           /\ chan' = Consumed(sc[s]) =>
                /\ chan' \in [Conns -> Channel]
                /\ \A d \in Conns : d # sc[s] => chan'[d] = chan[d]
                /\ chan'[sc[s]].s = chan[sc[s]].s /\ chan'[sc[s]].mopen = chan[sc[s]].mopen
                /\ chan'[sc[s]].sopen = chan[sc[s]].sopen /\ chan'[sc[s]].net = chan[sc[s]].net
                /\ chan'[sc[s]].s2m = chan[sc[s]].s2m /\ chan'[sc[s]].m2s = Tail(chan[sc[s]].m2s)
  <1> DEFINE c == sc[s]
  <1>1. rs[s] = st /\ chan[c].m2s # << >> BY DEF CanRead
  <1>2. c \in Conns /\ chan \in [Conns -> Channel] /\ chan[c].m2s \in Seq(Msg)
    BY <1>1, OwnLink DEF Handshake
  <1>3. Head1(c) \in Msg /\ Tail(chan[c].m2s) \in Seq(Msg) BY <1>1, <1>2 DEF Head1
  <1> DEFINE q == Tail(chan[c].m2s)
  <1>4. chan' = Consumed(c) => chan' = [chan EXCEPT ![c].m2s = q] BY <1>2 DEF Consumed
  <1> HIDE DEF q, c
  <1> QED BY <1>1, <1>2, <1>3, <1>4, ConsumedIs DEF q, c

\* connectWithMaster.
LEMMA TypesConnect ==
    ASSUME TypeInv, NEW s \in Slaves, NEW c \in Conns, connectWithMaster(s, c)
    PROVE  TypeInv'
  <1> DEFINE k == [Closed EXCEPT !.s = s, !.mopen = TRUE, !.sopen = TRUE, !.net = TRUE]
  <1>1. SlaveTypes /\ chan \in [Conns -> Channel] BY DEF TypeInv, ChanTypes
  <1>2. SlaveOK(rs[s], sc[s], master[s], cached[s], init[s], sdata[s], pos[s]) BY <1>1, SlaveIs
  <1>3. /\ rs[s] = "CONNECT" /\ chan[c] = Closed
        /\ chan' = [chan EXCEPT ![c] = k]
        /\ sc' = [sc EXCEPT ![s] = c]
        /\ rs' = [rs EXCEPT ![s] = "CONNECTING"]
        /\ UNCHANGED <<mvars, master, cached, init, sdata, hvars>>
    BY DEF connectWithMaster
  <1>4. k \in Channel /\ k.s = s /\ k.sopen /\ k.s2m = << >> /\ k.m2s = << >>
    <2> DEFINE k0 == Closed
               k1 == [k0 EXCEPT !.s = s]
               k2 == [k1 EXCEPT !.mopen = TRUE]
               k3 == [k2 EXCEPT !.sopen = TRUE]
    <2>1. k0 \in Channel /\ k0.s2m = << >> /\ k0.m2s = << >> BY InitialTypes DEF Closed
    <2>2. k = [k3 EXCEPT !.net = TRUE] OBVIOUS
    <2> HIDE DEF k, k0
    <2>3. k1 \in Channel /\ k1.s2m = << >> /\ k1.m2s = << >> /\ k1.s = s BY <2>1 DEF Channel
    <2> HIDE DEF k1
    <2>4. k2 \in Channel /\ k2.s2m = << >> /\ k2.m2s = << >> /\ k2.s = s BY <2>3 DEF Channel
    <2> HIDE DEF k2
    <2>5. k3 \in Channel /\ k3.s2m = << >> /\ k3.m2s = << >> /\ k3.s = s /\ k3.sopen
      BY <2>4 DEF Channel
    <2> HIDE DEF k3
    <2> QED BY <2>2, <2>5 DEF Channel
  <1> HIDE DEF k
  <1>5. chan' \in [Conns -> Channel] /\ chan'[c] = k /\ \A d \in Conns : d # c => chan'[d] = chan[d]
    BY <1>1, <1>3, <1>4
  <1>6. OnlySlave(s) BY <1>1, <1>3 DEF OnlySlave, SlaveTypes, hvars
  <1>7. SlaveStepOn(s, c)
    <2>1. UNCHANGED used /\ UNCHANGED <<mvars, hist>> BY <1>3 DEF hvars
    <2> QED BY <1>3, <1>5, <1>6, <2>1, MaySpend DEF SlaveStepOn, Closed
  <1>8. SlaveOK(rs'[s], sc'[s], master'[s], cached'[s], init'[s], sdata'[s], pos'[s])
    BY <1>1, <1>2, <1>3, ReplAssumption DEF SlaveOK, SlaveTypes, Handshake, hvars
  <1>9. LinkOK(s, chan'[sc'[s]], rs'[s], cached'[s])
    BY <1>1, <1>3, <1>4, <1>5 DEF LinkOK, HeadCont, SlaveTypes
  <1> QED BY <1>7, <1>8, <1>9, SlaveTypesStep

\* PSYNC.
LEMMA TypesPsync ==
    ASSUME TypeInv, NEW s \in Slaves, SendPsync(s)
    PROVE  TypeInv'
  <1> DEFINE c == sc[s]
             m == cached[s]
             run == IF m.on THEN m.run ELSE -1
             off == IF m.on THEN m.off + 1 ELSE -1
             es == << <<"PSYNC", run, off>> >>
  <1>1. SlaveTypes /\ chan \in [Conns -> Channel] BY DEF TypeInv, ChanTypes
  <1>2. SlaveOK(rs[s], sc[s], master[s], cached[s], init[s], sdata[s], pos[s]) BY <1>1, SlaveIs
  <1>3. /\ rs[s] = "CONNECTING"
        /\ chan' = SSend(chan, c, es)
        /\ init' = [init EXCEPT ![s] = NoInit]
        /\ rs' = [rs EXCEPT ![s] = "PSYNC"]
        /\ UNCHANGED <<mvars, sc, master, cached, sdata, hvars>>
    BY DEF SendPsync
  <1>4. c \in Conns /\ chan[c] \in Channel /\ LinkOK(s, chan[c], rs[s], cached[s])
    BY <1>3, OwnLink
  <1>5. run \in Int /\ off \in Int /\ (run >= 0 => m.on) BY <1>2 DEF SlaveOK, Link
  <1>6. es \in Seq(Request) /\ Len(es) = 1 /\ es[1] = <<"PSYNC", run, off>>
    <2> HIDE DEF run, off
    <2>1. <<"PSYNC", run, off>> \in Request BY <1>5, MakesRequest
    <2> QED BY <2>1
  <1>7. /\ chan' \in [Conns -> Channel] /\ \A d \in Conns : d # c => chan'[d] = chan[d]
        /\ chan'[c] = IF chan[c].net /\ chan[c].mopen THEN [chan[c] EXCEPT !.s2m = @ \o es] ELSE chan[c]
    <2> HIDE DEF c, es
    <2> QED BY <1>1, <1>3, <1>4, <1>6, SSendIs
  <1>8. chan[c].s2m = << >> /\ ~HeadCont(chan[c].m2s) BY <1>3, <1>4 DEF LinkOK
  <1>9. LinkOK(s, chan'[c], "PSYNC", m)
    <2> HIDE DEF es, run, off, m
    <2> DEFINE k == chan[c]
               j == [k EXCEPT !.s2m = k.s2m \o es]
    <2>1. k.sopen /\ k.s = s BY <1>4 DEF LinkOK
    <2>2. CASE chan'[c] = k BY <1>8, <2>1, <2>2 DEF LinkOK
    <2>3. CASE chan'[c] = j
      <3>1. k.s2m \o es = es BY <1>6, <1>8
      <3>2. j.sopen = k.sopen /\ j.s = k.s /\ j.m2s = k.m2s /\ j.s2m = k.s2m \o es BY <1>4 DEF Channel
      <3> HIDE DEF j
      <3>3. \A i \in 1..Len(j.s2m) : j.s2m[i][2] >= 0 => m.on
        <4> SUFFICES ASSUME NEW i \in 1..Len(j.s2m), j.s2m[i][2] >= 0 PROVE m.on OBVIOUS
        <4>1. j.s2m = es BY <3>1, <3>2
        <4>6. Len(j.s2m) = 1 BY <1>6, <4>1
        <4>2. i = 1
          <5> HIDE DEF j
          <5> QED BY <4>6
        <4>3. es[1][2] = run BY <1>6
        <4>4. j.s2m[i] = es[1] BY <4>1, <4>2
        <4>5. run >= 0 BY <4>3, <4>4
        <4> QED BY <1>5, <4>5
      <3> QED BY <1>8, <2>1, <2>3, <3>2, <3>3 DEF LinkOK
    <2> QED BY <1>7, <2>2, <2>3
  <1>10. OnlySlave(s) BY <1>1, <1>3 DEF OnlySlave, SlaveTypes, hvars
  <1>11. SlaveStepOn(s, c)
    <2>1. UNCHANGED used /\ UNCHANGED <<mvars, hist>> BY <1>3 DEF hvars
    <2> QED BY <1>7, <1>10, <2>1, MaySpend DEF SlaveStepOn
  <1>12. SlaveOK(rs'[s], sc'[s], master'[s], cached'[s], init'[s], sdata'[s], pos'[s])
    BY <1>1, <1>2, <1>3, InitialTypes DEF SlaveOK, SlaveTypes, Handshake, hvars
  <1>13. rs'[s] = "PSYNC" /\ sc'[s] = c /\ cached'[s] = m BY <1>1, <1>3 DEF SlaveTypes
  <1> QED BY <1>9, <1>11, <1>12, <1>13, SlaveTypesStep

\* A slave that is past the handshake, at its connection.
LEMMA PastHandshake ==
    ASSUME NEW s, NEW k, NEW r, NEW m, k.sopen, k.s = s, r \notin {"CONNECTING", "PSYNC"}
    PROVE  LinkOK(s, k, r, m)
  BY DEF LinkOK

\* +FULLRESYNC and +CONTINUE.
LEMMA TypesPsyncReply ==
    ASSUME TypeInv, NEW s \in Slaves, ReadFullResync(s) \/ ReadContinue(s)
    PROVE  TypeInv'
  <1> DEFINE c == sc[s]
             h == Head1(c)
  <1>1. SlaveTypes /\ chan \in [Conns -> Channel] BY DEF TypeInv, ChanTypes
  <1>2. SlaveOK(rs[s], sc[s], master[s], cached[s], init[s], sdata[s], pos[s]) BY <1>1, SlaveIs
  <1>3. /\ CanRead(s, "PSYNC") /\ chan' = Consumed(c) /\ sc' = sc /\ UNCHANGED <<mvars, hist, used>>
    BY DEF ReadFullResync, ReadContinue, hvars
  <1>4. /\ h \in Msg /\ rs[s] = "PSYNC"
        /\ chan' \in [Conns -> Channel] /\ \A d \in Conns : d # c => chan'[d] = chan[d]
        /\ chan'[c].s = chan[c].s /\ chan'[c].sopen = chan[c].sopen
    BY <1>3, ReadIs
  <1>5. LinkOK(s, chan[c], rs[s], cached[s]) /\ c # NoConn /\ c \in Conns
    BY <1>4, OwnLink, ReplAssumption
  <1>6. OnlySlave(s)
    BY <1>1 DEF OnlySlave, SlaveTypes, hvars, ReadFullResync, ReadContinue
  <1>7. SlaveStepOn(s, c) BY <1>3, <1>4, <1>6, MaySpend DEF SlaveStepOn
  <1>8. CASE ReadFullResync(s)
    <2> DEFINE i == [run |-> h[2], off |-> h[3]]
    <2>1. h[1] = "full" BY <1>8 DEF ReadFullResync
    <2>2. i \in [run : Int, off : Int] BY <1>4, <2>1, MsgIs
    <2>3. rs'[s] = "TRANSFER" /\ cached'[s] = NoMaster /\ init'[s] = i
      BY <1>1, <1>8 DEF ReadFullResync, SlaveTypes
    <2>4. master'[s] = master[s] /\ sdata'[s] = sdata[s] /\ pos'[s] = pos[s] /\ sc'[s] = sc[s]
      BY <1>8 DEF ReadFullResync, hvars
    <2> HIDE DEF i, h
    <2>5. ~NoMaster.on BY DEF NoMaster
    <2>6. SlaveOK(rs'[s], sc'[s], master'[s], cached'[s], init'[s], sdata'[s], pos'[s])
      BY <1>2, <1>4, <1>5, <2>2, <2>3, <2>4, <2>5, InitialTypes DEF SlaveOK, Handshake
    <2>7. LinkOK(s, chan'[sc'[s]], rs'[s], cached'[s])
      BY <1>3, <1>4, <1>5, <2>3 DEF LinkOK
    <2> QED BY <1>7, <2>6, <2>7, SlaveTypesStep
  <1>9. CASE ReadContinue(s)
    <2>1. h[1] = "cont" BY <1>9 DEF ReadContinue
    <2>2. HeadCont(chan[c].m2s) BY <1>3, <2>1 DEF HeadCont, CanRead, Head1
    <2>3. cached[s].on BY <1>4, <1>5, <2>2 DEF LinkOK
    <2>4. rs'[s] = "CONNECTED" /\ cached'[s] = NoMaster /\ master'[s] = cached[s]
      BY <1>1, <1>9 DEF ReadContinue, SlaveTypes
    <2>5. init'[s] = init[s] /\ sdata'[s] = sdata[s] /\ sc'[s] = sc[s] BY <1>9 DEF ReadContinue
    <2>6. pos'[s] \in {"exact", "tainted"}
      <3>1. pos' = [pos EXCEPT ![s] = IF pos[s] = "exact" THEN pos[s] ELSE "tainted"]
        BY <1>9 DEF ReadContinue
      <3> QED BY <1>1, <3>1 DEF SlaveTypes
    <2> HIDE DEF h
    <2>7. ~NoMaster.on BY DEF NoMaster
    <2>8. SlaveOK(rs'[s], sc'[s], master'[s], cached'[s], init'[s], sdata'[s], pos'[s])
      BY <1>2, <1>4, <1>5, <2>3, <2>4, <2>5, <2>6, <2>7, InitialTypes DEF SlaveOK, Handshake
    <2>9. LinkOK(s, chan'[sc'[s]], rs'[s], cached'[s])
      BY <1>3, <1>4, <1>5, <2>4 DEF LinkOK
    <2> QED BY <1>7, <2>8, <2>9, SlaveTypesStep
  <1> QED BY <1>8, <1>9

\* No reply to PSYNC: SYNC.  REPLCONF ACK.
LEMMA TypesSlaveSends ==
    ASSUME TypeInv, NEW s \in Slaves, PsyncReadFails(s) \/ replicationSendAck(s)
    PROVE  TypeInv'
  <1> DEFINE c == sc[s]
  <1>1. SlaveTypes /\ chan \in [Conns -> Channel] BY DEF TypeInv, ChanTypes
  <1>2. SlaveOK(rs[s], sc[s], master[s], cached[s], init[s], sdata[s], pos[s]) BY <1>1, SlaveIs
  <1>3. rs[s] \in {"PSYNC", "CONNECTED"} BY DEF PsyncReadFails, replicationSendAck
  <1>4. c \in Conns /\ c # NoConn /\ chan[c] \in Channel /\ LinkOK(s, chan[c], rs[s], cached[s])
    BY <1>3, OwnLink, ReplAssumption
  <1>5. PICK e \in {<<"SYNC">>, <<"ACK">>} : chan' = SSend(chan, c, <<e>>)
    BY DEF PsyncReadFails, replicationSendAck
  <1>6. <<e>> \in Seq(Request) BY MakesRequest
  <1> DEFINE es == <<e>>
  <1> HIDE DEF c, es
  <1>7. /\ chan' \in [Conns -> Channel] /\ \A d \in Conns : d # c => chan'[d] = chan[d]
        /\ chan'[c] = IF chan[c].net /\ chan[c].mopen THEN [chan[c] EXCEPT !.s2m = @ \o es] ELSE chan[c]
    <2>1. chan' = SSend(chan, c, es) /\ es \in Seq(Request) BY <1>5, <1>6 DEF es
    <2> QED BY <1>1, <1>4, <2>1, SSendIs
  <1>8. chan'[c].s = chan[c].s /\ chan'[c].sopen = chan[c].sopen
    <2> DEFINE k == chan[c]
               q == k.s2m \o es
    <2>1. k \in Channel BY <1>4
    <2> HIDE DEF k, q
    <2>2. [k EXCEPT !.s2m = q].s = k.s /\ [k EXCEPT !.s2m = q].sopen = k.sopen BY <2>1 DEF Channel
    <2> QED BY <1>7, <2>2 DEF k, q
  <1>9. OnlySlave(s) /\ UNCHANGED <<mvars, hist>> /\ sc' = sc
    BY <1>1 DEF OnlySlave, SlaveTypes, hvars, svars, PsyncReadFails, replicationSendAck
  <1>10. used' \in Used /\ used'.event <= MaxEvents /\ used.event <= used'.event
    <2>1. UNCHANGED used \/ Spend("event", MaxEvents)
      BY DEF PsyncReadFails, replicationSendAck, hvars
    <2> QED BY <2>1, MaySpend
  <1>11. SlaveStepOn(s, c) BY <1>7, <1>9, <1>10 DEF SlaveStepOn, c
  <1>12. rs'[s] \in {"TRANSFER", "CONNECTED"}
    BY <1>1 DEF SlaveTypes, PsyncReadFails, replicationSendAck, svars
  <1>13. SlaveOK(rs'[s], sc'[s], master'[s], cached'[s], init'[s], sdata'[s], pos'[s])
    <2>1. CASE PsyncReadFails(s)
      <3>1. rs'[s] = "TRANSFER" /\ cached'[s] = NoMaster /\ rs[s] = "PSYNC"
        BY <1>1, <2>1 DEF PsyncReadFails, SlaveTypes
      <3>2. UNCHANGED <<sc, master, init, sdata, pos>> BY <2>1 DEF PsyncReadFails
      <3>3. ~NoMaster.on BY DEF NoMaster
      <3> QED BY <1>2, <3>1, <3>2, <3>3, InitialTypes DEF SlaveOK, Handshake
    <2>2. CASE replicationSendAck(s)
      <3>1. UNCHANGED <<rs, sc, master, cached, init, sdata, pos>>
        BY <2>2 DEF replicationSendAck, svars, hvars
      <3> QED BY <1>2, <3>1
    <2> QED BY <2>1, <2>2
  <1>14. LinkOK(s, chan'[sc'[s]], rs'[s], cached'[s])
    <2>1. sc'[s] = c BY <1>9 DEF c
    <2> QED BY <1>4, <1>8, <1>12, <2>1 DEF LinkOK
  <1> QED BY <1>11, <1>13, <1>14, SlaveTypesStep

\* The RDB arrives, or is missed; the stream is read.
LEMMA TypesRead ==
    ASSUME TypeInv, NEW s \in Slaves,
           readSyncBulkPayload(s) \/ EofMarkMissed(s) \/ SwallowStream(s) \/ ReadStream(s)
    PROVE  TypeInv'
  <1> DEFINE c == sc[s]
             h == Head1(c)
  <1>1. SlaveTypes /\ chan \in [Conns -> Channel] BY DEF TypeInv, ChanTypes
  <1>2. SlaveOK(rs[s], sc[s], master[s], cached[s], init[s], sdata[s], pos[s]) BY <1>1, SlaveIs
  <1>3. PICK st \in {"TRANSFER", "TRANSFER_LOST", "CONNECTED"} : CanRead(s, st)
    BY DEF readSyncBulkPayload, EofMarkMissed, SwallowStream, ReadStream
  <1>4. st \in {"PSYNC", "CONNECTED"} \cup Handshake BY DEF Handshake
  <1>5. h \in Msg /\ rs[s] = st BY <1>3, <1>4, ReadIs
  <1>6. c \in Conns /\ c # NoConn /\ chan[c] \in Channel /\ LinkOK(s, chan[c], rs[s], cached[s])
    BY <1>5, OwnLink, ReplAssumption
  <1>7. chan' = Consumed(c) \/ chan' = [chan EXCEPT ![c].m2s = << >>]
    BY DEF readSyncBulkPayload, LoadRdb, EofMarkMissed, SwallowStream, ReadStream
  <1>8. /\ chan' \in [Conns -> Channel] /\ \A d \in Conns : d # c => chan'[d] = chan[d]
        /\ chan'[c].s = chan[c].s /\ chan'[c].sopen = chan[c].sopen
    <2>1. CASE chan' = Consumed(c) BY <1>3, <1>4, <2>1, ReadIs
    <2>2. CASE chan' = [chan EXCEPT ![c].m2s = << >>]
      <3>1. << >> \in Seq(Msg) OBVIOUS
      <3> HIDE DEF c
      <3> QED BY <1>1, <1>6, <2>2, <3>1, ConsumedIs
    <2> QED BY <1>7, <2>1, <2>2
  <1>9. sc' = sc /\ UNCHANGED <<mvars, hist, used>>
    BY DEF readSyncBulkPayload, LoadRdb, EofMarkMissed, SwallowStream, ReadStream, hvars, svars
  <1>10. ASSUME OnlySlave(s), rs'[s] \in {"TRANSFER_LOST", "CONNECTED"},
                SlaveOK(rs'[s], sc'[s], master'[s], cached'[s], init'[s], sdata'[s], pos'[s])
         PROVE  TypeInv'
    <2>1. SlaveStepOn(s, c) BY <1>8, <1>9, <1>10, MaySpend DEF SlaveStepOn
    <2>2. LinkOK(s, chan'[sc'[s]], rs'[s], cached'[s]) BY <1>6, <1>8, <1>9, <1>10 DEF LinkOK
    <2> QED BY <1>10, <2>1, <2>2, SlaveTypesStep
  <1>11. CASE readSyncBulkPayload(s)
    <2> DEFINE m == [on |-> TRUE, off |-> init[s].off, run |-> init[s].run, db |-> 0]
    <2>1. h[1] \in {"bulk", "eof"} /\ LoadRdb(s, h[2]) /\ rs[s] = "TRANSFER"
      BY <1>11 DEF readSyncBulkPayload, CanRead
    <2>2. h[2] \in Rdb /\ h[2].data \in Data
      <3>1. h[2] \in Rdb BY <1>5, <2>1, MsgIs
      <3> QED BY <3>1 DEF Rdb
    <2> HIDE DEF h, c
    <2>3. m \in Link /\ m.on = TRUE BY <1>2, InitialTypes DEF SlaveOK, Link
    <2>4. /\ sdata' = [sdata EXCEPT ![s] = h[2].data]
          /\ master' = [master EXCEPT ![s] = m]
          /\ rs' = [rs EXCEPT ![s] = "CONNECTED"]
          /\ UNCHANGED <<sc, cached, init>>
      BY <2>1 DEF LoadRdb
    <2>5. /\ pos' = [pos EXCEPT ![s] = IF init[s].off = h[2].snap THEN "exact" ELSE "shifted"]
      BY <2>1 DEF LoadRdb
    <2> HIDE DEF m
    <2>6. pos'[s] \in {"exact", "shifted"} /\ pos' = [pos EXCEPT ![s] = pos'[s]]
      BY <1>1, <2>5 DEF SlaveTypes
    <2>7. sdata'[s] = h[2].data /\ master'[s] = m /\ rs'[s] = "CONNECTED" BY <1>1, <2>4 DEF SlaveTypes
    <2>8. OnlySlave(s) BY <1>1, <2>4, <2>6 DEF OnlySlave, SlaveTypes
    <2>9. SlaveOK(rs'[s], sc'[s], master'[s], cached'[s], init'[s], sdata'[s], pos'[s])
      BY <1>2, <2>1, <2>2, <2>3, <2>4, <2>6, <2>7 DEF SlaveOK, Handshake
    <2> QED BY <1>10, <2>7, <2>8, <2>9
  <1>12. CASE EofMarkMissed(s)
    <2>1. /\ rs[s] = "TRANSFER" /\ rs' = [rs EXCEPT ![s] = "TRANSFER_LOST"]
          /\ UNCHANGED <<sc, master, cached, init, sdata, pos>>
      BY <1>12 DEF EofMarkMissed, CanRead, hvars
    <2>2. rs'[s] = "TRANSFER_LOST" BY <1>1, <2>1 DEF SlaveTypes
    <2>3. OnlySlave(s) BY <1>1, <2>1 DEF OnlySlave, SlaveTypes
    <2>4. SlaveOK(rs'[s], sc'[s], master'[s], cached'[s], init'[s], sdata'[s], pos'[s])
      BY <1>2, <2>1, <2>2 DEF SlaveOK, Handshake
    <2> QED BY <1>10, <2>2, <2>3, <2>4
  <1>13. CASE SwallowStream(s)
    <2>1. rs[s] = "TRANSFER_LOST" /\ UNCHANGED <<rs, sc, master, cached, init, sdata, pos>>
      BY <1>13 DEF SwallowStream, CanRead, svars, hvars
    <2>2. OnlySlave(s) BY <1>1, <2>1 DEF OnlySlave, SlaveTypes
    <2> QED BY <1>2, <1>10, <2>1, <2>2
  <1>14. CASE ReadStream(s)
    <2> DEFINE a == [db |-> master[s].db, data |-> sdata[s]]
               b == Exec(a, h)
    <2>1. /\ rs[s] = "CONNECTED"
          /\ sdata' = [sdata EXCEPT ![s] = b.data]
          /\ master' = [master EXCEPT ![s].db = b.db, ![s].off = @ + 1]
          /\ UNCHANGED <<rs, sc, cached, init, pos>>
      BY <1>14 DEF ReadStream, CanRead, hvars
    <2>2. a \in State BY <1>2 DEF State, SlaveOK, Link
    <2> HIDE DEF a, h
    <2>3. b \in State BY <1>5, <2>2, ExecType
    <2> HIDE DEF b
    <2>4. b.data \in Data /\ b.db \in Dbs BY <2>3 DEF State
    <2> DEFINE n == master[s]
               m == [n EXCEPT !.db = b.db, !.off = @ + 1]
    <2>5. n \in Link /\ n.on BY <1>2, <2>1 DEF SlaveOK
    <2>6. master' = [master EXCEPT ![s] = m] BY <1>1, <2>1 DEF SlaveTypes
    <2>7. m \in Link /\ m.on
      <3> HIDE DEF n
      <3>1. [n EXCEPT !.db = b.db] \in Link BY <2>4, <2>5 DEF Link
      <3>2. n.off + 1 \in Int BY <2>5 DEF Link
      <3>3. m \in Link BY <3>1, <3>2 DEF Link
      <3>4. m.on = n.on BY <2>5 DEF Link
      <3> QED BY <2>5, <3>3, <3>4
    <2> HIDE DEF m
    <2>8. sdata'[s] = b.data /\ master'[s] = m BY <1>1, <2>1, <2>6 DEF SlaveTypes
    <2>9. OnlySlave(s) BY <1>1, <2>1, <2>6 DEF OnlySlave, SlaveTypes
    <2>10. SlaveOK(rs'[s], sc'[s], master'[s], cached'[s], init'[s], sdata'[s], pos'[s])
      BY <1>2, <2>1, <2>4, <2>7, <2>8 DEF SlaveOK
    <2> QED BY <1>10, <2>1, <2>9, <2>10
  <1> QED BY <1>11, <1>12, <1>13, <1>14

\* A slave closes its connection.
LEMMA TypesLeave ==
    ASSUME TypeInv, NEW s \in Slaves,
           AbortSync(s) \/ MasterLost(s) \/ replicationUnsetMaster(s) \/ replicationSetMaster(s)
    PROVE  TypeInv'
  <1> DEFINE c == sc[s]
  <1>1. SlaveTypes /\ chan \in [Conns -> Channel] BY DEF TypeInv, ChanTypes
  <1>2. SlaveOK(rs[s], sc[s], master[s], cached[s], init[s], sdata[s], pos[s]) BY <1>1, SlaveIs
  <1>3. UNCHANGED used \/ Spend("event", MaxEvents)
    BY DEF AbortSync, MasterLost, replicationUnsetMaster, replicationSetMaster, hvars
  <1>4. used' \in Used /\ used'.event <= MaxEvents /\ used.event <= used'.event BY <1>3, MaySpend
  <1>5. chan' = chan \/ (c \in Conns /\ chan' = SClose(chan, c))
    BY <1>2 DEF AbortSync, MasterLost, replicationUnsetMaster, replicationSetMaster, Reconnect,
                Handshake, SlaveOK
  <1>6. chan' \in [Conns -> Channel] /\ \A d \in Conns : d # c => chan'[d] = chan[d]
    <2> HIDE DEF c
    <2>1. CASE chan' = chan BY <1>1, <2>1
    <2>2. CASE c \in Conns /\ chan' = SClose(chan, c)
      <3>1. chan \in [Conns -> Channel] BY <1>1
      <3> QED BY <2>2, <3>1, SCloseIs
    <2> QED BY <1>5, <2>1, <2>2
  <1>7. UNCHANGED <<mvars, init, hist, pos>>
    BY DEF AbortSync, MasterLost, replicationUnsetMaster, replicationSetMaster, hvars
  <1>8. NoMaster.on = FALSE /\ NoMaster \in Link BY InitialTypes DEF NoMaster
  <1>9. ASSUME OnlySlave(s), sc'[s] = NoConn,
               SlaveOK(rs'[s], sc'[s], master'[s], cached'[s], init'[s], sdata'[s], pos'[s])
         PROVE  TypeInv'
    <2>1. SlaveStepOn(s, c) BY <1>4, <1>6, <1>7, <1>9 DEF SlaveStepOn
    <2> QED BY <1>9, <2>1, SlaveTypesStep
  <1>10. CASE AbortSync(s)
    <2>1. /\ rs[s] \in Handshake /\ rs' = [rs EXCEPT ![s] = "CONNECT"] /\ sc' = [sc EXCEPT ![s] = NoConn]
          /\ UNCHANGED <<master, cached>>
          /\ sdata' = sdata \/ sdata' = [sdata EXCEPT ![s] = << >>]
      BY <1>10 DEF AbortSync, Reconnect
    <2>2. rs'[s] = "CONNECT" /\ sc'[s] = NoConn BY <1>1, <2>1 DEF SlaveTypes
    <2>3. sdata'[s] \in Data /\ sdata' = [sdata EXCEPT ![s] = sdata'[s]]
      BY <1>1, <2>1, InitialTypes DEF SlaveTypes
    <2>4. OnlySlave(s) BY <1>1, <1>7, <2>1, <2>3 DEF OnlySlave, SlaveTypes
    <2>5. SlaveOK(rs'[s], sc'[s], master'[s], cached'[s], init'[s], sdata'[s], pos'[s])
      BY <1>2, <1>7, <2>1, <2>2, <2>3 DEF SlaveOK, Handshake
    <2> QED BY <1>9, <2>2, <2>4, <2>5
  <1>11. CASE MasterLost(s)
    <2>1. /\ rs[s] = "CONNECTED" /\ rs' = [rs EXCEPT ![s] = "CONNECT"] /\ sc' = [sc EXCEPT ![s] = NoConn]
          /\ master' = [master EXCEPT ![s] = NoMaster] /\ cached' = [cached EXCEPT ![s] = master[s]]
          /\ UNCHANGED sdata
      BY <1>11 DEF MasterLost, Reconnect
    <2>2. rs'[s] = "CONNECT" /\ sc'[s] = NoConn /\ master'[s] = NoMaster /\ cached'[s] = master[s]
      BY <1>1, <2>1 DEF SlaveTypes
    <2>3. OnlySlave(s) BY <1>1, <1>7, <2>1 DEF OnlySlave, SlaveTypes
    <2>4. SlaveOK(rs'[s], sc'[s], master'[s], cached'[s], init'[s], sdata'[s], pos'[s])
      BY <1>2, <1>7, <1>8, <2>1, <2>2 DEF SlaveOK, Handshake
    <2> QED BY <1>9, <2>2, <2>3, <2>4
  <1>12. CASE replicationUnsetMaster(s)
    <2>1. /\ rs' = [rs EXCEPT ![s] = "NONE"] /\ sc' = [sc EXCEPT ![s] = NoConn]
          /\ master' = [master EXCEPT ![s] = NoMaster] /\ cached' = [cached EXCEPT ![s] = NoMaster]
          /\ UNCHANGED sdata
      BY <1>12 DEF replicationUnsetMaster
    <2>2. rs'[s] = "NONE" /\ sc'[s] = NoConn /\ master'[s] = NoMaster /\ cached'[s] = NoMaster
      BY <1>1, <2>1 DEF SlaveTypes
    <2>3. OnlySlave(s) BY <1>1, <1>7, <2>1 DEF OnlySlave, SlaveTypes
    <2>4. SlaveOK(rs'[s], sc'[s], master'[s], cached'[s], init'[s], sdata'[s], pos'[s])
      BY <1>2, <1>7, <1>8, <2>1, <2>2 DEF SlaveOK, Handshake
    <2> QED BY <1>9, <2>2, <2>3, <2>4
  <1>13. CASE replicationSetMaster(s)
    <2>1. /\ rs[s] = "NONE" /\ rs' = [rs EXCEPT ![s] = "CONNECT"]
          /\ UNCHANGED <<sc, master, cached, sdata>>
      BY <1>13 DEF replicationSetMaster
    <2>2. rs'[s] = "CONNECT" /\ sc'[s] = NoConn BY <1>1, <1>2, <2>1 DEF SlaveTypes, SlaveOK
    <2>3. OnlySlave(s) BY <1>1, <1>7, <2>1 DEF OnlySlave, SlaveTypes
    <2>4. SlaveOK(rs'[s], sc'[s], master'[s], cached'[s], init'[s], sdata'[s], pos'[s])
      BY <1>2, <1>7, <2>1, <2>2 DEF SlaveOK, Handshake
    <2> QED BY <1>9, <2>2, <2>3, <2>4
  <1> QED BY <1>10, <1>11, <1>12, <1>13

\* Every step keeps the types.
LEMMA TypeStep == TypeInv /\ [Next]_vars => TypeInv'
  <1> SUFFICES ASSUME TypeInv, [Next]_vars PROVE TypeInv' OBVIOUS
  <1>1. CASE UNCHANGED vars
    BY <1>1 DEF vars, mvars, svars, hvars, TypeInv, MasterTypes, ClientTypes, ChanTypes,
                SlaveTypes, LinkInv
  <1>2. CASE MasterAlone
    BY <1>2, TypesFeed, TypesSmall, TypesSocketWrites, TypesRestart, TypesCron, TypesChildDone
    DEF MasterAlone
  <1>3. ASSUME NEW c \in Conns, MasterStep(c) \/ MasterDropsSlave(c) \/ NetBreak(c)
        PROVE  TypeInv'
    BY <1>3, TypesSend, TypesFree, TypesSync, TypesSmall, TypesNetBreak DEF MasterStep
  <1>4. ASSUME NEW s \in Slaves, SlaveStep(s) PROVE TypeInv'
    BY <1>4, TypesConnect, TypesPsync, TypesPsyncReply, TypesSlaveSends, TypesRead, TypesLeave
    DEF SlaveStep
  <1> QED BY <1>1, <1>2, <1>3, <1>4 DEF Next

\* In every behaviour the strengthening holds.
LEMMA TypesAlways == Spec => []TypeInv
  <1>1. Init => TypeInv BY TypeInit
  <1>2. TypeInv /\ [Next]_vars => TypeInv' BY TypeStep
  <1> QED BY <1>1, <1>2, PTL DEF Spec

\* The variables of the master and of its slaves keep to the values the code
\* gives them, whatever is lost, late or restarted: in particular the state of
\* a client and server.slaves agree, and a slave has a connection, and a
\* server.master, exactly in the states that use them.
THEOREM ReplicationTypes == Spec => []TypeOK
  BY TypesAlways, TypeInvImplies, PTL

\* The assertions of replicationFeedSlaves and replicationCacheMaster hold:
\* slaves never outlive the backlog, and a master is cached only where none is,
\* which needs that +CONTINUE only answers a slave that sent its cached offset.
THEOREM CodeAssertionsHold == Spec => []AssertionsHold
  BY TypesAlways, TypeInvImplies, PTL
================================================================================
