------------------------------- MODULE AofProofs -------------------------------
(***************************************************************************)
(* Proofs about Aof, for every number of databases, pipe size, transaction *)
(* size and bound: the append only file and its unwritten buffer rebuild   *)
(* the dataset, across rewrites and write errors, and what a crash leaves  *)
(* of the file is a dataset the server had.                                *)
(***************************************************************************)
EXTENDS Aof, SequenceTheorems, WellFoundedInduction, TLAPS

Ids == Nat \X Nat
Data == [Dbs -> Seq(Ids)]
Client == [db : Dbs, data : Data]
Elem == {Sel(d) : d \in Dbs} \cup {Cmd(id) : id \in Ids} \cup { <<"multi">>, <<"exec">> }
Start == [db |-> 0, data |-> Empty]

\* A file s rebuilds the dataset, and leaves selected the database that the next
\* command relies on, if it relies on one.
Joined(s, data, db) ==
    /\ Run(Start, s).data = data
    /\ db # -1 => Run(Start, s).db = db

\* From length n on, every beginning of s rebuilds a dataset of X.
PrefixSafe(s, n, X) == \A k \in n..Len(s) : Run(Start, SubSeq(s, 1, k)).data \in X

\* The datasets since position lo of the history p.
Known(p, lo) == {p[k] : k \in lo..Len(p)}
Floor == IF policy = "always" THEN slept ELSE 1

\* A rewrite child whose file will replace the append only file.
ChildLive == state # "OFF" /\ child.phase \in {"collect", "asked", "answered", "exit0"}
Three(c, p, r) == c \o p \o r
Rewritten == Three(child.tmp, pipe, rwbuf)

\* The types the proofs need besides TypeOK.
Types ==
    /\ mem \in Data
    /\ past \in Seq(Data) /\ past # << >> /\ past[Len(past)] = mem
    /\ used \in [write : Nat, event : Nat, crash : Nat]
    /\ buf \in Seq(Elem) /\ cur \in Seq(Elem)
    /\ child \in [phase : {"none", "collect", "asked", "answered", "exit0", "exit1"}, tmp : Seq(Elem)]
    /\ pipe \in Seq(Elem) /\ rwbuf \in Seq(Elem)

\* The append only file with its buffer, while the AOF is on.
FileInv ==
    state = "ON" =>
        /\ Joined(cur \o buf, mem, seldb)
        /\ PrefixSafe(cur \o buf, dur, Known(past, Floor))
        /\ policy = "always" => dur = Len(cur)

\* The child's file with what is in the pipe and in the rewrite buffer.
ChildInv ==
    /\ child.phase = "exit0" => pipe = << >>
    /\ child.phase \in {"answered", "exit0"} => stop
    /\ ChildLive => /\ Joined(Rewritten, mem, seldb)
                    /\ PrefixSafe(Rewritten, Len(child.tmp), Known(past, 1))

\* Inductive strengthening of TypeOK, ReplayExact and CrashSafe.
AofInv == TypeOK /\ Types /\ FileInv /\ ChildInv

\* f is the fake client after each command of the file s.
Trace(f, st, s) ==
    f = [i \in 0..Len(s) |-> IF i = 0 THEN st ELSE RunCmd(f[i - 1], s[i])]

\* The same, whatever g is elsewhere.
Steps(g, st, s) == g[0] = st /\ \A i \in 1..Len(s) : g[i] = RunCmd(g[i - 1], s[i])

(***************************************************************************)
(* Induction, stated for sets of natural numbers.                          *)
(***************************************************************************)

\* A set of naturals with 0 and every successor is all of Nat.
LEMMA SetInduction ==
    ASSUME NEW T, T \subseteq Nat, 0 \in T, \A n \in T : n + 1 \in T
    PROVE  T = Nat
  <1> DEFINE U == Nat \ T
             R == OpToRel(<, Nat)
  <1> SUFFICES ASSUME U # {} PROVE FALSE OBVIOUS
  <1>1. \E i \in U : \A j \in U : ~(<<j, i>> \in R)
    <2>1. U \subseteq Nat OBVIOUS
    <2> HIDE DEF U, R
    <2>2. IsWellFoundedOn(R, Nat) BY NatLessThanWellFounded DEF R
    <2> QED BY <2>1, <2>2, WFMin
  <1>2. PICK i \in U : \A j \in U : ~(<<j, i>> \in R) BY <1>1
  <1>3. i \in Nat /\ i # 0 /\ i - 1 \in Nat OBVIOUS
  <1>4. i - 1 \notin U
    <2>1. <<i - 1, i>> \in R BY <1>3 DEF OpToRel
    <2> QED BY <1>2, <2>1
  <1>5. i - 1 \in T BY <1>3, <1>4
  <1>6. (i - 1) + 1 \in T BY <1>5
  <1>7. (i - 1) + 1 = i BY <1>3
  <1> QED BY <1>6, <1>7

(***************************************************************************)
(* Loading.                                                                *)
(***************************************************************************)

\* The loading of a file has a trace.
LEMMA TraceExists ==
    ASSUME NEW st, NEW s, Len(s) \in Nat
    PROVE  \E f : Trace(f, st, s)
  <1> DEFINE F(f, m) == f = [i \in 0..m |-> IF i = 0 THEN st ELSE RunCmd(f[i - 1], s[i])]
             T == {m \in Nat : \E f : F(f, m)}
  <1>1. 0 \in T
    <2> DEFINE g == [i \in 0..0 |-> st]
    <2>1. g = [i \in 0..0 |-> IF i = 0 THEN st ELSE RunCmd(g[i - 1], s[i])] OBVIOUS
    <2> QED BY <2>1
  <1>2. ASSUME NEW n \in T PROVE n + 1 \in T
    <2>1. PICK g : F(g, n) OBVIOUS
    <2> DEFINE f == [i \in 0..(n + 1) |-> IF i = n + 1 THEN RunCmd(g[n], s[n + 1]) ELSE g[i]]
               h == [i \in 0..(n + 1) |-> IF i = 0 THEN st ELSE RunCmd(f[i - 1], s[i])]
    <2>2. n \in Nat OBVIOUS
    <2>3. ASSUME NEW i \in 0..(n + 1) PROVE f[i] = h[i]
      <3>1. CASE i = n + 1
        <4>1. f[i - 1] = g[n] /\ i # 0 /\ i - 1 = n BY <2>2, <3>1
        <4>2. f[i] = RunCmd(g[n], s[n + 1]) BY <2>2, <3>1
        <4>3. h[i] = RunCmd(f[i - 1], s[i]) BY <4>1
        <4> QED BY <4>1, <4>2, <4>3, <3>1
      <3>2. CASE i # n + 1
        <4>1. i \in 0..n BY <2>2, <3>2
        <4>2. g[i] = IF i = 0 THEN st ELSE RunCmd(g[i - 1], s[i]) BY <2>1, <4>1, Zenon
        <4>3. f[i] = g[i] BY <2>2, <3>2
        <4>4. CASE i = 0 BY <4>2, <4>3, <4>4
        <4>5. CASE i # 0
          <5>1. i - 1 \in 0..(n + 1) /\ i - 1 # n + 1 BY <2>2, <4>1, <4>5
          <5>2. f[i - 1] = g[i - 1] BY <5>1
          <5>3. h[i] = RunCmd(f[i - 1], s[i]) BY <4>5
          <5> QED BY <4>2, <4>3, <4>5, <5>2, <5>3
        <4> QED BY <4>4, <4>5
      <3> QED BY <3>1, <3>2
    <2>4. f = h BY <2>3
    <2>5. F(f, n + 1) BY <2>4
    <2> QED BY <2>2, <2>5
  <1>3. T = Nat
    <2>1. T \subseteq Nat OBVIOUS
    <2> HIDE DEF T
    <2> QED BY <1>1, <1>2, <2>1, SetInduction
  <1>4. Len(s) \in T BY <1>3
  <1>5. PICK f : F(f, Len(s)) BY <1>4
  <1> QED BY <1>5 DEF Trace

\* Run is the end of its own trace.
LEMMA RunTrace ==
    ASSUME NEW st, NEW s, Len(s) \in Nat
    PROVE  \E f : Trace(f, st, s) /\ Run(st, s) = f[Len(s)]
  <1> DEFINE g == CHOOSE f : f = [i \in 0..Len(s) |-> IF i = 0 THEN st ELSE RunCmd(f[i - 1], s[i])]
  <1>1. \E f : f = [i \in 0..Len(s) |-> IF i = 0 THEN st ELSE RunCmd(f[i - 1], s[i])]
    <2>1. \E f : Trace(f, st, s) BY TraceExists
    <2> QED BY <2>1, Zenon DEF Trace
  <1>2. g = [i \in 0..Len(s) |-> IF i = 0 THEN st ELSE RunCmd(g[i - 1], s[i])]
    BY <1>1, Zenon
  <1>3. Run(st, s) = g[Len(s)] BY DEF Run
  <1> HIDE DEF g
  <1> QED BY <1>2, <1>3 DEF Trace

\* There is one trace.
LEMMA TraceUnique ==
    ASSUME NEW st, NEW s, Len(s) \in Nat, NEW f, NEW g, Steps(f, st, s), Steps(g, st, s)
    PROVE  f[Len(s)] = g[Len(s)]
  <1> DEFINE T == {m \in Nat : m <= Len(s) => f[m] = g[m]}
  <1>1. 0 \in T BY DEF Steps
  <1>2. ASSUME NEW n \in T PROVE n + 1 \in T
    <2> SUFFICES ASSUME n + 1 <= Len(s) PROVE f[n + 1] = g[n + 1] OBVIOUS
    <2>1. f[n] = g[n] /\ n \in Nat OBVIOUS
    <2>2. n + 1 \in 1..Len(s) /\ (n + 1) - 1 = n /\ n + 1 # 0 BY <2>1
    <2>3. g[n + 1] = RunCmd(g[(n + 1) - 1], s[n + 1]) BY <2>2 DEF Steps
    <2>4. f[n + 1] = RunCmd(f[(n + 1) - 1], s[n + 1]) BY <2>2 DEF Steps
    <2> QED BY <2>1, <2>2, <2>3, <2>4
  <1>3. T = Nat
    <2>1. T \subseteq Nat OBVIOUS
    <2> HIDE DEF T
    <2> QED BY <1>1, <1>2, <2>1, SetInduction
  <1> QED BY <1>3

\* A run has steps.
LEMMA RunSteps ==
    ASSUME NEW st, NEW s, Len(s) \in Nat
    PROVE  \E f : Steps(f, st, s) /\ Run(st, s) = f[Len(s)]
  <1>1. PICK f : Trace(f, st, s) /\ Run(st, s) = f[Len(s)] BY RunTrace
  <1>2. \A i \in 0..Len(s) : f[i] = IF i = 0 THEN st ELSE RunCmd(f[i - 1], s[i]) BY <1>1 DEF Trace
  <1>3. Steps(f, st, s)
    <2>1. f[0] = st BY <1>2
    <2>2. ASSUME NEW i \in 1..Len(s) PROVE f[i] = RunCmd(f[i - 1], s[i])
      <3>1. i \in 0..Len(s) /\ i # 0 OBVIOUS
      <3> QED BY <1>2, <3>1
    <2> QED BY <2>1, <2>2 DEF Steps
  <1> QED BY <1>1, <1>3

\* The result of a run, from any description of its steps.
LEMMA RunIs ==
    ASSUME NEW st, NEW s, Len(s) \in Nat, NEW g, Steps(g, st, s)
    PROVE  Run(st, s) = g[Len(s)]
  <1>1. PICK f : Steps(f, st, s) /\ Run(st, s) = f[Len(s)] BY RunSteps
  <1> QED BY <1>1, TraceUnique

\* An empty file changes nothing.
LEMMA RunEmpty == ASSUME NEW st PROVE Run(st, << >>) = st
  <1> DEFINE g == [i \in {0} |-> st]
  <1>1. Len(<< >>) = 0 OBVIOUS
  <1>2. Steps(g, st, << >>) BY <1>1 DEF Steps
  <1>3. g[0] = st OBVIOUS
  <1> HIDE DEF g
  <1> QED BY <1>1, <1>2, <1>3, RunIs

\* One command.
LEMMA RunOne == ASSUME NEW st, NEW e PROVE Run(st, <<e>>) = RunCmd(st, e)
  <1> DEFINE g == [i \in 0..1 |-> IF i = 0 THEN st ELSE RunCmd(st, e)]
  <1>1. Len(<<e>>) = 1 /\ <<e>>[1] = e OBVIOUS
  <1>2. g[0] = st /\ g[1] = RunCmd(st, e) OBVIOUS
  <1> HIDE DEF g
  <1>3. Steps(g, st, <<e>>) BY <1>1, <1>2 DEF Steps
  <1> QED BY <1>1, <1>2, <1>3, RunIs

\* A file in two parts.
LEMMA RunConcat ==
    ASSUME NEW S, NEW s \in Seq(S), NEW t \in Seq(S), NEW st
    PROVE  Run(st, s \o t) = Run(Run(st, s), t)
  <1>1. Len(s) \in Nat /\ Len(t) \in Nat /\ Len(s \o t) = Len(s) + Len(t) OBVIOUS
  <1>2. PICK f : Steps(f, st, s) /\ Run(st, s) = f[Len(s)] BY <1>1, RunSteps
  <1>3. PICK h : Steps(h, Run(st, s), t) /\ Run(Run(st, s), t) = h[Len(t)] BY <1>1, RunSteps
  <1> DEFINE g == [i \in 0..Len(s \o t) |-> IF i <= Len(s) THEN f[i] ELSE h[i - Len(s)]]
  <1>4. Steps(g, st, s \o t)
    <2>1. g[0] = st BY <1>1, <1>2 DEF Steps
    <2>2. ASSUME NEW i \in 1..Len(s \o t) PROVE g[i] = RunCmd(g[i - 1], (s \o t)[i])
      <3>1. CASE i <= Len(s)
        <4>1. g[i] = f[i] /\ g[i - 1] = f[i - 1] /\ (s \o t)[i] = s[i] /\ i \in 1..Len(s)
          BY <1>1, <3>1
        <4> QED BY <1>2, <4>1 DEF Steps
      <3>2. CASE i > Len(s)
        <4> DEFINE j == i - Len(s)
        <4>1. j \in 1..Len(t) /\ (s \o t)[i] = t[j] /\ g[i] = h[j] BY <1>1, <3>2
        <4>2. g[i - 1] = h[j - 1]
          <5>1. CASE j = 1
            <6>1. g[i - 1] = f[Len(s)] BY <1>1, <5>1
            <6>2. h[0] = f[Len(s)] BY <1>2, <1>3 DEF Steps
            <6> QED BY <5>1, <6>1, <6>2
          <5>2. CASE j # 1
            <6>1. i - 1 > Len(s) /\ i - 1 \in 0..Len(s \o t) /\ (i - 1) - Len(s) = j - 1
              BY <1>1, <4>1, <5>2
            <6> QED BY <1>1, <6>1
          <5> QED BY <5>1, <5>2
        <4>3. h[j] = RunCmd(h[j - 1], t[j]) BY <1>3, <4>1 DEF Steps
        <4> QED BY <4>1, <4>2, <4>3
      <3> QED BY <1>1, <3>1, <3>2
    <2> QED BY <2>1, <2>2 DEF Steps
  <1>5. g[Len(s \o t)] = h[Len(t)]
    <2>1. CASE Len(t) = 0
      <3>1. g[Len(s \o t)] = f[Len(s)] BY <1>1, <2>1
      <3>2. h[0] = f[Len(s)] BY <1>2, <1>3 DEF Steps
      <3> QED BY <2>1, <3>1, <3>2
    <2>2. CASE Len(t) # 0 BY <1>1, <2>2
    <2> QED BY <2>1, <2>2
  <1>6. Run(st, s \o t) = g[Len(s \o t)]
    <2> DEFINE u == s \o t
    <2>1. Len(u) \in Nat BY <1>1
    <2> HIDE DEF u, g
    <2>2. Steps(g, st, u) => Run(st, u) = g[Len(u)] BY <2>1, RunIs
    <2> QED BY <1>4, <2>2 DEF u
  <1> QED BY <1>3, <1>5, <1>6

(***************************************************************************)
(* The commands of a file.                                                 *)
(***************************************************************************)

\* SELECT, a write, MULTI and EXEC, one command each.
LEMMA RunCmds ==
    ASSUME NEW st \in Client
    PROVE  /\ \A d \in Dbs : RunCmd(st, Sel(d)) = [st EXCEPT !.db = d]
           /\ \A id \in Ids : RunCmd(st, Cmd(id)) = [st EXCEPT !.data[st.db] = Append(@, id)]
           /\ RunCmd(st, <<"multi">>) = st
           /\ RunCmd(st, <<"exec">>) = st
  BY DEF RunCmd, Sel, Cmd

\* Commands of a file.
LEMMA ElemIs ==
    /\ \A d \in Dbs : Sel(d) \in Elem
    /\ \A id \in Ids : Cmd(id) \in Elem
    /\ <<"multi">> \in Elem /\ <<"exec">> \in Elem
  BY DEF Elem

\* The fake client stays a client.
LEMMA RunCmdType ==
    ASSUME NEW st \in Client, NEW e \in Elem
    PROVE  RunCmd(st, e) \in Client
  <1>1. CASE \E d \in Dbs : e = Sel(d) BY <1>1, RunCmds DEF Client
  <1>2. CASE \E id \in Ids : e = Cmd(id)
    <2>1. PICK id \in Ids : e = Cmd(id) BY <1>2
    <2>2. RunCmd(st, e) = [st EXCEPT !.data[st.db] = Append(@, id)] BY <2>1, RunCmds
    <2>3. st.data \in [Dbs -> Seq(Ids)] /\ st.db \in Dbs BY DEF Client, Data
    <2>4. Append(st.data[st.db], id) \in Seq(Ids) BY <2>3
    <2>5. [st.data EXCEPT ![st.db] = Append(@, id)] \in Data BY <2>3, <2>4 DEF Data
    <2> QED BY <2>2, <2>5 DEF Client
  <1>3. CASE e \in {<<"multi">>, <<"exec">>} BY <1>3, RunCmds
  <1> QED BY <1>1, <1>2, <1>3 DEF Elem

\* Also after a whole file.
LEMMA RunType ==
    ASSUME NEW st \in Client, NEW s \in Seq(Elem)
    PROVE  Run(st, s) \in Client
  <1>1. Len(s) \in Nat OBVIOUS
  <1>2. PICK f : Steps(f, st, s) /\ Run(st, s) = f[Len(s)] BY <1>1, RunSteps
  <1> DEFINE T == {m \in Nat : m <= Len(s) => f[m] \in Client}
  <1>3. 0 \in T BY <1>2 DEF Steps
  <1>4. ASSUME NEW n \in T PROVE n + 1 \in T
    <2> SUFFICES ASSUME n + 1 <= Len(s) PROVE f[n + 1] \in Client OBVIOUS
    <2>1. f[n] \in Client /\ n \in Nat BY <1>1
    <2>2. n + 1 \in 1..Len(s) /\ (n + 1) - 1 = n BY <1>1, <2>1
    <2>3. f[n + 1] = RunCmd(f[n], s[n + 1]) BY <1>2, <2>2 DEF Steps
    <2>4. s[n + 1] \in Elem BY <2>2
    <2> QED BY <2>1, <2>3, <2>4, RunCmdType
  <1>5. T = Nat
    <2>1. T \subseteq Nat OBVIOUS
    <2> HIDE DEF T
    <2> QED BY <1>3, <1>4, <2>1, SetInduction
  <1>6. Len(s) \in T BY <1>1, <1>5
  <1> QED BY <1>1, <1>2, <1>6

\* A loading starts with database 0 selected and nothing in it.
LEMMA StartType == Start \in Client /\ Empty \in Data /\ 0 \in Dbs /\ -1 \notin Dbs
  <1>1. DbNum \in Nat \ {0} BY AofAssumption
  <1>2. 0 \in Dbs /\ -1 \notin Dbs BY <1>1 DEF Dbs
  <1>3. Empty \in Data BY DEF Empty, Data
  <1> QED BY <1>2, <1>3 DEF Start, Client

\* Appending to a concatenation.
LEMMA AppendConcat ==
    ASSUME NEW S, NEW s \in Seq(S), NEW t \in Seq(S), NEW e, e \in S
    PROVE  Append(s \o t, e) = s \o Append(t, e)
  <1>1. s \o t \in Seq(S) /\ <<e>> \in Seq(S) OBVIOUS
  <1>2. Append(s \o t, e) = (s \o t) \o <<e>> BY <1>1, AppendIsConcat
  <1>3. Append(t, e) = t \o <<e>> BY AppendIsConcat
  <1>4. (s \o t) \o <<e>> = s \o (t \o <<e>>) BY <1>1, ConcatAssociative
  <1> QED BY <1>2, <1>3, <1>4

\* The writes ids as commands, and what they make of a dataset.
Cmds(ids) == [i \in 1..Len(ids) |-> Cmd(ids[i])]
Added(data, d, ids) == [data EXCEPT ![d] = @ \o ids]

\* They are commands of a file.
LEMMA CmdsType ==
    ASSUME NEW ids \in Seq(Ids)
    PROVE  Cmds(ids) \in Seq(Elem) /\ Len(Cmds(ids)) = Len(ids)
  <1>1. Len(ids) \in Nat /\ \A i \in 1..Len(ids) : Cmd(ids[i]) \in Elem BY ElemIs
  <1> QED BY <1>1 DEF Cmds

\* They are appended to the selected database, in order.
LEMMA RunWrites ==
    ASSUME NEW st \in Client, NEW ids \in Seq(Ids)
    PROVE  Run(st, Cmds(ids)) = [st EXCEPT !.data[st.db] = @ \o ids]
  <1> DEFINE n == Len(ids)
             G(i) == [st EXCEPT !.data[st.db] = @ \o SubSeq(ids, 1, i)]
             g == [i \in 0..n |-> G(i)]
             s == Cmds(ids)
  <1>0. n \in Nat /\ Len(s) = n /\ s \in Seq(Elem) BY CmdsType
  <1>1. st.data \in [Dbs -> Seq(Ids)] /\ st.db \in Dbs /\ st.data[st.db] \in Seq(Ids)
    BY DEF Client, Data
  <1>2. \A i \in 0..n : SubSeq(ids, 1, i) \in Seq(Ids) BY <1>0
  <1>3. g[0] = st
    <2>1. SubSeq(ids, 1, 0) = << >> OBVIOUS
    <2>2. st.data[st.db] \o << >> = st.data[st.db] BY <1>1
    <2>3. [st.data EXCEPT ![st.db] = st.data[st.db]] = st.data BY <1>1
    <2>4. [st EXCEPT !.data = st.data] = st BY DEF Client
    <2>5. G(0) = [st EXCEPT !.data = [st.data EXCEPT ![st.db] = st.data[st.db] \o SubSeq(ids, 1, 0)]]
      OBVIOUS
    <2>6. G(0) = st BY <2>1, <2>2, <2>3, <2>4, <2>5
    <2> QED BY <1>0, <2>6
  <1>4. ASSUME NEW i \in 1..n PROVE g[i] = RunCmd(g[i - 1], s[i])
    <2> DEFINE b == st.data[st.db]
               p == SubSeq(ids, 1, i - 1)
               x == g[i - 1]
    <2>1. i - 1 \in 0..n /\ i \in 0..n /\ ids[i] \in Ids BY <1>0
    <2>2. p \in Seq(Ids) BY <1>2, <2>1
    <2>3. x = [st EXCEPT !.data = [st.data EXCEPT ![st.db] = b \o p]] BY <2>1
    <2>4. [st.data EXCEPT ![st.db] = b \o p] \in Data
      <3>1. b \o p \in Seq(Ids) BY <1>1, <2>2
      <3> QED BY <1>1, <3>1 DEF Data
    <2>5. x.db = st.db /\ x.data = [st.data EXCEPT ![st.db] = b \o p] /\ x \in Client
      BY <2>3, <2>4 DEF Client
    <2>6. s[i] = Cmd(ids[i]) BY DEF Cmds
    <2>7. RunCmd(x, s[i]) = [x EXCEPT !.data[x.db] = Append(@, ids[i])]
      <3> HIDE DEF x
      <3> QED BY <2>1, <2>5, <2>6, RunCmds
    <2>8. SubSeq(ids, 1, i) = Append(p, ids[i]) BY <1>0
    <2>9. Append(b \o p, ids[i]) = b \o Append(p, ids[i])
      <3>1. b \in Seq(Ids) BY <1>1
      <3> HIDE DEF b, p
      <3> DEFINE e == ids[i]
      <3>2. e \in Ids BY <2>1
      <3> HIDE DEF e
      <3> QED BY <2>2, <3>1, <3>2, AppendConcat DEF e
    <2>10. x.data[x.db] = b \o p BY <1>1, <2>5
    <2>11. [x EXCEPT !.data[x.db] = Append(@, ids[i])]
           = [st EXCEPT !.data = [st.data EXCEPT ![st.db] = b \o SubSeq(ids, 1, i)]]
      <3> DEFINE q == b \o SubSeq(ids, 1, i)
                 y == [st.data EXCEPT ![st.db] = b \o p]
      <3>1. [x.data EXCEPT ![x.db] = Append(x.data[x.db], ids[i])] = [st.data EXCEPT ![st.db] = q]
        <4>1. Append(x.data[x.db], ids[i]) = q BY <2>8, <2>9, <2>10
        <4>2. x.data = y /\ x.db = st.db BY <2>5
        <4> HIDE DEF q, x, b, p
        <4>3. [y EXCEPT ![st.db] = q] = [st.data EXCEPT ![st.db] = q] BY <1>1
        <4> QED BY <4>1, <4>2, <4>3
      <3>2. [x EXCEPT !.data = [st.data EXCEPT ![st.db] = q]]
            = [st EXCEPT !.data = [st.data EXCEPT ![st.db] = q]]
        <4> HIDE DEF q, b, p
        <4> QED BY <2>3 DEF Client
      <3> HIDE DEF x
      <3> QED BY <3>1, <3>2
    <2>12. g[i] = [st EXCEPT !.data = [st.data EXCEPT ![st.db] = b \o SubSeq(ids, 1, i)]] BY <2>1
    <2> QED BY <2>7, <2>11, <2>12
  <1>5. Steps(g, st, s)
    <2> HIDE DEF g, s
    <2> QED BY <1>0, <1>3, <1>4 DEF Steps
  <1>6. g[Len(s)] = [st EXCEPT !.data[st.db] = @ \o ids]
    <2>1. SubSeq(ids, 1, n) = ids BY <1>0
    <2>2. n \in 0..n BY <1>0
    <2>3. g[n] = G(n) BY <2>2
    <2>4. G(n) = [st EXCEPT !.data[st.db] = @ \o ids] BY <2>1
    <2> QED BY <1>0, <2>3, <2>4
  <1>7. Run(st, s) = g[Len(s)]
    <2> HIDE DEF g, s
    <2> QED BY <1>0, <1>5, RunIs
  <1> QED BY <1>6, <1>7

\* SELECT and writes of one database.
LEMMA RunSelWrites ==
    ASSUME NEW st \in Client, NEW d \in Dbs, NEW ids \in Seq(Ids)
    PROVE  /\ <<Sel(d)>> \o Cmds(ids) \in Seq(Elem)
           /\ Run(st, <<Sel(d)>> \o Cmds(ids)).data = Added(st.data, d, ids)
           /\ Run(st, <<Sel(d)>> \o Cmds(ids)).db = d
  <1> DEFINE x == [st EXCEPT !.db = d]
  <1>1. <<Sel(d)>> \in Seq(Elem) /\ Cmds(ids) \in Seq(Elem) BY ElemIs, CmdsType
  <1>2. Run(st, <<Sel(d)>>) = x BY RunOne, RunCmds
  <1>3. x \in Client /\ x.db = d /\ x.data = st.data BY DEF Client
  <1> HIDE DEF x
  <1>4. Run(st, <<Sel(d)>> \o Cmds(ids)) = Run(x, Cmds(ids)) BY <1>1, <1>2, RunConcat
  <1>5. Run(x, Cmds(ids)) = [x EXCEPT !.data[x.db] = @ \o ids] BY <1>3, RunWrites
  <1>6. [x EXCEPT !.data[x.db] = @ \o ids].data = [x.data EXCEPT ![x.db] = @ \o ids]
        /\ [x EXCEPT !.data[x.db] = @ \o ids].db = x.db BY <1>3 DEF Client
  <1>7. [x.data EXCEPT ![x.db] = @ \o ids] = [st.data EXCEPT ![d] = @ \o ids] BY <1>3
  <1>8. <<Sel(d)>> \o Cmds(ids) \in Seq(Elem) BY <1>1
  <1>9. Run(st, <<Sel(d)>> \o Cmds(ids)).data = [x.data EXCEPT ![x.db] = @ \o ids]
        /\ Run(st, <<Sel(d)>> \o Cmds(ids)).db = x.db BY <1>4, <1>5, <1>6, Zenon
  <1> QED BY <1>3, <1>7, <1>8, <1>9, Zenon DEF Added

\* The function inside Rebuild.
RebuildFcn(f, m, n) ==
    f = [j \in 0..n |-> IF j = 0 THEN << >> ELSE f[j - 1] \o RebuildDb(m, j - 1)]

\* It exists.
LEMMA RebuildExists ==
    ASSUME NEW m, NEW k \in Nat
    PROVE  \E f : RebuildFcn(f, m, k)
  <1> DEFINE T == {n \in Nat : \E f : RebuildFcn(f, m, n)}
  <1>1. 0 \in T
    <2> DEFINE g == [i \in 0..0 |-> << >>]
    <2>1. g = [j \in 0..0 |-> IF j = 0 THEN << >> ELSE g[j - 1] \o RebuildDb(m, j - 1)] OBVIOUS
    <2> QED BY <2>1 DEF RebuildFcn
  <1>2. ASSUME NEW n \in T PROVE n + 1 \in T
    <2>1. PICK g : RebuildFcn(g, m, n) OBVIOUS
    <2> DEFINE f == [i \in 0..(n + 1) |-> IF i = n + 1 THEN g[n] \o RebuildDb(m, n) ELSE g[i]]
               h == [j \in 0..(n + 1) |-> IF j = 0 THEN << >> ELSE f[j - 1] \o RebuildDb(m, j - 1)]
    <2>2. n \in Nat OBVIOUS
    <2>3. ASSUME NEW i \in 0..(n + 1) PROVE f[i] = h[i]
      <3>1. CASE i = n + 1
        <4>1. f[i - 1] = g[n] /\ i # 0 /\ i - 1 = n BY <2>2, <3>1
        <4>2. f[i] = g[n] \o RebuildDb(m, n) BY <2>2, <3>1
        <4>3. h[i] = f[i - 1] \o RebuildDb(m, i - 1) BY <4>1
        <4> QED BY <4>1, <4>2, <4>3, <3>1
      <3>2. CASE i # n + 1
        <4>1. i \in 0..n BY <2>2, <3>2
        <4>2. g[i] = IF i = 0 THEN << >> ELSE g[i - 1] \o RebuildDb(m, i - 1)
          BY <2>1, <4>1, Zenon DEF RebuildFcn
        <4>3. f[i] = g[i] BY <2>2, <3>2
        <4>4. CASE i = 0 BY <4>2, <4>3, <4>4
        <4>5. CASE i # 0
          <5>1. i - 1 \in 0..(n + 1) /\ i - 1 # n + 1 BY <2>2, <4>1, <4>5
          <5>2. f[i - 1] = g[i - 1] BY <5>1
          <5>3. h[i] = f[i - 1] \o RebuildDb(m, i - 1) BY <4>5
          <5> QED BY <4>2, <4>3, <4>5, <5>2, <5>3
        <4> QED BY <4>4, <4>5
      <3> QED BY <3>1, <3>2
    <2>4. f = h BY <2>3
    <2>5. RebuildFcn(f, m, n + 1) BY <2>4 DEF RebuildFcn
    <2> QED BY <2>2, <2>5
  <1>3. T = Nat
    <2>1. T \subseteq Nat OBVIOUS
    <2> HIDE DEF T
    <2> QED BY <1>1, <1>2, <2>1, SetInduction
  <1> QED BY <1>3

\* The commands written for one database add its contents to a client that has
\* none of them.
LEMMA RebuildDbLoads ==
    ASSUME NEW m \in Data, NEW d \in Dbs, NEW st \in Client, st.data[d] = << >>
    PROVE  /\ RebuildDb(m, d) \in Seq(Elem)
           /\ Run(st, RebuildDb(m, d)).data = [st.data EXCEPT ![d] = m[d]]
  <1>1. m[d] \in Seq(Ids) /\ st.data \in [Dbs -> Seq(Ids)] BY DEF Data, Client
  <1>2. CASE m[d] = << >>
    <2>1. RebuildDb(m, d) = << >> BY <1>2 DEF RebuildDb
    <2>2. [st.data EXCEPT ![d] = m[d]] = st.data BY <1>1, <1>2
    <2> QED BY <2>1, <2>2, RunEmpty
  <1>3. CASE m[d] # << >>
    <2>1. RebuildDb(m, d) = <<Sel(d)>> \o Cmds(m[d]) BY <1>3 DEF RebuildDb, Cmds
    <2>2. st.data[d] \o m[d] = m[d] BY <1>1
    <2>3. /\ <<Sel(d)>> \o Cmds(m[d]) \in Seq(Elem)
          /\ Run(st, <<Sel(d)>> \o Cmds(m[d])).data = [st.data EXCEPT ![d] = @ \o m[d]]
      <3> DEFINE ids == m[d]
      <3>1. ids \in Seq(Ids) BY <1>1
      <3> HIDE DEF ids
      <3>2. /\ <<Sel(d)>> \o Cmds(ids) \in Seq(Elem)
            /\ Run(st, <<Sel(d)>> \o Cmds(ids)).data = Added(st.data, d, ids)
        BY <3>1, RunSelWrites
      <3> QED BY <3>2, Zenon DEF ids, Added
    <2> QED BY <2>1, <2>2, <2>3, Zenon
  <1> QED BY <1>2, <1>3

\* What rewriteAppendOnlyFile writes rebuilds the dataset.
LEMMA RebuildLoads ==
    ASSUME NEW m \in Data
    PROVE  Rebuild(m) \in Seq(Elem) /\ Run(Start, Rebuild(m)).data = m
  <1>0. DbNum \in Nat BY AofAssumption
  <1> DEFINE g == CHOOSE f : f = [j \in 0..DbNum |-> IF j = 0 THEN << >> ELSE f[j - 1] \o RebuildDb(m, j - 1)]
             Part(j) == [d \in Dbs |-> IF d < j THEN m[d] ELSE << >>]
             T == {j \in Nat : j <= DbNum => /\ g[j] \in Seq(Elem)
                                            /\ Run(Start, g[j]).data = Part(j)}
  <1>1. Rebuild(m) = g[DbNum] BY DEF Rebuild
  <1>2. \A j \in 0..DbNum : g[j] = IF j = 0 THEN << >> ELSE g[j - 1] \o RebuildDb(m, j - 1)
    <2>1. \E f : RebuildFcn(f, m, DbNum) BY <1>0, RebuildExists
    <2>2. g = [j \in 0..DbNum |-> IF j = 0 THEN << >> ELSE g[j - 1] \o RebuildDb(m, j - 1)]
      BY <2>1, Zenon DEF RebuildFcn
    <2> HIDE DEF g
    <2> QED BY <2>2, Zenon
  <1> HIDE DEF g
  <1>3. 0 \in T
    <2>1. g[0] = << >> BY <1>0, <1>2
    <2>2. Part(0) = Empty BY DEF Empty, Dbs
    <2>3. Run(Start, << >>).data = Empty BY RunEmpty DEF Start
    <2> HIDE DEF Part
    <2>4. g[0] \in Seq(Elem) /\ Run(Start, g[0]).data = Part(0) BY <2>1, <2>2, <2>3
    <2> QED BY <2>4
  <1>4. ASSUME NEW j \in T PROVE j + 1 \in T
    <2> SUFFICES ASSUME j + 1 <= DbNum
                 PROVE  g[j + 1] \in Seq(Elem) /\ Run(Start, g[j + 1]).data = Part(j + 1)
      OBVIOUS
    <2> DEFINE x == Run(Start, g[j])
    <2>1. j \in Nat /\ g[j] \in Seq(Elem) /\ x.data = Part(j) BY <1>0
    <2>2. j \in Dbs /\ j + 1 \in 0..DbNum /\ (j + 1) - 1 = j /\ j + 1 # 0 BY <1>0, <2>1 DEF Dbs
    <2>3. g[j + 1] = g[j] \o RebuildDb(m, j) BY <1>2, <2>2
    <2>4. x \in Client BY <2>1, StartType, RunType
    <2>5. x.data[j] = << >> BY <2>1, <2>2
    <2> HIDE DEF x
    <2>6. RebuildDb(m, j) \in Seq(Elem) /\ Run(x, RebuildDb(m, j)).data = [x.data EXCEPT ![j] = m[j]]
      BY <2>2, <2>4, <2>5, RebuildDbLoads
    <2>7. Run(Start, g[j + 1]) = Run(x, RebuildDb(m, j))
      BY <2>1, <2>3, <2>6, RunConcat DEF x
    <2>8. [Part(j) EXCEPT ![j] = m[j]] = Part(j + 1)
      <3>1. \A d \in Dbs : d \in Int BY <1>0 DEF Dbs
      <3> QED BY <2>1, <2>2, <3>1
    <2>9. g[j + 1] \in Seq(Elem) BY <2>1, <2>3, <2>6
    <2> HIDE DEF Part
    <2> QED BY <2>1, <2>6, <2>7, <2>8, <2>9
  <1>5. T = Nat
    <2>1. T \subseteq Nat OBVIOUS
    <2> HIDE DEF T
    <2> QED BY <1>3, <1>4, <2>1, SetInduction
  <1>6. DbNum \in T BY <1>0, <1>5
  <1>7. Part(DbNum) = m
    <2>1. \A d \in Dbs : d < DbNum BY <1>0 DEF Dbs
    <2> QED BY <2>1 DEF Data
  <1> HIDE DEF Part
  <1> QED BY <1>0, <1>1, <1>6, <1>7

(***************************************************************************)
(* Beginnings of a file.                                                   *)
(***************************************************************************)

\* Every beginning of s, run from st, gives a dataset of X.
Within(st, s, X) == \A n \in 0..Len(s) : Run(st, SubSeq(s, 1, n)).data \in X

\* Nothing to run.
LEMMA WithinEmpty ==
    ASSUME NEW st, NEW X, st.data \in X
    PROVE  Within(st, << >>, X)
  <1>1. \A n \in 0..Len(<< >>) : SubSeq(<< >>, 1, n) = << >> OBVIOUS
  <1> QED BY <1>1, RunEmpty DEF Within

\* One command.
LEMMA WithinOne ==
    ASSUME NEW st, NEW e, NEW X, st.data \in X, RunCmd(st, e).data \in X
    PROVE  Within(st, <<e>>, X)
  <1>1. SubSeq(<<e>>, 1, 0) = << >> /\ SubSeq(<<e>>, 1, 1) = <<e>> /\ Len(<<e>>) = 1
    <2>1. Len(<<e>>) = 1 /\ <<e>> \in Seq({e}) OBVIOUS
    <2>2. SubSeq(<<e>>, 1, Len(<<e>>)) = <<e>> BY <2>1, SubSeqFull
    <2> QED BY <2>1, <2>2
  <1>2. Run(st, << >>).data \in X /\ Run(st, <<e>>).data \in X BY RunEmpty, RunOne
  <1>3. ASSUME NEW n \in 0..Len(<<e>>) PROVE Run(st, SubSeq(<<e>>, 1, n)).data \in X
    <2>1. n = 0 \/ n = 1 BY <1>1
    <2>2. CASE n = 0
      <3>1. SubSeq(<<e>>, 1, n) = << >> BY <1>1, <2>2
      <3> QED BY <1>2, <3>1
    <2>3. CASE n = 1
      <3>1. SubSeq(<<e>>, 1, n) = <<e>> BY <1>1, <2>3
      <3> QED BY <1>2, <3>1
    <2> QED BY <2>1, <2>2, <2>3
  <1> QED BY <1>3 DEF Within

\* The beginnings of a concatenation.
LEMMA ConcatPrefix ==
    ASSUME NEW S, NEW s \in Seq(S), NEW t \in Seq(S), NEW n \in 0..Len(s \o t)
    PROVE  /\ n <= Len(s) => SubSeq(s \o t, 1, n) = SubSeq(s, 1, n)
           /\ n >= Len(s) => /\ n - Len(s) \in 0..Len(t)
                             /\ SubSeq(s \o t, 1, n) = s \o SubSeq(t, 1, n - Len(s))
  <1>1. Len(s) \in Nat /\ Len(t) \in Nat /\ Len(s \o t) = Len(s) + Len(t) /\ s \o t \in Seq(S)
    OBVIOUS
  <1>2. ASSUME n <= Len(s) PROVE SubSeq(s \o t, 1, n) = SubSeq(s, 1, n)
    BY <1>1, <1>2
  <1>3. ASSUME n >= Len(s)
        PROVE  /\ n - Len(s) \in 0..Len(t)
               /\ SubSeq(s \o t, 1, n) = s \o SubSeq(t, 1, n - Len(s))
    <2> DEFINE j == n - Len(s)
    <2>1. j \in 0..Len(t) BY <1>1, <1>3
    <2>2. SubSeq(t, 1, j) \in Seq(S) /\ Len(SubSeq(t, 1, j)) = j BY <1>1, <2>1
    <2>3. SubSeq(s \o t, 1, n) \in Seq(S) /\ Len(SubSeq(s \o t, 1, n)) = n BY <1>1
    <2>4. s \o SubSeq(t, 1, j) \in Seq(S) /\ Len(s \o SubSeq(t, 1, j)) = n BY <1>1, <2>1, <2>2
    <2>5. \A i \in 1..n : SubSeq(s \o t, 1, n)[i] = (s \o SubSeq(t, 1, j))[i]
      BY <1>1, <2>1, <2>2
    <2> QED BY <2>1, <2>3, <2>4, <2>5, SeqEqual
  <1> QED BY <1>2, <1>3

\* A file in two parts.
LEMMA WithinConcat ==
    ASSUME NEW st, NEW X, NEW s \in Seq(Elem), NEW t \in Seq(Elem),
           Within(st, s, X), Within(Run(st, s), t, X)
    PROVE  Within(st, s \o t, X)
  <1> SUFFICES ASSUME NEW n \in 0..Len(s \o t)
               PROVE  Run(st, SubSeq(s \o t, 1, n)).data \in X
    BY DEF Within
  <1>1. Len(s) \in Nat /\ Len(t) \in Nat /\ n \in Nat OBVIOUS
  <1>2. CASE n <= Len(s)
    <2>1. SubSeq(s \o t, 1, n) = SubSeq(s, 1, n) BY <1>2, ConcatPrefix
    <2>2. n \in 0..Len(s) BY <1>1, <1>2
    <2> QED BY <2>1, <2>2 DEF Within
  <1>3. CASE n >= Len(s)
    <2> DEFINE j == n - Len(s)
    <2>1. j \in 0..Len(t) /\ SubSeq(s \o t, 1, n) = s \o SubSeq(t, 1, j) BY <1>3, ConcatPrefix
    <2>2. SubSeq(t, 1, j) \in Seq(Elem) BY <1>1, <2>1
    <2>3. Run(st, s \o SubSeq(t, 1, j)) = Run(Run(st, s), SubSeq(t, 1, j)) BY <2>2, RunConcat
    <2> HIDE DEF j
    <2> QED BY <2>1, <2>3 DEF Within
  <1> QED BY <1>1, <1>2, <1>3

\* The writes of a request, one by one.
LEMMA WithinCmds ==
    ASSUME NEW st \in Client, NEW ids \in Seq(Ids), NEW X, st.data \in X,
           \A i \in 1..Len(ids) : Added(st.data, st.db, SubSeq(ids, 1, i)) \in X
    PROVE  Within(st, Cmds(ids), X)
  <1>1. Len(ids) \in Nat /\ Cmds(ids) \in Seq(Elem) /\ Len(Cmds(ids)) = Len(ids) BY CmdsType
  <1> SUFFICES ASSUME NEW n \in 0..Len(ids)
               PROVE  Run(st, SubSeq(Cmds(ids), 1, n)).data \in X
    BY <1>1 DEF Within
  <1> DEFINE p == SubSeq(ids, 1, n)
  <1>2. p \in Seq(Ids) /\ Len(p) = n BY <1>1
  <1>3. SubSeq(Cmds(ids), 1, n) = Cmds(p)
    <2>1. SubSeq(Cmds(ids), 1, n) \in Seq(Elem) /\ Len(SubSeq(Cmds(ids), 1, n)) = n BY <1>1
    <2>2. Cmds(p) \in Seq(Elem) /\ Len(Cmds(p)) = n BY <1>2, CmdsType
    <2>3. ASSUME NEW i \in 1..n PROVE SubSeq(Cmds(ids), 1, n)[i] = Cmds(p)[i]
      <3>1. SubSeq(Cmds(ids), 1, n)[i] = Cmds(ids)[i] BY <1>1
      <3>2. i \in 1..Len(ids) BY <1>1
      <3>3. p[i] = ids[i] BY <1>1
      <3> QED BY <1>2, <3>1, <3>2, <3>3 DEF Cmds
    <2> QED BY <2>1, <2>2, <2>3, SeqEqual
  <1>4. CASE n = 0
    <2>1. Cmds(p) = << >>
      <3> HIDE DEF p
      <3>1. Cmds(p) \in Seq(Elem) /\ Len(Cmds(p)) = 0 BY <1>2, <1>4, CmdsType
      <3> QED BY <3>1, EmptySeq
    <2> QED BY <1>3, <2>1, RunEmpty
  <1>5. CASE n # 0
    <2>1. Run(st, Cmds(p)) = [st EXCEPT !.data[st.db] = @ \o p]
      <3> HIDE DEF p
      <3> QED BY <1>2, RunWrites
    <2>2. Run(st, Cmds(p)).data = Added(st.data, st.db, p)
      <3> HIDE DEF p
      <3> QED BY <2>1 DEF Added, Client
    <2>3. n \in 1..Len(ids) BY <1>1, <1>5
    <2> QED BY <1>3, <2>2, <2>3
  <1> QED BY <1>4, <1>5

\* What feedAppendOnlyFile appends for the writes ids on database d.
Els(db, d, ids) ==
    (IF db = d THEN << >> ELSE <<Sel(d)>>)
    \o (IF Len(ids) = 1 THEN Cmds(ids) ELSE << <<"multi">> >> \o Cmds(ids) \o << <<"exec">> >>)

\* The commands of a request, in MULTI and EXEC or not, do its writes.
LEMMA FeedBody ==
    ASSUME NEW st \in Client, NEW ids \in Seq(Ids), NEW X, st.data \in X,
           \A i \in 1..Len(ids) : Added(st.data, st.db, SubSeq(ids, 1, i)) \in X,
           NEW body,
           \/ body = Cmds(ids)
           \/ ids # << >> /\ body = << <<"multi">> >> \o Cmds(ids) \o << <<"exec">> >>
    PROVE  /\ body \in Seq(Elem)
           /\ Within(st, body, X)
           /\ Run(st, body).data = Added(st.data, st.db, ids)
           /\ Run(st, body).db = st.db
  <1> DEFINE c == Cmds(ids)
             y == [st EXCEPT !.data[st.db] = @ \o ids]
  <1>1. c \in Seq(Elem) BY CmdsType
  <1>2. Within(st, c, X) BY WithinCmds
  <1>3. Run(st, c) = y BY RunWrites
  <1>4. y.data = Added(st.data, st.db, ids) /\ y.db = st.db BY DEF Client, Added
  <1>5. y \in Client BY <1>1, <1>3, RunType
  <1> HIDE DEF c, y
  <1>6. CASE body = c BY <1>1, <1>2, <1>3, <1>4, <1>6
  <1>7. CASE ids # << >> /\ body = << <<"multi">> >> \o c \o << <<"exec">> >>
    <2> DEFINE m == << <<"multi">> >>
               e == << <<"exec">> >>
    <2>1. m \in Seq(Elem) /\ e \in Seq(Elem) BY ElemIs
    <2>2. RunCmd(st, <<"multi">>) = st /\ RunCmd(y, <<"exec">>) = y BY <1>5, RunCmds
    <2>3. Run(st, m) = st /\ Within(st, m, X) BY <2>2, RunOne, WithinOne
    <2>4. y.data \in X
      <3>1. Len(ids) \in 1..Len(ids) BY <1>7, EmptySeq
      <3>2. SubSeq(ids, 1, Len(ids)) = ids BY SubSeqFull
      <3> QED BY <1>4, <3>1, <3>2
    <2>5. Run(y, e) = y /\ Within(y, e, X) BY <2>2, <2>4, RunOne, WithinOne
    <2> HIDE DEF m, e
    <2>6. m \o c \in Seq(Elem) BY <1>1, <2>1
    <2>7. Run(st, m \o c) = y BY <1>1, <1>3, <2>1, <2>3, RunConcat
    <2>8. Within(st, m \o c, X) BY <1>1, <1>2, <2>1, <2>3, WithinConcat
    <2>9. (m \o c) \o e \in Seq(Elem) BY <2>1, <2>6
    <2>10. Run(st, (m \o c) \o e) = y BY <2>1, <2>5, <2>6, <2>7, RunConcat
    <2>11. Within(st, (m \o c) \o e, X) BY <2>1, <2>5, <2>6, <2>7, <2>8, WithinConcat
    <2>12. body = (m \o c) \o e BY <1>7 DEF m, e
    <2> QED BY <1>4, <2>9, <2>10, <2>11, <2>12
  <1> QED BY <1>6, <1>7 DEF c

\* Also with the SELECT before it, if the file needs one.
LEMMA FeedRun ==
    ASSUME NEW st \in Client, NEW d \in Dbs, NEW ids \in Seq(Ids), ids # << >>,
           NEW db, db = d => st.db = d, NEW X, st.data \in X,
           \A i \in 1..Len(ids) : Added(st.data, d, SubSeq(ids, 1, i)) \in X
    PROVE  /\ Els(db, d, ids) \in Seq(Elem)
           /\ Within(st, Els(db, d, ids), X)
           /\ Run(st, Els(db, d, ids)).data = Added(st.data, d, ids)
           /\ Run(st, Els(db, d, ids)).db = d
  <1> DEFINE head == IF db = d THEN << >> ELSE <<Sel(d)>>
             body == IF Len(ids) = 1 THEN Cmds(ids)
                     ELSE << <<"multi">> >> \o Cmds(ids) \o << <<"exec">> >>
             x == Run(st, head)
  <1>0. Els(db, d, ids) = head \o body BY DEF Els
  <1>1. head \in Seq(Elem) BY ElemIs
  <1>2. Within(st, head, X) /\ x \in Client /\ x.db = d /\ x.data = st.data
    <2>1. CASE db = d
      <3>1. head = << >> BY <2>1
      <3> QED BY <2>1, <3>1, RunEmpty, WithinEmpty
    <2>2. CASE db # d
      <3>1. head = <<Sel(d)>> BY <2>2
      <3>2. RunCmd(st, Sel(d)) = [st EXCEPT !.db = d] BY RunCmds
      <3>3. RunCmd(st, Sel(d)) \in Client /\ RunCmd(st, Sel(d)).db = d /\ RunCmd(st, Sel(d)).data = st.data
        BY <3>2 DEF Client
      <3> QED BY <3>1, <3>3, RunOne, WithinOne
    <2> QED BY <2>1, <2>2
  <1>3. (body = Cmds(ids)) \/ (ids # << >> /\ body = << <<"multi">> >> \o Cmds(ids) \o << <<"exec">> >>)
    OBVIOUS
  <1> HIDE DEF head, body, x
  <1>4. /\ body \in Seq(Elem) /\ Within(x, body, X)
        /\ Run(x, body).data = Added(x.data, x.db, ids) /\ Run(x, body).db = x.db
    BY <1>2, <1>3, FeedBody
  <1>5. Run(st, head \o body) = Run(x, body) BY <1>1, <1>4, RunConcat DEF x
  <1>6. Within(st, head \o body, X) BY <1>1, <1>2, <1>4, WithinConcat DEF x
  <1>7. head \o body \in Seq(Elem) BY <1>1, <1>4
  <1> QED BY <1>0, <1>2, <1>4, <1>5, <1>6, <1>7

\* A file that rebuilds the dataset still does after a request is fed to it, and
\* its beginnings rebuild what they did or what the request went through.
LEMMA FeedStream ==
    ASSUME NEW s \in Seq(Elem), NEW data, NEW db \in Dbs \cup {-1}, Joined(s, data, db),
           NEW d \in Dbs, NEW ids \in Seq(Ids), ids # << >>,
           NEW n \in Nat, NEW X, NEW Y, PrefixSafe(s, n, X), X \subseteq Y, data \in Y,
           \A i \in 1..Len(ids) : Added(data, d, SubSeq(ids, 1, i)) \in Y
    PROVE  /\ Els(db, d, ids) \in Seq(Elem)
           /\ Joined(s \o Els(db, d, ids), Added(data, d, ids), d)
           /\ PrefixSafe(s \o Els(db, d, ids), n, Y)
  <1> DEFINE e == Els(db, d, ids)
             x == Run(Start, s)
  <1>1. x \in Client BY StartType, RunType
  <1>2. x.data = data /\ (db # -1 => x.db = db) BY DEF Joined
  <1>3. db = d => x.db = d BY <1>2, StartType
  <1> HIDE DEF x
  <1>4. e \in Seq(Elem) /\ Within(x, e, Y) /\ Run(x, e).data = Added(data, d, ids) /\ Run(x, e).db = d
    BY <1>1, <1>2, <1>3, FeedRun
  <1> HIDE DEF e
  <1>5. Run(Start, s \o e) = Run(x, e) BY <1>4, RunConcat DEF x
  <1>6. Joined(s \o e, Added(data, d, ids), d) BY <1>4, <1>5 DEF Joined
  <1>7. ASSUME NEW k \in n..Len(s \o e) PROVE Run(Start, SubSeq(s \o e, 1, k)).data \in Y
    <2>0. Len(s) \in Nat /\ k \in 0..Len(s \o e) BY <1>4
    <2>1. CASE k <= Len(s)
      <3>1. SubSeq(s \o e, 1, k) = SubSeq(s, 1, k) BY <1>4, <2>0, <2>1, ConcatPrefix
      <3>2. k \in n..Len(s) BY <2>0, <2>1
      <3> QED BY <3>1, <3>2 DEF PrefixSafe
    <2>2. CASE k >= Len(s)
      <3> DEFINE j == k - Len(s)
      <3>1. j \in 0..Len(e) /\ SubSeq(s \o e, 1, k) = s \o SubSeq(e, 1, j)
        BY <1>4, <2>0, <2>2, ConcatPrefix
      <3>2. SubSeq(e, 1, j) \in Seq(Elem) BY <1>4, <3>1
      <3>3. Run(Start, s \o SubSeq(e, 1, j)) = Run(x, SubSeq(e, 1, j)) BY <3>2, RunConcat DEF x
      <3> HIDE DEF j
      <3> QED BY <1>4, <3>1, <3>3 DEF Within
    <2> QED BY <2>0, <2>1, <2>2
  <1>8. PrefixSafe(s \o e, n, Y) BY <1>7 DEF PrefixSafe
  <1> QED BY <1>4, <1>6, <1>8 DEF e

(***************************************************************************)
(* The pieces of the invariant.                                            *)
(***************************************************************************)

\* A later start, a larger set.
LEMMA PrefixWeaken ==
    ASSUME NEW s \in Seq(Elem), NEW n \in Int, NEW k \in Int, n <= k, NEW X, NEW Y, X \subseteq Y,
           PrefixSafe(s, n, X)
    PROVE  PrefixSafe(s, k, Y)
  <1>1. Len(s) \in Nat OBVIOUS
  <1>2. \A i \in k..Len(s) : i \in n..Len(s) BY <1>1
  <1> QED BY <1>2 DEF PrefixSafe

\* The whole file.
LEMMA PrefixWhole ==
    ASSUME NEW s \in Seq(Elem), NEW data, NEW db, Joined(s, data, db), NEW X, data \in X
    PROVE  PrefixSafe(s, Len(s), X)
  <1>1. Len(s) \in Nat /\ SubSeq(s, 1, Len(s)) = s BY SubSeqFull
  <1>2. ASSUME NEW k \in Len(s)..Len(s) PROVE Run(Start, SubSeq(s, 1, k)).data \in X
    <2>1. k = Len(s) BY <1>1
    <2> QED BY <1>1, <2>1 DEF Joined
  <1> QED BY <1>2 DEF PrefixSafe

\* Forgetting the selected database.
LEMMA JoinedWeaken ==
    ASSUME NEW s, NEW data, NEW db, Joined(s, data, db), NEW x, x \in {db, -1}
    PROVE  Joined(s, data, x)
  BY DEF Joined

\* The present dataset is in the history.
LEMMA KnownMem ==
    ASSUME AofInv
    PROVE  /\ slept \in 1..Len(past) /\ Floor \in 1..Len(past) /\ Len(past) \in Nat
           /\ \A lo \in 1..Len(past) : mem \in Known(past, lo)
           /\ \A lo \in 1..Len(past) : Known(past, lo) \subseteq Known(past, 1)
  <1>1. Len(past) \in Nat \ {0} /\ past[Len(past)] = mem BY EmptySeq DEF AofInv, Types
  <1>2. slept \in 1..Len(past) BY <1>1 DEF AofInv, TypeOK
  <1>3. Floor \in 1..Len(past) BY <1>1, <1>2 DEF Floor
  <1>4. \A lo \in 1..Len(past) : mem \in Known(past, lo)
    <2> TAKE lo \in 1..Len(past)
    <2>1. Len(past) \in lo..Len(past) BY <1>1
    <2> QED BY <1>1, <2>1 DEF Known
  <1>5. \A lo \in 1..Len(past) : Known(past, lo) \subseteq Known(past, 1)
    <2> TAKE lo \in 1..Len(past)
    <2>1. \A k \in lo..Len(past) : k \in 1..Len(past) BY <1>1
    <2> QED BY <2>1 DEF Known
  <1> QED BY <1>1, <1>2, <1>3, <1>4, <1>5

\* Steps that write nothing new into the file and do not touch the dataset.
LEMMA FileFrame ==
    ASSUME AofInv, UNCHANGED <<policy, state, mem, past>>, seldb' \in {seldb, -1},
           cur' \o buf' = cur \o buf, cur \o buf \in Seq(Elem),
           dur \in Int, dur' \in Int, dur <= dur',
           policy = "always" => dur' = Len(cur'), slept' \in {slept, Len(past)},
           slept' = slept \/ policy # "always" \/ dur' = Len(cur \o buf)
    PROVE  FileInv'
  <1> SUFFICES ASSUME state = "ON"
               PROVE  /\ Joined(cur \o buf, mem, seldb')
                      /\ PrefixSafe(cur \o buf, dur', Known(past, Floor'))
    BY DEF FileInv
  <1>1. Joined(cur \o buf, mem, seldb) /\ PrefixSafe(cur \o buf, dur, Known(past, Floor))
    BY DEF AofInv, FileInv
  <1>2. Joined(cur \o buf, mem, seldb') BY <1>1, JoinedWeaken
  <1>3. CASE Floor' = Floor
    <2>1. PrefixSafe(cur \o buf, dur', Known(past, Floor)) BY <1>1, PrefixWeaken
    <2> QED BY <1>2, <1>3, <2>1
  <1>4. CASE Floor' # Floor
    <2>1. policy = "always" /\ dur' = Len(cur \o buf) BY <1>4 DEF Floor
    <2>2. Floor' \in 1..Len(past) BY <1>4, KnownMem DEF Floor
    <2>3. mem \in Known(past, Floor') BY <2>2, KnownMem
    <2>4. PrefixSafe(cur \o buf, Len(cur \o buf), Known(past, Floor'))
      <3> DEFINE X == Known(past, Floor')
      <3> HIDE DEF X
      <3>1. PrefixSafe(cur \o buf, Len(cur \o buf), X) BY <1>2, <2>3, PrefixWhole DEF X
      <3> QED BY <3>1 DEF X
    <2> QED BY <1>2, <2>1, <2>4
  <1> QED BY <1>3, <1>4

\* Steps that move data between the rewrite buffer, the pipe and the child's file.
LEMMA ChildFrame ==
    ASSUME AofInv, UNCHANGED <<mem, past>>, seldb' \in {seldb, -1},
           ChildLive' => ChildLive, Rewritten' = Rewritten, Rewritten \in Seq(Elem),
           Len(child.tmp) \in Int, Len(child'.tmp) \in Int, Len(child.tmp) <= Len(child'.tmp),
           child'.phase = "exit0" => pipe' = << >>,
           child'.phase \in {"answered", "exit0"} => stop'
    PROVE  ChildInv'
  <1> SUFFICES ASSUME ChildLive'
               PROVE  /\ Joined(Rewritten, mem, seldb')
                      /\ PrefixSafe(Rewritten, Len(child'.tmp), Known(past, 1))
    BY DEF ChildInv
  <1>1. Joined(Rewritten, mem, seldb) /\ PrefixSafe(Rewritten, Len(child.tmp), Known(past, 1))
    BY DEF AofInv, ChildInv
  <1>2. Joined(Rewritten, mem, seldb') BY <1>1, JoinedWeaken
  <1>3. PrefixSafe(Rewritten, Len(child'.tmp), Known(past, 1)) BY <1>1, PrefixWeaken
  <1> QED BY <1>2, <1>3

\* Steps that have nothing to do with the child.
LEMMA ChildSame ==
    ASSUME ChildInv, UNCHANGED <<mem, past, state, seldb, childvars>>
    PROVE  ChildInv'
  BY DEF ChildInv, ChildLive, Rewritten, childvars

\* What a step needs to know of the files.
LEMMA FileTypes ==
    ASSUME AofInv
    PROVE  /\ cur \in Seq(Elem) /\ buf \in Seq(Elem) /\ cur \o buf \in Seq(Elem)
           /\ child.tmp \in Seq(Elem) /\ pipe \in Seq(Elem) /\ rwbuf \in Seq(Elem)
           /\ child.tmp \o pipe \in Seq(Elem) /\ Rewritten \in Seq(Elem)
           /\ Len(cur) \in Nat /\ Len(buf) \in Nat /\ Len(child.tmp) \in Nat
           /\ dur \in 0..Len(cur)
  <1>1. /\ cur \in Seq(Elem) /\ buf \in Seq(Elem)
        /\ child.tmp \in Seq(Elem) /\ pipe \in Seq(Elem) /\ rwbuf \in Seq(Elem)
    BY DEF AofInv, Types
  <1>2. dur \in 0..Len(cur) BY DEF AofInv, TypeOK
  <1>3. child.tmp \o pipe \in Seq(Elem) BY <1>1
  <1>4. Rewritten \in Seq(Elem) BY <1>1, <1>3 DEF Rewritten, Three
  <1> QED BY <1>1, <1>2, <1>3, <1>4

\* Writing a beginning of the buffer moves it to the end of the file.
LEMMA FlushJoin ==
    ASSUME NEW c \in Seq(Elem), NEW b \in Seq(Elem), NEW n \in 1..Len(b)
    PROVE  /\ c \o SubSeq(b, 1, n) \in Seq(Elem) /\ SubSeq(b, n + 1, Len(b)) \in Seq(Elem)
           /\ Len(c) <= Len(c \o SubSeq(b, 1, n))
           /\ (c \o SubSeq(b, 1, n)) \o SubSeq(b, n + 1, Len(b)) = c \o b
  <1> DEFINE x == SubSeq(b, 1, n)
             y == SubSeq(b, n + 1, Len(b))
  <1>1. n \in Nat /\ Len(b) \in Nat /\ n <= Len(b) OBVIOUS
  <1>2. x \in Seq(Elem) /\ y \in Seq(Elem) BY <1>1
  <1>3. x \o y = b
    <2>1. x \o y = SubSeq(b, 1, Len(b)) BY <1>1, ConcatAdjacentSubSeq
    <2> QED BY <2>1, SubSeqFull
  <1> HIDE DEF x, y
  <1>4. (c \o x) \o y = c \o (x \o y) BY <1>2, ConcatAssociative
  <1>5. c \o x \in Seq(Elem) /\ Len(c) <= Len(c \o x) BY <1>2
  <1>6. /\ c \o x \in Seq(Elem) /\ y \in Seq(Elem) /\ Len(c) <= Len(c \o x)
        /\ (c \o x) \o y = c \o b
    BY <1>2, <1>3, <1>4, <1>5
  <1> QED BY <1>6 DEF x, y

\* The first block of r goes to the end of p.
Sent(p, r, p2, r2) == r # << >> /\ p2 = Append(p, Head(r)) /\ r2 = Tail(r)

\* Sending the first block of the rewrite buffer moves it to the end of the pipe.
LEMMA SendJoin ==
    ASSUME NEW c \in Seq(Elem), NEW p \in Seq(Elem), NEW r \in Seq(Elem),
           NEW p2, NEW r2, Sent(p, r, p2, r2)
    PROVE  /\ p2 \in Seq(Elem) /\ r2 \in Seq(Elem) /\ Len(p2) = Len(p) + 1
           /\ Three(c, p2, r2) = Three(c, p, r)
  <1> DEFINE e == Head(r)
             u == Tail(r)
  <1>0. r # << >> /\ p2 = Append(p, e) /\ r2 = u BY DEF Sent
  <1>1. e \in Elem /\ u \in Seq(Elem) BY <1>0, HeadTailProperties
  <1>2. r = <<e>> \o u BY <1>0
  <1> HIDE DEF e, u
  <1>3. <<e>> \in Seq(Elem) /\ c \o p \in Seq(Elem) BY <1>1
  <1>4. Append(p, e) = p \o <<e>> BY <1>1, AppendIsConcat
  <1>5. c \o (p \o <<e>>) = (c \o p) \o <<e>> BY <1>3, ConcatAssociative
  <1>6. ((c \o p) \o <<e>>) \o u = (c \o p) \o (<<e>> \o u) BY <1>1, <1>3, ConcatAssociative
  <1>7. Append(p, e) \in Seq(Elem) /\ Len(Append(p, e)) = Len(p) + 1 BY <1>1
  <1>8. (c \o Append(p, e)) \o u = (c \o p) \o r BY <1>2, <1>4, <1>5, <1>6
  <1> QED BY <1>0, <1>1, <1>7, <1>8 DEF Three

\* Counting a step.
LEMMA SpendType ==
    ASSUME Types, NEW k \in {"write", "event", "crash"}, NEW max, Spend(k, max)
    PROVE  used' \in [write : Nat, event : Nat, crash : Nat]
  <1>1. used \in [write : Nat, event : Nat, crash : Nat] BY DEF Types
  <1>2. used' = [used EXCEPT ![k] = @ + 1] BY DEF Spend
  <1>3. CASE k = "write" BY <1>1, <1>2, <1>3
  <1>4. CASE k = "event" BY <1>1, <1>2, <1>4
  <1>5. CASE k = "crash" BY <1>1, <1>2, <1>5
  <1> QED BY <1>3, <1>4, <1>5

(***************************************************************************)
(* The steps.                                                              *)
(***************************************************************************)

\* The server starts with an empty file or with the AOF off.
LEMMA AofInit == Init => AofInv
  <1> SUFFICES ASSUME Init PROVE AofInv OBVIOUS
  <1>1. DbNum \in Nat \ {0} /\ PipeSize \in Nat BY AofAssumption
  <1>2. << >> \in Seq(Elem) /\ Len(<< >>) = 0 OBVIOUS
  <1>3. past \in Seq(Data) /\ past # << >> /\ Len(past) = 1 /\ past[1] = Empty
    BY StartType DEF Init
  <1>4. TypeOK BY <1>1, <1>3 DEF Init, TypeOK, NoChild, Dbs
  <1>5. Types BY <1>2, <1>3, StartType DEF Init, Types, NoChild
  <1>6. FileInv
    <2>1. cur \o buf = << >> /\ Len(cur) = 0 /\ dur = 0 /\ seldb = -1 /\ mem = Empty BY DEF Init
    <2>2. Run(Start, << >>).data = Empty BY RunEmpty DEF Start
    <2>3. Joined(<< >>, mem, seldb) BY <2>1, <2>2 DEF Joined
    <2>4. mem \in Known(past, Floor)
      <3>1. Floor = 1 BY DEF Floor, Init
      <3> QED BY <1>3, <2>1, <3>1 DEF Known
    <2>5. PrefixSafe(<< >>, Len(<< >>), Known(past, Floor)) BY <1>2, <2>3, <2>4, PrefixWhole
    <2> QED BY <1>2, <2>1, <2>3, <2>5 DEF FileInv
  <1>7. ChildInv BY DEF Init, ChildInv, ChildLive, NoChild
  <1> QED BY <1>4, <1>5, <1>6, <1>7 DEF AofInv

\* flushAppendOnlyFile, however much of it is written.
LEMMA StepBeforeSleep == ASSUME AofInv, BeforeSleep PROVE AofInv'
  <1> USE FileTypes, KnownMem
  <1>0. TypeOK /\ Types BY DEF AofInv
  <1>1. /\ UNCHANGED <<policy, mem, state, seldb, past, childvars>>
        /\ slept' = Len(past) /\ acked' = Len(past)
    BY DEF BeforeSleep
  <1>2. used' \in [write : Nat, event : Nat, crash : Nat]
    BY <1>0, SpendType DEF BeforeSleep, Types
  <1>3. /\ cur' \in Seq(Elem) /\ buf' \in Seq(Elem) /\ cur' \o buf' = cur \o buf
        /\ dur' \in dur..Len(cur') /\ postponed' \in 0..2 /\ fd' = fd
        /\ state = "ON" /\ policy = "always" => dur' = Len(cur') /\ dur' = Len(cur \o buf)
    <2>1. ASSUME buf = << >>, UNCHANGED <<buf, filevars, flushvars, used>> PROVE <1>3
      BY <1>0, <2>1 DEF filevars, flushvars, AofInv, FileInv, TypeOK
    <2>2. ASSUME buf # << >>, MustPostpone, postponed' = IF postponed = 0 THEN 1 ELSE postponed,
                 UNCHANGED <<buf, filevars, due, werr, used>>
          PROVE  <1>3
      BY <1>0, <2>2 DEF filevars, MustPostpone, TypeOK
    <2>3. ASSUME FlushWrites PROVE <1>3
      <3>1. cur' = cur \o buf /\ buf' = << >> /\ postponed' = 0 /\ fd' = fd BY <2>3 DEF FlushWrites
      <3>2. cur' \in Seq(Elem) /\ Len(cur') = Len(cur) + Len(buf) /\ cur' \o << >> = cur' BY <3>1
      <3>3. dur' = Len(cur') \/ (policy # "always" /\ dur' = dur) BY <2>3 DEF FlushWrites
      <3>4. buf' \in Seq(Elem) BY <3>1
      <3>5. dur' \in dur..Len(cur') BY <3>2, <3>3
      <3> QED BY <3>1, <3>2, <3>3, <3>4, <3>5
    <2>4. ASSUME FlushFails, policy # "always" \/ fd # "current" PROVE <1>3
      BY <1>0, <2>4 DEF FlushFails, filevars, TypeOK
    <2>5. ASSUME NEW n \in 1..(Len(buf) - 1), FlushShort(n), policy # "always" PROVE <1>3
      <3>1. n \in 1..Len(buf) OBVIOUS
      <3>2. /\ cur' = cur \o SubSeq(buf, 1, n) /\ buf' = SubSeq(buf, n + 1, Len(buf))
            /\ postponed' = 0 /\ fd' = fd /\ dur' = dur
        BY <2>5 DEF FlushShort
      <3>3. /\ cur' \in Seq(Elem) /\ buf' \in Seq(Elem) /\ Len(cur) <= Len(cur')
            /\ cur' \o buf' = cur \o buf
        BY <3>1, <3>2, FlushJoin
      <3>4. dur' \in dur..Len(cur') /\ postponed' \in 0..2 BY <3>2, <3>3
      <3> QED BY <2>5, <3>2, <3>3, <3>4, Zenon
    <2> QED BY <2>1, <2>2, <2>3, <2>4, <2>5 DEF BeforeSleep
  <1>4. TypeOK' BY <1>0, <1>1, <1>3 DEF TypeOK, childvars
  <1>5. Types' BY <1>0, <1>1, <1>2, <1>3 DEF Types, childvars
  <1>6. FileInv'
    <2>1. CASE state = "ON"
      <3>1. dur \in Int /\ dur' \in Int /\ dur <= dur' BY <1>3
      <3> QED BY <1>1, <1>3, <2>1, <3>1, FileFrame
    <2>2. CASE state # "ON" BY <1>1, <2>2 DEF FileInv
    <2> QED BY <2>1, <2>2
  <1>7. ChildInv'
    <2>1. ChildInv BY DEF AofInv
    <2> QED BY <1>1, <2>1, ChildSame
  <1> QED BY <1>4, <1>5, <1>6, <1>7 DEF AofInv

\* A reply, a second passing, an fsync done: nothing moves.
LEMMA StepQuiet == ASSUME AofInv, EarlyReply \/ Tick \/ BioFsync PROVE AofInv'
  <1> USE FileTypes, KnownMem
  <1>0. TypeOK /\ Types BY DEF AofInv
  <1>1. /\ UNCHANGED <<policy, mem, state, seldb, buf, cur, fd, past, slept, used, childvars>>
        /\ dur' \in {dur, Len(cur)} /\ postponed' \in 0..2
        /\ acked' \in {acked, Len(past)}
    BY <1>0 DEF EarlyReply, Tick, BioFsync, filevars, flushvars, TypeOK
  <1>2. TypeOK' BY <1>0, <1>1 DEF TypeOK, childvars
  <1>3. Types' BY <1>0, <1>1 DEF Types, childvars
  <1>4. FileInv'
    <2>1. CASE state = "ON"
      <3>1. dur \in Int /\ dur' \in Int /\ dur <= dur' BY <1>1
      <3>2. policy = "always" => dur' = Len(cur') BY <1>1, <2>1 DEF AofInv, FileInv
      <3>3. cur' \o buf' = cur \o buf BY <1>1
      <3> QED BY <1>1, <3>1, <3>2, <3>3, FileFrame
    <2>2. CASE state # "ON" BY <1>1, <2>2 DEF FileInv
    <2> QED BY <2>1, <2>2
  <1>5. ChildInv'
    <2>1. ChildInv BY DEF AofInv
    <2> QED BY <1>1, <2>1, ChildSame
  <1> QED BY <1>2, <1>3, <1>4, <1>5 DEF AofInv

\* The fork: the child's file holds the dataset and nothing is on its way.
LEMMA ForkInv ==
    ASSUME AofInv, Fork, child.phase = "none", UNCHANGED <<mem, past, rwbuf>>
    PROVE  /\ ChildInv'
           /\ child' \in [phase : {"collect"}, tmp : Seq(Elem)]
           /\ pipe' = << >> /\ seldb' = -1
  <1>1. mem \in Data /\ rwbuf = << >> BY DEF AofInv, Types, TypeOK
  <1> DEFINE f == Rebuild(mem)
  <1>2. f \in Seq(Elem) /\ Run(Start, f).data = mem BY <1>1, RebuildLoads
  <1> HIDE DEF f
  <1>3. child' = [phase |-> "collect", tmp |-> f] /\ pipe' = << >> /\ seldb' = -1 BY DEF Fork, f
  <1>4. Rewritten' = f
    <2>1. child'.tmp = f /\ rwbuf' = << >> /\ pipe' = << >> BY <1>1, <1>3
    <2>2. f \o << >> = f BY <1>2, ConcatEmptySeq
    <2> QED BY <2>1, <2>2 DEF Rewritten, Three
  <1>5. Joined(f, mem, -1) BY <1>2 DEF Joined
  <1>6. mem \in Known(past, 1) BY KnownMem
  <1>7. PrefixSafe(f, Len(f), Known(past, 1)) BY <1>2, <1>5, <1>6, PrefixWhole
  <1> QED BY <1>2, <1>3, <1>4, <1>5, <1>7 DEF ChildInv

\* rewriteAppendOnlyFileBackground.
LEMMA StepRewrite == ASSUME AofInv, rewriteAppendOnlyFileBackground PROVE AofInv'
  <1> USE FileTypes, KnownMem
  <1>0. TypeOK /\ Types BY DEF AofInv
  <1>1. /\ UNCHANGED <<policy, mem, state, buf, past, acked, slept, filevars, flushvars, rwbuf>>
        /\ Fork /\ child.phase = "none"
    BY DEF rewriteAppendOnlyFileBackground
  <1>2. used' \in [write : Nat, event : Nat, crash : Nat]
    BY <1>0, SpendType DEF rewriteAppendOnlyFileBackground, Types
  <1>3. /\ ChildInv' /\ pipe' = << >> /\ seldb' = -1
        /\ child' \in [phase : {"collect"}, tmp : Seq(Elem)]
    BY <1>1, ForkInv
  <1>4. PipeSize \in Nat BY AofAssumption
  <1>5. TypeOK' BY <1>0, <1>1, <1>3, <1>4 DEF TypeOK, filevars, flushvars
  <1>6. Types' BY <1>0, <1>1, <1>2, <1>3 DEF Types, filevars, flushvars
  <1>7. FileInv'
    <2>1. cur' = cur /\ buf' = buf /\ dur' = dur BY <1>1 DEF filevars
    <2>2. CASE state = "ON"
      <3>1. policy = "always" => dur' = Len(cur') BY <2>1, <2>2 DEF AofInv, FileInv
      <3>2. cur' \o buf' = cur \o buf /\ dur \in Int /\ dur' \in Int /\ dur <= dur' BY <2>1
      <3> QED BY <1>1, <1>3, <3>1, <3>2, FileFrame
    <2>3. CASE state # "ON" BY <1>1, <2>3 DEF FileInv
    <2> QED BY <2>2, <2>3
  <1> QED BY <1>3, <1>5, <1>6, <1>7 DEF AofInv

\* startAppendOnly.
LEMMA StepStart == ASSUME AofInv, startAppendOnly PROVE AofInv'
  <1> USE FileTypes, KnownMem
  <1>0. TypeOK /\ Types BY DEF AofInv
  <1>1. /\ UNCHANGED <<policy, mem, buf, past, acked, slept, flushvars, rwbuf, cur, dur, jobs>>
        /\ state = "OFF"
    BY DEF startAppendOnly
  <1>2. used' \in [write : Nat, event : Nat, crash : Nat] BY <1>0, SpendType DEF startAppendOnly
  <1>3. PipeSize \in Nat BY AofAssumption
  <1>4. ASSUME child.phase = "none", Fork, state' = "WAIT", fd' = "current" PROVE AofInv'
    <2>1. /\ ChildInv' /\ pipe' = << >> /\ seldb' = -1
          /\ child' \in [phase : {"collect"}, tmp : Seq(Elem)]
      BY <1>1, <1>4, ForkInv
    <2>2. TypeOK' BY <1>0, <1>1, <1>3, <1>4, <2>1 DEF TypeOK, flushvars
    <2>3. Types' BY <1>0, <1>1, <1>2, <2>1 DEF Types, flushvars
    <2>4. FileInv' BY <1>4 DEF FileInv
    <2> QED BY <2>1, <2>2, <2>3, <2>4 DEF AofInv
  <1>5. ASSUME fd' = "closed", UNCHANGED <<state, seldb, scheduled, child, pipe, stop>> PROVE AofInv'
    <2>1. TypeOK' BY <1>0, <1>1, <1>5 DEF TypeOK, flushvars
    <2>2. Types' BY <1>0, <1>1, <1>2, <1>5 DEF Types, flushvars
    <2>3. FileInv' BY <1>1, <1>5 DEF FileInv
    <2>4. ChildInv' BY <1>1, <1>5 DEF AofInv, ChildInv, ChildLive
    <2> QED BY <2>1, <2>2, <2>3, <2>4 DEF AofInv
  <1> QED BY <1>4, <1>5 DEF startAppendOnly

\* aofChildWriteDiffData: one block goes from the rewrite buffer into the pipe.
LEMMA StepSendDiff == ASSUME AofInv, aofChildWriteDiffData PROVE AofInv'
  <1>0. TypeOK /\ Types BY DEF AofInv
  <1>1. /\ UNCHANGED <<policy, mem, state, seldb, buf, past, acked, slept, used, filevars, flushvars,
                       scheduled, child, stop>>
        /\ child.phase # "none" /\ rwbuf # << >> /\ Len(pipe) < PipeSize
        /\ pipe' = Append(pipe, Head(rwbuf)) /\ rwbuf' = Tail(rwbuf)
    BY DEF aofChildWriteDiffData
  <1>2. PipeSize \in Nat BY AofAssumption
  <1>3. pipe' \in Seq(Elem) /\ rwbuf' \in Seq(Elem) /\ Len(pipe') = Len(pipe) + 1
        /\ Three(child.tmp, pipe', rwbuf') = Three(child.tmp, pipe, rwbuf)
    <2> DEFINE c == child.tmp
    <2>1. c \in Seq(Elem) /\ pipe \in Seq(Elem) /\ rwbuf \in Seq(Elem) BY FileTypes
    <2> HIDE DEF c
    <2>2. pipe' \in Seq(Elem) /\ rwbuf' \in Seq(Elem) /\ Len(pipe') = Len(pipe) + 1
          /\ Three(c, pipe', rwbuf') = Three(c, pipe, rwbuf)
      <3>1. Sent(pipe, rwbuf, pipe', rwbuf') BY <1>1 DEF Sent
      <3> QED BY <2>1, <3>1, SendJoin
    <2> QED BY <2>2 DEF c
  <1>4. Rewritten' = Rewritten BY <1>1, <1>3 DEF Rewritten
  <1>5. Len(pipe') <= PipeSize
    <2>1. Len(pipe) \in Nat BY FileTypes
    <2> QED BY <1>1, <1>2, <1>3, <2>1
  <1>6. TypeOK' BY <1>0, <1>1, <1>5 DEF TypeOK, filevars, flushvars
  <1>7. Types' BY <1>0, <1>1, <1>3 DEF Types, filevars, flushvars
  <1>8. FileInv'
    <2>1. cur' = cur /\ buf' = buf /\ dur' = dur /\ Floor' = Floor BY <1>1 DEF filevars, Floor
    <2> QED BY <1>1, <2>1 DEF AofInv, FileInv
  <1>9. ChildInv'
    <2>1. child.phase \notin {"answered", "exit0"} BY DEF aofChildWriteDiffData, AofInv, ChildInv
    <2>2. ChildLive' => ChildLive BY <1>1 DEF ChildLive
    <2>3. child' = child BY <1>1
    <2> QED BY <1>1, <1>4, <2>1, <2>2, <2>3, FileTypes, ChildFrame
  <1> QED BY <1>6, <1>7, <1>8, <1>9 DEF AofInv

\* Steps of the child: it reads the pipe, stops, and ends.
LEMMA StepChild ==
    ASSUME AofInv,
           \/ aofReadDiffFromParent \/ ChildAsksStop \/ aofChildPipeReadable \/ ChildExits \/ ChildFails
    PROVE  AofInv'
  <1> USE FileTypes
  <1>0. TypeOK /\ Types BY DEF AofInv
  <1>1. /\ UNCHANGED <<policy, mem, state, seldb, buf, past, acked, slept, filevars, flushvars,
                       scheduled, rwbuf>>
        /\ child.phase # "none"
    BY DEF aofReadDiffFromParent, ChildAsksStop, aofChildPipeReadable, ChildExits, ChildFails, ChildPhase
  <1>2. used' \in [write : Nat, event : Nat, crash : Nat]
    <2>1. CASE ChildFails BY <1>0, <2>1, SpendType DEF ChildFails
    <2>2. CASE ~ChildFails
      BY <1>0, <2>2 DEF aofReadDiffFromParent, ChildAsksStop, aofChildPipeReadable, ChildExits, ChildPhase,
                        Types
    <2> QED BY <2>1, <2>2
  <1>3. /\ \/ child'.tmp = child.tmp /\ pipe' = pipe
           \/ child'.tmp = child.tmp \o pipe /\ pipe' = << >>
        /\ child' \in [phase : {"collect", "asked", "answered", "exit0", "exit1"}, tmp : Seq(Elem)]
        /\ child'.phase = "exit0" => pipe' = << >>
        /\ child'.phase \in {"answered", "exit0"} => stop'
        /\ child'.phase # "exit1" => child.phase \in {"collect", "asked", "answered", "exit0"}
    <2>0. child \in [phase : {"none", "collect", "asked", "answered", "exit0", "exit1"}, tmp : Seq(Elem)]
      BY <1>0 DEF Types
    <2>1. CASE aofReadDiffFromParent BY <2>0, <2>1 DEF aofReadDiffFromParent
    <2>2. CASE ChildAsksStop BY <2>0, <2>2 DEF ChildAsksStop, ChildPhase
    <2>3. CASE aofChildPipeReadable BY <2>0, <2>3 DEF aofChildPipeReadable, ChildPhase
    <2>4. CASE ChildExits
      BY <2>0, <2>4 DEF ChildExits, ChildPhase, AofInv, ChildInv
    <2>5. CASE ChildFails BY <2>0, <2>5 DEF ChildFails
    <2> QED BY <2>1, <2>2, <2>3, <2>4, <2>5
  <1>4. /\ Rewritten' = Rewritten /\ pipe' \in Seq(Elem) /\ Len(pipe') <= PipeSize
        /\ Len(child.tmp) <= Len(child'.tmp)
    <2>1. CASE child'.tmp = child.tmp /\ pipe' = pipe
      BY <1>0, <1>1, <2>1 DEF Rewritten, TypeOK
    <2>2. CASE child'.tmp = child.tmp \o pipe /\ pipe' = << >>
      <3> DEFINE x == child.tmp \o pipe
      <3>1. x \in Seq(Elem) /\ Len(x) = Len(child.tmp) + Len(pipe) /\ Len(pipe) \in Nat OBVIOUS
      <3>2. x \o << >> = x
        <4> HIDE DEF x
        <4> QED BY <3>1, ConcatEmptySeq
      <3>3. PipeSize \in Nat BY AofAssumption
      <3>4. Rewritten' = Rewritten
        <4>1. Rewritten' = (x \o << >>) \o rwbuf BY <1>1, <2>2 DEF Rewritten, Three
        <4> QED BY <3>2, <4>1 DEF Rewritten, Three
      <3> QED BY <2>2, <3>1, <3>3, <3>4
    <2> QED BY <1>3, <2>1, <2>2
  <1>5. TypeOK' BY <1>0, <1>1, <1>3, <1>4 DEF TypeOK, filevars, flushvars
  <1>6. Types' BY <1>0, <1>1, <1>2, <1>3, <1>4 DEF Types, filevars, flushvars
  <1>7. FileInv'
    <2>1. cur' = cur /\ buf' = buf /\ dur' = dur /\ Floor' = Floor BY <1>1 DEF filevars, Floor
    <2> QED BY <1>1, <2>1 DEF AofInv, FileInv
  <1>8. ChildInv'
    <2>1. ChildLive' => ChildLive BY <1>1, <1>3 DEF ChildLive
    <2>2. child'.tmp \in Seq(Elem) BY <1>3
    <2>3. Len(child.tmp) \in Int /\ Len(child'.tmp) \in Int BY <2>2
    <2> QED BY <1>1, <1>3, <1>4, <2>1, <2>3, ChildFrame
  <1> QED BY <1>5, <1>6, <1>7, <1>8 DEF AofInv

Cat(s, e) == s \o e

\* What Write adds to the history.
History(data, d, ids) == [i \in 1..Len(ids) |-> Added(data, d, SubSeq(ids, 1, i))]

\* The history after the writes of a request.
LEMMA HistoryKnown ==
    ASSUME NEW data \in Data, NEW d \in Dbs, NEW ids \in Seq(Ids), ids # << >>,
           NEW p \in Seq(Data), NEW q, q = Cat(p, History(data, d, ids))
    PROVE  /\ Added(data, d, ids) \in Data
           /\ q \in Seq(Data) /\ Len(q) = Len(p) + Len(ids) /\ q # << >>
           /\ q[Len(q)] = Added(data, d, ids)
           /\ \A lo \in 1..Len(p) : Known(p, lo) \subseteq Known(q, lo)
           /\ \A lo \in 1..Len(p) : \A i \in 1..Len(ids) : Added(data, d, SubSeq(ids, 1, i)) \in Known(q, lo)
  <1> DEFINE n == Len(ids)
             h == History(data, d, ids)
  <1>1. n \in Nat /\ n # 0 /\ Len(p) \in Nat BY EmptySeq
  <1>2. ASSUME NEW x \in Seq(Ids) PROVE Added(data, d, x) \in Data
    <2>1. data[d] \o x \in Seq(Ids) BY DEF Data
    <2> QED BY <2>1 DEF Added, Data
  <1>3. \A i \in 1..n : SubSeq(ids, 1, i) \in Seq(Ids) BY <1>1
  <1>4. \A i \in 1..n : h[i] = Added(data, d, SubSeq(ids, 1, i)) /\ h[i] \in Data
    BY <1>2, <1>3 DEF History
  <1>5. h \in Seq(Data) /\ Len(h) = n
    <2>1. h = [i \in 1..n |-> h[i]] BY DEF History
    <2> HIDE DEF h
    <2>2. [i \in 1..n |-> h[i]] \in Seq(Data) /\ Len([i \in 1..n |-> h[i]]) = n BY <1>1, <1>4
    <2> QED BY <2>1, <2>2
  <1>0. q = p \o h BY DEF h, Cat
  <1> HIDE DEF h
  <1>6. q \in Seq(Data) /\ Len(q) = Len(p) + n
    <2>1. p \o h \in Seq(Data) /\ Len(p \o h) = Len(p) + n BY <1>5
    <2> QED BY <1>0, <2>1
  <1>7. \A k \in 1..Len(p) : q[k] = p[k]
    <2>1. \A k \in 1..Len(p) : (p \o h)[k] = p[k] BY <1>1, <1>5
    <2> QED BY <1>0, <2>1
  <1>8. ASSUME NEW i \in 1..n PROVE q[Len(p) + i] = h[i]
    <2>1. q = p \o h BY <1>0
    <2>2. Len(p) + i \in 1..(Len(p) + Len(h)) /\ ~(Len(p) + i <= Len(p)) /\ (Len(p) + i) - Len(p) = i
      BY <1>1, <1>5
    <2> QED BY <1>5, <2>1, <2>2, ConcatProperties
  <1>9. q[Len(q)] = Added(data, d, ids)
    <2>1. SubSeq(ids, 1, n) = ids /\ n \in 1..n BY <1>1, SubSeqFull
    <2>2. q[Len(p) + n] = h[n] BY <1>8, <2>1
    <2>3. h[n] = Added(data, d, SubSeq(ids, 1, n)) BY <1>4, <2>1
    <2> QED BY <1>6, <2>1, <2>2, <2>3
  <1>10. \A lo \in 1..Len(p) : Known(p, lo) \subseteq Known(q, lo)
    <2> TAKE lo \in 1..Len(p)
    <2>1. ASSUME NEW k \in lo..Len(p) PROVE p[k] \in Known(q, lo)
      <3>1. k \in lo..Len(q) /\ k \in 1..Len(p) BY <1>1, <1>6
      <3>2. q[k] = p[k] BY <1>7, <3>1
      <3>3. q[k] \in Known(q, lo) BY <3>1 DEF Known
      <3> QED BY <3>2, <3>3
    <2> QED BY <2>1 DEF Known
  <1>11. \A lo \in 1..Len(p) : \A i \in 1..n : Added(data, d, SubSeq(ids, 1, i)) \in Known(q, lo)
    <2> TAKE lo \in 1..Len(p)
    <2> TAKE i \in 1..n
    <2>1. Len(p) + i \in lo..Len(q) BY <1>1, <1>6
    <2>2. q[Len(p) + i] \in Known(q, lo) BY <2>1 DEF Known
    <2> QED BY <1>4, <1>8, <2>2
  <1>12. q # << >> BY <1>1, <1>6, EmptySeq
  <1>13. Added(data, d, ids) \in Data BY <1>2
  <1> QED BY <1>6, <1>9, <1>10, <1>11, <1>12, <1>13

\* What is fed goes to the end of the file, and of the rewrite buffer.
LEMMA FeedJoin ==
    ASSUME NEW c \in Seq(Elem), NEW r \in Seq(Elem), NEW e \in Seq(Elem), NEW r2, r2 = Cat(r, e)
    PROVE  r2 \in Seq(Elem) /\ Cat(c, r2) = Cat(Cat(c, r), e)
  <1>1. c \o (r \o e) = (c \o r) \o e BY ConcatAssociative
  <1> QED BY <1>1 DEF Cat

\* The same for the rewrite buffer.
LEMMA FeedJoin3 ==
    ASSUME NEW c \in Seq(Elem), NEW p \in Seq(Elem), NEW r \in Seq(Elem), NEW e \in Seq(Elem),
           NEW r2, r2 = Cat(r, e)
    PROVE  Three(c, p, r2) = Cat(Three(c, p, r), e)
  <1> DEFINE x == c \o p
  <1>1. x \in Seq(Elem) OBVIOUS
  <1> HIDE DEF x
  <1>2. Cat(x, r2) = Cat(Cat(x, r), e) BY <1>1, FeedJoin
  <1>3. Three(c, p, r2) = Cat(x, r2) /\ Three(c, p, r) = Cat(x, r) BY DEF Three, Cat, x
  <1> QED BY <1>2, <1>3

\* A client request, propagated to the file and to the rewrite child.
LEMMA StepWrite ==
    ASSUME AofInv, NEW d \in Dbs, NEW n \in Sizes, Write(d, n)
    PROVE  AofInv'
  <1> DEFINE ids == [i \in 1..n |-> <<used.write, i>>]
             els == Els(seldb, d, ids)
  <1>0. TypeOK /\ Types BY DEF AofInv
  <1>1. n \in Nat /\ n # 0 BY AofAssumption
  <1>2. ids \in Seq(Ids) /\ Len(ids) = n /\ ids # << >>
    <2>1. \A i \in 1..n : <<used.write, i>> \in Ids BY <1>0, <1>1 DEF Types, Ids
    <2>2. ids \in Seq(Ids) /\ Len(ids) = n BY <1>1, <2>1
    <2> QED BY <1>1, <2>2, EmptySeq
  <1>3. /\ mem' = Added(mem, d, ids)
        /\ past' = past \o History(mem, d, ids)
        /\ state # "OFF" => /\ seldb' = d
                            /\ buf' = (IF state = "ON" THEN buf \o els ELSE buf)
                            /\ rwbuf' = (IF child.phase # "none" THEN rwbuf \o els ELSE rwbuf)
    <2>1. Cmds(ids) = [i \in 1..n |-> Cmd(ids[i])] BY <1>2 DEF Cmds
    <2>2. /\ mem' = [mem EXCEPT ![d] = @ \o ids]
          /\ past' = past \o [i \in 1..n |-> [mem EXCEPT ![d] = @ \o SubSeq(ids, 1, i)]]
          /\ state # "OFF" => feedAppendOnlyFile(d, IF n = 1 THEN [i \in 1..n |-> Cmd(ids[i])]
                     ELSE << <<"multi">> >> \o [i \in 1..n |-> Cmd(ids[i])] \o << <<"exec">> >>)
      BY DEF Write
    <2> HIDE DEF ids
    <2>3. state # "OFF" => feedAppendOnlyFile(d, IF Len(ids) = 1 THEN Cmds(ids)
                     ELSE << <<"multi">> >> \o Cmds(ids) \o << <<"exec">> >>)
      BY <1>2, <2>1, <2>2
    <2>4. state # "OFF" => /\ seldb' = d
                           /\ buf' = (IF state = "ON" THEN buf \o els ELSE buf)
                           /\ rwbuf' = (IF child.phase # "none" THEN rwbuf \o els ELSE rwbuf)
      BY <2>3 DEF feedAppendOnlyFile, Els
    <2>5. mem' = Added(mem, d, ids) BY <2>2 DEF Added
    <2>6. past' = past \o History(mem, d, ids) BY <1>2, <2>2 DEF History, Added
    <2> QED BY <2>4, <2>5, <2>6
  <1>4. /\ UNCHANGED <<policy, state, acked, slept, filevars, flushvars, scheduled, child, pipe, stop>>
        /\ state = "OFF" => UNCHANGED <<seldb, buf, rwbuf>>
    BY DEF Write
  <1>5. used' \in [write : Nat, event : Nat, crash : Nat] BY <1>0, SpendType DEF Write
  <1> HIDE DEF ids
  <1>6. mem \in Data /\ past \in Seq(Data) BY <1>0 DEF Types
  <1>7. /\ mem' \in Data
        /\ past' \in Seq(Data) /\ Len(past') = Len(past) + n /\ past' # << >> /\ past'[Len(past')] = mem'
        /\ \A lo \in 1..Len(past) : Known(past, lo) \subseteq Known(past', lo)
        /\ \A lo \in 1..Len(past) : \A i \in 1..Len(ids) : Added(mem, d, SubSeq(ids, 1, i)) \in Known(past', lo)
    <2>1. past' = Cat(past, History(mem, d, ids)) BY <1>3 DEF Cat
    <2> QED BY <1>2, <1>3, <1>6, <2>1, HistoryKnown
  <1>8. Floor' = Floor /\ Floor \in 1..Len(past) /\ 1 \in 1..Len(past) BY <1>4, KnownMem DEF Floor
  <1>9. \A lo \in 1..Len(past) : mem \in Known(past', lo) BY <1>7, KnownMem
  <1>10. seldb \in Dbs \cup {-1} /\ dur \in Nat BY <1>0, FileTypes DEF TypeOK
  <1>11. ASSUME NEW s \in Seq(Elem), NEW m \in Nat, NEW lo \in 1..Len(past), Joined(s, mem, seldb),
                PrefixSafe(s, m, Known(past, lo))
         PROVE  /\ Joined(s \o els, mem', d) /\ PrefixSafe(s \o els, m, Known(past', lo))
    <2> DEFINE X == Known(past, lo)
               Y == Known(past', lo)
    <2>1. /\ X \subseteq Y /\ mem \in Y /\ PrefixSafe(s, m, X)
          /\ \A i \in 1..Len(ids) : Added(mem, d, SubSeq(ids, 1, i)) \in Y
      BY <1>7, <1>9, <1>11
    <2> HIDE DEF X, Y, els
    <2>2. Joined(s \o els, Added(mem, d, ids), d) /\ PrefixSafe(s \o els, m, Y)
      BY <1>2, <1>10, <1>11, <2>1, FeedStream DEF els
    <2> QED BY <1>3, <2>2 DEF Y
  <1>12. els \in Seq(Elem)
    <2> DEFINE st == [db |-> d, data |-> mem]
               X == {mem} \cup {Added(mem, d, SubSeq(ids, 1, i)) : i \in 1..Len(ids)}
    <2>1. st \in Client /\ st.db = d /\ st.data = mem BY <1>6 DEF Client
    <2>2. mem \in X /\ \A i \in 1..Len(ids) : Added(mem, d, SubSeq(ids, 1, i)) \in X OBVIOUS
    <2> HIDE DEF st, X
    <2> QED BY <1>2, <2>1, <2>2, FeedRun
  <1> HIDE DEF els
  <1>13. buf' \in Seq(Elem) /\ rwbuf' \in Seq(Elem)
    <2>1. buf \o els \in Seq(Elem) /\ rwbuf \o els \in Seq(Elem) BY <1>12, FileTypes
    <2> QED BY <1>3, <1>4, <2>1, FileTypes
  <1>14. TypeOK'
    <2>1. seldb' \in Dbs \cup {-1} BY <1>3, <1>4, <1>10
    <2>2. child.phase = "none" => rwbuf' = << >> BY <1>0, <1>3, <1>4 DEF TypeOK
    <2>3. acked' \in 1..Len(past')
      <3>1. acked \in 1..Len(past) /\ Len(past) \in Nat BY <1>0, KnownMem DEF TypeOK
      <3> QED BY <1>1, <1>4, <1>7, <3>1
    <2> QED BY <1>0, <1>4, <2>1, <2>2, <2>3 DEF TypeOK, filevars, flushvars
  <1>15. Types' BY <1>0, <1>4, <1>5, <1>7, <1>13 DEF Types, filevars
  <1>16. FileInv'
    <2>1. cur' = cur /\ dur' = dur /\ policy' = policy /\ state' = state BY <1>4 DEF filevars
    <2> SUFFICES ASSUME state = "ON"
                 PROVE  /\ Joined(cur \o buf', mem', seldb')
                        /\ PrefixSafe(cur \o buf', dur, Known(past', Floor'))
                        /\ policy = "always" => dur = Len(cur)
      BY <2>1 DEF FileInv
    <2>2. seldb' = d /\ buf' = buf \o els BY <1>3
    <2> DEFINE s == cur \o buf
    <2>3. cur \o buf' = s \o els
      <3>1. cur \in Seq(Elem) /\ buf \in Seq(Elem) BY FileTypes
      <3>2. buf' = Cat(buf, els) BY <2>2 DEF Cat
      <3>3. Cat(cur, buf') = Cat(Cat(cur, buf), els) BY <1>12, <3>1, <3>2, FeedJoin
      <3> QED BY <3>3 DEF Cat
    <2>4. s \in Seq(Elem) BY FileTypes
    <2>5. Joined(s, mem, seldb) /\ PrefixSafe(s, dur, Known(past, Floor)) /\ (policy = "always" => dur = Len(cur))
      BY DEF AofInv, FileInv
    <2> HIDE DEF s
    <2>6. Joined(s \o els, mem', d) /\ PrefixSafe(s \o els, dur, Known(past', Floor))
      BY <1>8, <1>10, <1>11, <2>4, <2>5
    <2> QED BY <1>8, <2>2, <2>3, <2>5, <2>6
  <1>17. ChildInv'
    <2>1. child' = child /\ pipe' = pipe /\ stop' = stop /\ state' = state BY <1>4
    <2>2. ASSUME ChildLive PROVE /\ Joined(Rewritten', mem', seldb')
                                 /\ PrefixSafe(Rewritten', Len(child.tmp), Known(past', 1))
      <3>1. seldb' = d /\ rwbuf' = rwbuf \o els BY <1>3, <2>2 DEF ChildLive
      <3> DEFINE s == Rewritten
      <3>2. Rewritten' = s \o els
        <4> DEFINE c == child.tmp
        <4>1. c \in Seq(Elem) /\ pipe \in Seq(Elem) /\ rwbuf \in Seq(Elem) BY FileTypes
        <4> HIDE DEF c
        <4>2. rwbuf' = Cat(rwbuf, els) BY <3>1 DEF Cat
        <4>3. Three(c, pipe, rwbuf') = Cat(Three(c, pipe, rwbuf), els) BY <1>12, <4>1, <4>2, FeedJoin3
        <4>4. Rewritten' = Three(c, pipe, rwbuf') BY <2>1 DEF Rewritten, c
        <4>5. s = Three(c, pipe, rwbuf) BY DEF Rewritten, c
        <4>6. Rewritten' = Cat(s, els) BY <4>3, <4>4, <4>5
        <4> QED BY <4>6 DEF Cat
      <3>3. s \in Seq(Elem) /\ Len(child.tmp) \in Nat BY FileTypes
      <3>4. Joined(s, mem, seldb) /\ PrefixSafe(s, Len(child.tmp), Known(past, 1))
        BY <2>2 DEF AofInv, ChildInv
      <3> HIDE DEF s
      <3>5. Joined(s \o els, mem', d) /\ PrefixSafe(s \o els, Len(child.tmp), Known(past', 1))
        BY <1>8, <1>11, <3>3, <3>4
      <3> QED BY <3>1, <3>2, <3>5
    <2>3. ChildLive' = ChildLive BY <2>1 DEF ChildLive
    <2>4. /\ child.phase = "exit0" => pipe = << >>
          /\ child.phase \in {"answered", "exit0"} => stop
      BY DEF AofInv, ChildInv
    <2> QED BY <2>1, <2>2, <2>3, <2>4 DEF ChildInv
  <1> QED BY <1>14, <1>15, <1>16, <1>17 DEF AofInv

\* The child is gone: nothing is said about it.
LEMMA NoChildInv ==
    ASSUME child' = NoChild, pipe' = << >>
    PROVE  ChildInv' /\ child' \in [phase : {"none"}, tmp : Seq(Elem)]
  BY DEF ChildInv, ChildLive, NoChild

\* The switch of files: the rewritten file takes over.
LEMMA SwitchInv ==
    ASSUME AofInv, child.phase = "exit0", SwitchFile, UNCHANGED <<policy, mem, past, slept>>,
           state' = IF state = "WAIT" THEN "ON" ELSE state
    PROVE  /\ FileInv'
           /\ cur' \in Seq(Elem) /\ buf' \in Seq(Elem) /\ dur' \in 0..Len(cur')
           /\ seldb' \in {seldb, -1} /\ fd' \in {fd, "current"}
           /\ state # "OFF" => fd' = "current"
  <1>0. TypeOK /\ Types /\ ChildInv BY DEF AofInv
  <1> DEFINE new == child.tmp \o rwbuf
             c == child.tmp
  <1>1. c \in Seq(Elem) /\ rwbuf \in Seq(Elem) /\ buf \in Seq(Elem) BY FileTypes
  <1>2. new \in Seq(Elem) /\ Len(new) = Len(c) + Len(rwbuf) /\ Len(c) \in Nat /\ Len(rwbuf) \in Nat
    BY <1>1
  <1>3. /\ cur' = new /\ dur' \in {Len(c), Len(new)}
        /\ fd = "none" => UNCHANGED <<fd, seldb, buf>>
        /\ fd # "none" => fd' = "current" /\ seldb' = -1 /\ buf' = << >>
        /\ fd # "none" /\ policy = "always" => dur' = Len(new)
    BY DEF SwitchFile
  <1>4. Rewritten = new
    <2>1. pipe = << >> BY <1>0 DEF ChildInv
    <2>2. c \o << >> = c BY <1>1, ConcatEmptySeq
    <2> QED BY <2>1, <2>2 DEF Rewritten, Three
  <1> HIDE DEF new, c
  <1>5. cur' \in Seq(Elem) /\ buf' \in Seq(Elem) /\ dur' \in 0..Len(cur')
    <2>1. << >> \in Seq(Elem) OBVIOUS
    <2>2. cur' \in Seq(Elem) /\ buf' \in Seq(Elem) BY <1>1, <1>2, <1>3, <2>1
    <2>3. dur' = Len(c) \/ dur' = Len(new) BY <1>3
    <2>4. Len(cur') = Len(new) BY <1>3
    <2>5. Len(c) \in 0..Len(new) /\ Len(new) \in 0..Len(new)
      <3> DEFINE a == Len(c)
                 b == Len(rwbuf)
      <3>1. a \in Nat /\ b \in Nat BY <1>2
      <3>2. Len(new) = a + b BY <1>2
      <3> HIDE DEF a, b
      <3>3. a \in 0..(a + b) /\ a + b \in 0..(a + b) BY <3>1
      <3> QED BY <3>2, <3>3 DEF a
    <2> QED BY <2>2, <2>3, <2>4, <2>5
  <1>6. seldb' \in {seldb, -1} /\ fd' \in {fd, "current"} BY <1>3
  <1>7. state # "OFF" => fd' = "current" BY <1>0, <1>3 DEF TypeOK
  <1>8. FileInv'
    <2>1. CASE state' # "ON" BY <2>1 DEF FileInv
    <2>2. CASE state' = "ON"
      <3>1. state # "OFF" /\ fd # "none" BY <1>0, <2>2 DEF TypeOK
      <3>2. ChildLive BY <3>1 DEF ChildLive
      <3>3. Joined(new, mem, seldb) /\ PrefixSafe(new, Len(c), Known(past, 1))
        BY <1>0, <1>4, <3>2 DEF ChildInv, c
      <3>4. seldb' = -1 /\ buf' = << >> /\ (policy = "always" => dur' = Len(new)) BY <1>3, <3>1
      <3>5. cur' \o buf' = new
        <4>1. new \o << >> = new BY <1>2, ConcatEmptySeq
        <4> QED BY <1>3, <3>4, <4>1
      <3>6. Joined(new, mem, -1) BY <3>3, JoinedWeaken
      <3>7. Floor' \in 1..Len(past) /\ (policy # "always" => Floor' = 1) /\ mem \in Known(past, Floor')
        <4>1. Floor' = Floor /\ Floor \in 1..Len(past) BY KnownMem DEF Floor
        <4>2. mem \in Known(past, Floor) BY <4>1, KnownMem
        <4>3. policy # "always" => Floor = 1 BY DEF Floor
        <4> QED BY <4>1, <4>2, <4>3
      <3>8. PrefixSafe(new, dur', Known(past, Floor'))
        <4> DEFINE X == Known(past, Floor')
        <4>1. PrefixSafe(new, Len(new), X)
          <5>1. mem \in X BY <3>7
          <5> HIDE DEF X
          <5> QED BY <1>2, <3>3, <5>1, PrefixWhole
        <4>2. CASE dur' = Len(new) BY <4>1, <4>2
        <4>3. CASE dur' # Len(new)
          <5>1. policy # "always" /\ dur' = Len(c) BY <1>3, <3>4, <4>3
          <5>2. Floor' = 1 BY <3>7, <5>1
          <5> QED BY <3>3, <5>1, <5>2
        <4> QED BY <4>2, <4>3
      <3> QED BY <1>3, <3>4, <3>5, <3>6, <3>8 DEF FileInv
    <2> QED BY <2>1, <2>2
  <1> QED BY <1>5, <1>6, <1>7, <1>8

\* backgroundRewriteDoneHandler.
LEMMA StepDone == ASSUME AofInv, backgroundRewriteDoneHandler PROVE AofInv'
  <1>0. TypeOK /\ Types BY DEF AofInv
  <1>1. /\ UNCHANGED <<policy, mem, past, acked, slept, flushvars>>
        /\ child' = NoChild /\ pipe' = << >> /\ rwbuf' = << >>
    BY DEF backgroundRewriteDoneHandler, Cleanup
  <1>2. ChildInv' /\ child' \in [phase : {"none"}, tmp : Seq(Elem)] BY <1>1, NoChildInv
  <1>3. used' \in [write : Nat, event : Nat, crash : Nat]
    BY <1>0, SpendType DEF backgroundRewriteDoneHandler, Types
  <1>4. /\ FileInv' /\ cur' \in Seq(Elem) /\ buf' \in Seq(Elem) /\ dur' \in 0..Len(cur')
        /\ seldb' \in {seldb, -1} /\ fd' \in {fd, "current"}
        /\ state' \in {"OFF", "WAIT", "ON"} /\ (state' # "OFF" => fd' = "current")
    <2>1. ASSUME child.phase = "exit0", SwitchFile, state' = IF state = "WAIT" THEN "ON" ELSE state
          PROVE  <1>4
      <3>1. /\ FileInv' /\ cur' \in Seq(Elem) /\ buf' \in Seq(Elem) /\ dur' \in 0..Len(cur')
            /\ seldb' \in {seldb, -1} /\ fd' \in {fd, "current"} /\ (state # "OFF" => fd' = "current")
        BY <1>1, <2>1, SwitchInv
      <3>2. state' \in {"OFF", "WAIT", "ON"} /\ (state' # "OFF" => state # "OFF")
        BY <1>0, <2>1 DEF TypeOK
      <3> QED BY <3>1, <3>2
    <2>2. ASSUME UNCHANGED <<state, seldb, buf, filevars>> PROVE <1>4
      <3>1. FileInv' BY <1>1, <2>2 DEF AofInv, FileInv, Floor, filevars
      <3> QED BY <1>0, <2>2, <3>1 DEF TypeOK, Types, filevars
    <2> QED BY <2>1, <2>2 DEF backgroundRewriteDoneHandler
  <1>5. PipeSize \in Nat BY AofAssumption
  <1>6. TypeOK' BY <1>0, <1>1, <1>2, <1>4, <1>5 DEF TypeOK, flushvars
  <1>7. Types' BY <1>0, <1>1, <1>2, <1>3, <1>4 DEF Types
  <1> QED BY <1>2, <1>4, <1>6, <1>7 DEF AofInv

\* stopAppendOnly.
LEMMA StepStop == ASSUME AofInv, stopAppendOnly PROVE AofInv'
  <1>0. TypeOK /\ Types BY DEF AofInv
  <1>1. /\ UNCHANGED <<policy, mem, past, acked, slept>>
        /\ child' = NoChild /\ pipe' = << >> /\ fd' = "none" /\ seldb' = -1 /\ state' = "OFF"
        /\ dur' = Len(cur') /\ postponed' \in {0, postponed}
        /\ rwbuf' = IF child.phase = "none" THEN rwbuf ELSE << >>
    BY DEF stopAppendOnly
  <1>2. ChildInv' /\ child' \in [phase : {"none"}, tmp : Seq(Elem)] BY <1>1, NoChildInv
  <1>3. used' \in [write : Nat, event : Nat, crash : Nat] BY <1>0, SpendType DEF stopAppendOnly
  <1>4. cur' \in Seq(Elem) /\ buf' \in Seq(Elem)
    <2>1. cur \o buf \in Seq(Elem) /\ << >> \in Seq(Elem) /\ cur \in Seq(Elem) /\ buf \in Seq(Elem)
      BY FileTypes
    <2>2. (cur' = cur \o buf /\ buf' = << >>) \/ UNCHANGED <<cur, buf>> BY DEF stopAppendOnly
    <2> QED BY <2>1, <2>2
  <1>5. rwbuf' = << >> BY <1>0, <1>1 DEF TypeOK
  <1>6. PipeSize \in Nat /\ Len(cur') \in Nat BY <1>4, AofAssumption
  <1>7. TypeOK' BY <1>0, <1>1, <1>2, <1>5, <1>6 DEF TypeOK
  <1>8. Types' BY <1>0, <1>1, <1>2, <1>3, <1>4, <1>5 DEF Types
  <1>9. FileInv' BY <1>1 DEF FileInv
  <1> QED BY <1>2, <1>7, <1>8, <1>9 DEF AofInv

\* A restart loads what is left of the file.
LEMMA StepRestart ==
    ASSUME AofInv, NEW n \in dur..Len(cur), Restart(n)
    PROVE  AofInv'
  <1> DEFINE file == SubSeq(cur, 1, n)
             data == loadAppendOnlyFile(file)
  <1>0. TypeOK /\ Types BY DEF AofInv
  <1>1. /\ UNCHANGED <<policy, state, fd>> /\ state = "ON"
        /\ mem' = data /\ past' = <<data>> /\ acked' = 1 /\ slept' = 1
        /\ seldb' = -1 /\ buf' = << >> /\ cur' = file /\ dur' = n /\ postponed' = 0
        /\ child' = NoChild /\ rwbuf' = << >> /\ pipe' = << >>
    BY DEF Restart
  <1>2. ChildInv' /\ child' \in [phase : {"none"}, tmp : Seq(Elem)] BY <1>1, NoChildInv
  <1>3. used' \in [write : Nat, event : Nat, crash : Nat] BY <1>0, SpendType DEF Restart
  <1>4. file \in Seq(Elem) /\ Len(file) = n /\ n \in Nat
    <2>1. cur \in Seq(Elem) /\ Len(cur) \in Nat /\ dur \in Nat BY FileTypes
    <2>2. n \in Nat /\ n <= Len(cur) BY <2>1
    <2> QED BY <2>1, <2>2
  <1>5. Run(Start, file).data = data BY DEF loadAppendOnlyFile, Start
  <1> HIDE DEF file, data
  <1>6. data \in Data
    <2>1. Run(Start, file) \in Client BY <1>4, StartType, RunType
    <2> QED BY <1>5, <2>1 DEF Client
  <1>7. past' \in Seq(Data) /\ past' # << >> /\ Len(past') = 1 /\ past'[1] = data BY <1>1, <1>6
  <1>8. PipeSize \in Nat BY AofAssumption
  <1>9. TypeOK' BY <1>0, <1>1, <1>2, <1>4, <1>7, <1>8 DEF TypeOK
  <1>10. Types' BY <1>1, <1>2, <1>3, <1>4, <1>6, <1>7 DEF Types
  <1>11. FileInv'
    <2>1. file \o << >> = file BY <1>4, ConcatEmptySeq
    <2>2. Joined(file, data, -1) BY <1>5 DEF Joined
    <2>3. Floor' = 1 BY <1>1 DEF Floor
    <2>4. data \in Known(past', 1) BY <1>7 DEF Known
    <2>5. PrefixSafe(file, Len(file), Known(past', 1)) BY <1>4, <2>2, <2>4, PrefixWhole
    <2> QED BY <1>1, <1>4, <2>1, <2>2, <2>3, <2>5 DEF FileInv
  <1> QED BY <1>2, <1>9, <1>10, <1>11 DEF AofInv

\* Nothing happens.
LEMMA StepStutter == ASSUME AofInv, UNCHANGED vars PROVE AofInv'
  <1>0. TypeOK /\ Types /\ FileInv /\ ChildInv BY DEF AofInv
  <1>1. TypeOK' BY <1>0 DEF TypeOK, vars, filevars, flushvars, childvars
  <1>2. Types' BY <1>0 DEF Types, vars, filevars, flushvars, childvars
  <1>3. FileInv' BY <1>0 DEF FileInv, Floor, vars, filevars
  <1>4. ChildInv' BY <1>0, ChildSame DEF vars
  <1> QED BY <1>1, <1>2, <1>3, <1>4 DEF AofInv

\* Every step keeps the invariant.
LEMMA AofStep == AofInv /\ [Next]_vars => AofInv'
  <1> SUFFICES ASSUME AofInv, [Next]_vars PROVE AofInv' OBVIOUS
  <1>1. ASSUME NEW d \in Dbs, NEW n \in Sizes, Write(d, n) PROVE AofInv' BY <1>1, StepWrite
  <1>2. CASE BeforeSleep BY <1>2, StepBeforeSleep
  <1>3. CASE EarlyReply \/ Tick \/ BioFsync BY <1>3, StepQuiet
  <1>4. CASE rewriteAppendOnlyFileBackground BY <1>4, StepRewrite
  <1>5. CASE aofChildWriteDiffData BY <1>5, StepSendDiff
  <1>6. CASE aofReadDiffFromParent \/ ChildAsksStop \/ aofChildPipeReadable \/ ChildExits \/ ChildFails
    BY <1>6, StepChild
  <1>7. CASE backgroundRewriteDoneHandler BY <1>7, StepDone
  <1>8. CASE stopAppendOnly BY <1>8, StepStop
  <1>9. CASE startAppendOnly BY <1>9, StepStart
  <1>10. ASSUME NEW n \in dur..Len(cur), Restart(n) PROVE AofInv' BY <1>10, StepRestart
  <1>11. CASE UNCHANGED vars BY <1>11, StepStutter
  <1> QED BY <1>1, <1>2, <1>3, <1>4, <1>5, <1>6, <1>7, <1>8, <1>9, <1>10, <1>11 DEF Next

\* What the invariant says of loading the file.
LEMMA AofInvImplies == AofInv => TypeOK /\ ReplayExact /\ CrashSafe
  <1> SUFFICES ASSUME AofInv PROVE TypeOK /\ ReplayExact /\ CrashSafe OBVIOUS
  <1>1. TypeOK BY DEF AofInv
  <1>2. \A f : loadAppendOnlyFile(f) = Run(Start, f).data BY DEF loadAppendOnlyFile, Start
  <1>3. ReplayExact BY <1>2 DEF AofInv, FileInv, Joined, ReplayExact
  <1>4. CrashSafe
    <2> SUFFICES ASSUME state = "ON", NEW n \in dur..Len(cur)
                 PROVE  \E k \in Floor..Len(past) : loadAppendOnlyFile(SubSeq(cur, 1, n)) = past[k]
      BY DEF CrashSafe, Floor
    <2>1. PrefixSafe(cur \o buf, dur, Known(past, Floor)) BY DEF AofInv, FileInv
    <2>2. cur \in Seq(Elem) /\ buf \in Seq(Elem) /\ dur \in Nat /\ Len(cur) \in Nat BY FileTypes
    <2>3. Len(cur \o buf) = Len(cur) + Len(buf) /\ Len(buf) \in Nat BY <2>2
    <2>4. n \in dur..Len(cur \o buf) /\ n \in 0..Len(cur \o buf) /\ n <= Len(cur) BY <2>2, <2>3
    <2>5. SubSeq(cur \o buf, 1, n) = SubSeq(cur, 1, n) BY <2>2, <2>4, ConcatPrefix
    <2>6. Run(Start, SubSeq(cur, 1, n)).data \in Known(past, Floor) BY <2>1, <2>4, <2>5 DEF PrefixSafe
    <2> QED BY <1>2, <2>6 DEF Known
  <1> QED BY <1>1, <1>3, <1>4

(***************************************************************************)
(* The theorems.                                                           *)
(***************************************************************************)

\* The invariant holds in every reachable state of the AOF.
THEOREM AofInvariant == Spec => []AofInv
  <1>1. AofInv /\ [Next]_vars => AofInv' BY AofStep
  <1> QED BY AofInit, <1>1, PTL DEF Spec

\* The server's AOF variables keep their types: with the AOF on or starting it
\* has an open file, without a rewrite child nothing is left in the rewrite
\* buffer or in the pipe, and what is on disk is a beginning of the file.
THEOREM AofTypes == Spec => []TypeOK
  BY AofInvariant, AofInvImplies, PTL

\* feedAppendOnlyFile, flushAppendOnlyFile and the switch to a rewritten file
\* lose, repeat and reorder nothing: the file and the buffer rebuild the dataset
\* in every state with the AOF on, for every number of databases and every
\* interleaving of writes, write errors and rewrites.
THEOREM FileRebuildsDataset == Spec => []ReplayExact
  BY AofInvariant, AofInvImplies, PTL

\* Whatever beginning of the file a crash leaves, from what was fsynced on, is a
\* dataset the server had; with appendfsync always it is not older than the last
\* beforeSleep.
THEOREM CrashKeepsPrefix == Spec => []CrashSafe
  BY AofInvariant, AofInvImplies, PTL
================================================================================
