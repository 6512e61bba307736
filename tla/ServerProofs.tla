------------------------------ MODULE ServerProofs ------------------------------
(***************************************************************************)
(* Proofs about Server, for every set of clients, keys and channels and    *)
(* for every workload of well-formed commands: the indexes of watching,    *)
(* blocked and subscribed clients are inverse to what the clients hold, a  *)
(* changed watched key aborts the transaction, the loop that serves the    *)
(* blocked clients leaves nobody waiting for a list, and no element of a   *)
(* list is lost or served twice.                                           *)
(***************************************************************************)
EXTENDS Server, FiniteSetTheorems, SequenceTheorems, WellFoundedInduction, TLAPS

(***************************************************************************)
(* Lists.                                                                  *)
(***************************************************************************)

\* Induction over the natural numbers, for the members of a set.
LEMMA NatSetInduction ==
    ASSUME NEW T, 0 \in T, \A n \in Nat : n \in T => n + 1 \in T
    PROVE  Nat \subseteq T
  <1> DEFINE U == Nat \ T
             R == OpToRel(<, Nat)
  <1> SUFFICES ASSUME U # {} PROVE FALSE OBVIOUS
  <1>1. \E i \in U : \A j \in U : ~(<<j, i>> \in R)
    <2>1. IsWellFoundedOn(R, Nat) BY NatLessThanWellFounded
    <2>2. U \subseteq Nat OBVIOUS
    <2> HIDE DEF U, R
    <2> QED BY <2>1, <2>2, WFMin
  <1>2. PICK i \in U : \A j \in U : ~(<<j, i>> \in R) BY <1>1
  <1>3. i # 0 /\ i \in Nat OBVIOUS
  <1>4. i - 1 \in Nat /\ i - 1 < i /\ (i - 1) + 1 = i BY <1>3
  <1>5. i - 1 \in U BY <1>2, <1>4
  <1>6. <<i - 1, i>> \in R BY <1>3, <1>4 DEF OpToRel
  <1> QED BY <1>2, <1>5, <1>6

\* An element that has one place in a list.
LEMMA ListedAt ==
    ASSUME NEW q, NEW x, NEW i \in 1..Len(q), \A j \in 1..Len(q) : q[j] = x <=> j = i
    PROVE  Listed(q, x, TRUE)
  BY DEF Listed

\* listAddNodeTail: the element is in the list once more, the others as before.
LEMMA ListedAppend ==
    ASSUME NEW S, NEW q \in Seq(S), NEW x \in S
    PROVE  /\ Append(q, x) \in Seq(S)
           /\ Listed(q, x, FALSE) => Listed(Append(q, x), x, TRUE)
           /\ \A y : \A b \in BOOLEAN : y # x /\ Listed(q, y, b) => Listed(Append(q, x), y, b)
  <1> DEFINE r == Append(q, x)
             n == Len(q)
  <1>1. n \in Nat /\ r \in Seq(S) /\ Len(r) = n + 1 /\ r[n + 1] = x
        /\ \A i \in 1..n : r[i] = q[i]
    BY AppendProperties, LenProperties
  <1> HIDE DEF r, n
  <1>2. ASSUME Listed(q, x, FALSE) PROVE Listed(r, x, TRUE)
    <2>1. \A j \in 1..n : q[j] # x BY <1>2 DEF Listed, n
    <2>2. n + 1 \in 1..(n + 1) /\ \A j \in 1..(n + 1) : r[j] = x <=> j = n + 1 BY <1>1, <2>1
    <2>3. n + 1 \in 1..Len(r) /\ \A j \in 1..Len(r) : r[j] = x <=> j = n + 1 BY <1>1, <2>2
    <2> DEFINE m == n + 1
    <2> HIDE DEF m
    <2>4. m \in 1..Len(r) /\ \A j \in 1..Len(r) : r[j] = x <=> j = m BY <2>3 DEF m
    <2> QED BY <2>4, ListedAt
  <1>3. ASSUME NEW y, NEW b \in BOOLEAN, y # x, Listed(q, y, b) PROVE Listed(r, y, b)
    <2>1. CASE b = TRUE
      <3>1. PICK i \in 1..n : \A j \in 1..n : q[j] = y <=> j = i BY <1>3, <2>1 DEF Listed, n
      <3>2. i \in 1..(n + 1) /\ \A j \in 1..(n + 1) : r[j] = y <=> j = i BY <1>1, <1>3, <3>1
      <3>3. i \in 1..Len(r) /\ \A j \in 1..Len(r) : r[j] = y <=> j = i BY <1>1, <3>2
      <3>4. Listed(r, y, TRUE) BY <3>3, ListedAt
      <3> QED BY <2>1, <3>4
    <2>2. CASE b = FALSE
      <3>1. \A j \in 1..n : q[j] # y BY <1>3, <2>2 DEF Listed, n
      <3>2. \A j \in 1..(n + 1) : r[j] # y BY <1>1, <1>3, <3>1
      <3> QED BY <1>1, <2>2, <3>2 DEF Listed
    <2> QED BY <2>1, <2>2
  <1> QED BY <1>1, <1>2, <1>3 DEF r

\* listDelNode(l, listSearchKey(l, x)), for an element that is in the list once.
LEMMA RemoveAtIndex ==
    ASSUME NEW S, NEW q \in Seq(S), NEW x, NEW i \in 1..Len(q),
           \A j \in 1..Len(q) : q[j] = x <=> j = i
    PROVE  LET r == RemoveFirst(q, x)
           IN  /\ r \in Seq(S) /\ Len(r) = Len(q) - 1
               /\ \A j \in 1..(Len(q) - 1) : r[j] = IF j < i THEN q[j] ELSE q[j + 1]
  <1> DEFINE n == Len(q)
             r == RemoveFirst(q, x)
             a == SubSeq(q, 1, i - 1)
             b == SubSeq(q, i + 1, n)
  <1>1. n \in Nat /\ \A j \in 1..n : q[j] \in S BY LenProperties, ElementOfSeq
  <1>2. {j \in 1..n : q[j] = x} = {i} OBVIOUS
  <1>3. Min({i}) = i BY DEF Min
  <1>4. r = a \o b
    <2>1. \E j \in 1..Len(q) : q[j] = x OBVIOUS
    <2>2. SelectInSeq(q, LAMBDA v : v = x) = i BY <1>2, <1>3 DEF SelectInSeq
    <2> QED BY <2>1, <2>2 DEF RemoveFirst, RemoveAt
  <1>5. a \in Seq(S) /\ Len(a) = i - 1 /\ \A j \in 1..(i - 1) : a[j] = q[j]
    <2>1. \A j \in 1..(i - 1) : q[j] \in S BY <1>1
    <2>2. 1 \in Int /\ i - 1 \in Int OBVIOUS
    <2>3. /\ SubSeq(q, 1, i - 1) \in Seq(S)
          /\ Len(SubSeq(q, 1, i - 1)) = IF 1 <= i - 1 THEN (i - 1) - 1 + 1 ELSE 0
          /\ \A j \in 1..((i - 1) - 1 + 1) : SubSeq(q, 1, i - 1)[j] = q[1 + j - 1]
      BY <2>1, <2>2, SubSeqProperties
    <2> QED BY <1>1, <2>3
  <1>6. b \in Seq(S) /\ Len(b) = n - i /\ \A j \in 1..(n - i) : b[j] = q[i + j]
    <2>1. \A j \in (i + 1)..n : q[j] \in S BY <1>1
    <2>2. i + 1 \in Int /\ n \in Int BY <1>1
    <2>3. /\ SubSeq(q, i + 1, n) \in Seq(S)
          /\ Len(SubSeq(q, i + 1, n)) = IF i + 1 <= n THEN n - (i + 1) + 1 ELSE 0
          /\ \A j \in 1..(n - (i + 1) + 1) : SubSeq(q, i + 1, n)[j] = q[(i + 1) + j - 1]
      BY <2>1, <2>2, SubSeqProperties
    <2> QED BY <1>1, <2>3
  <1> HIDE DEF a, b, n, r
  <1>7. /\ a \o b \in Seq(S) /\ Len(a \o b) = Len(a) + Len(b)
        /\ \A j \in 1..(Len(a) + Len(b)) : (a \o b)[j] = IF j <= Len(a) THEN a[j] ELSE b[j - Len(a)]
    BY <1>5, <1>6, ConcatProperties
  <1>8. Len(r) = n - 1 BY <1>1, <1>4, <1>5, <1>6, <1>7
  <1>9. ASSUME NEW j \in 1..(n - 1) PROVE r[j] = IF j < i THEN q[j] ELSE q[j + 1]
    <2>1. i \in 1..n BY DEF n
    <2>2. r[j] = IF j <= i - 1 THEN a[j] ELSE b[j - (i - 1)]
      BY <1>1, <1>4, <1>5, <1>6, <1>7, <2>1
    <2>3. CASE j < i BY <1>1, <1>5, <2>1, <2>2, <2>3
    <2>4. CASE j >= i
      <3>1. j - (i - 1) \in 1..(n - i) /\ i + (j - (i - 1)) = j + 1 BY <1>1, <2>1, <2>4
      <3>2. b[j - (i - 1)] = q[j + 1] BY <1>6, <3>1
      <3> QED BY <2>1, <2>2, <2>4, <3>2
    <2> QED BY <2>1, <2>3, <2>4
  <1> QED BY <1>4, <1>7, <1>8, <1>9 DEF r, n

\* After the removal the element is not in the list, and the others are as before.
LEMMA ListedRemove ==
    ASSUME NEW S, NEW q \in Seq(S), NEW x, Listed(q, x, TRUE)
    PROVE  /\ RemoveFirst(q, x) \in Seq(S) /\ Listed(RemoveFirst(q, x), x, FALSE)
           /\ Len(RemoveFirst(q, x)) = Len(q) - 1
           /\ \A y : \A b \in BOOLEAN : y # x /\ Listed(q, y, b) => Listed(RemoveFirst(q, x), y, b)
  <1> DEFINE n == Len(q)
             r == RemoveFirst(q, x)
  <1>1. PICK i \in 1..n : \A j \in 1..n : q[j] = x <=> j = i BY DEF Listed
  <1>2. /\ r \in Seq(S) /\ Len(r) = n - 1
        /\ \A j \in 1..(n - 1) : r[j] = IF j < i THEN q[j] ELSE q[j + 1]
    BY <1>1, RemoveAtIndex
  <1>3. n \in Nat BY LenProperties
  <1> HIDE DEF n, r
  <1>4. \A j \in 1..(n - 1) : r[j] # x BY <1>1, <1>2, <1>3
  <1>5. Listed(r, x, FALSE) BY <1>2, <1>4 DEF Listed
  <1>6. ASSUME NEW y, NEW b \in BOOLEAN, y # x, Listed(q, y, b) PROVE Listed(r, y, b)
    <2>1. CASE b = TRUE
      <3>1. PICK k \in 1..n : \A j \in 1..n : q[j] = y <=> j = k BY <1>6, <2>1 DEF Listed, n
      <3>2. k # i BY <1>1, <1>6, <3>1
      <3> DEFINE m == IF k < i THEN k ELSE k - 1
      <3>3. m \in 1..(n - 1) BY <1>1, <1>3, <3>1, <3>2
      <3>4. ASSUME NEW j \in 1..(n - 1) PROVE r[j] = y <=> j = m
        <4>1. CASE j < i
          <5>1. r[j] = q[j] /\ j \in 1..n BY <1>2, <1>3, <4>1
          <5> QED BY <1>3, <3>1, <3>2, <4>1, <5>1
        <4>2. CASE ~ (j < i)
          <5>1. r[j] = q[j + 1] /\ j + 1 \in 1..n BY <1>2, <1>3, <4>2
          <5> QED BY <1>3, <3>1, <3>2, <4>2, <5>1
        <4> QED BY <4>1, <4>2
      <3> HIDE DEF m
      <3>5. m \in 1..Len(r) /\ \A j \in 1..Len(r) : r[j] = y <=> j = m BY <1>2, <3>3, <3>4
      <3>6. Listed(r, y, TRUE) BY <3>5, ListedAt
      <3> QED BY <2>1, <3>6
    <2>2. CASE b = FALSE
      <3>1. \A j \in 1..n : q[j] # y BY <1>6, <2>2 DEF Listed, n
      <3>2. \A j \in 1..(n - 1) : r[j] # y BY <1>2, <1>3, <3>1
      <3> QED BY <1>2, <2>2, <3>2 DEF Listed
    <2> QED BY <2>1, <2>2
  <1> QED BY <1>2, <1>5, <1>6 DEF r, n

KeptFn(f, q, S, n) ==
    f = [i \in 0..n |-> IF i = 0 THEN <<>>
                        ELSE IF q[i] \in S THEN f[i - 1] ELSE Append(f[i - 1], q[i])]

\* The recursive function of Without exists.
LEMMA WithoutExists ==
    ASSUME NEW q, NEW S, NEW n \in Nat
    PROVE  \E f : KeptFn(f, q, S, n)
  <1> DEFINE Op(x, i) == IF q[i] \in S THEN x ELSE Append(x, q[i])
             Is(f, m) == f = [i \in 0..m |-> IF i = 0 THEN <<>> ELSE Op(f[i - 1], i)]
             Has(m) == \E f : Is(f, m)
             T == {m \in Nat : Has(m)}
  <1> HIDE DEF Op
  <1>1. Has(0)
    <2> DEFINE g == [i \in 0..0 |-> <<>>]
    <2>1. Is(g, 0) OBVIOUS
    <2> HIDE DEF g, Is
    <2> QED BY <2>1
  <1>2. ASSUME NEW m \in Nat, Has(m) PROVE Has(m + 1)
    <2>1. PICK f : Is(f, m) BY <1>2
    <2> DEFINE g == [i \in 0..(m + 1) |-> IF i = m + 1 THEN Op(f[m], m + 1) ELSE f[i]]
    <2>2. \A i \in 0..(m + 1) : g[i] = IF i = 0 THEN <<>> ELSE Op(g[i - 1], i)
      <3> SUFFICES ASSUME NEW i \in 0..(m + 1) PROVE g[i] = IF i = 0 THEN <<>> ELSE Op(g[i - 1], i)
        OBVIOUS
      <3>1. CASE i = m + 1 BY <3>1
      <3>2. CASE i \in 0..m
        <4>1. g[i] = f[i] /\ (i # 0 => g[i - 1] = f[i - 1]) BY <3>2
        <4>2. f[i] = IF i = 0 THEN <<>> ELSE Op(f[i - 1], i) BY <2>1, <3>2
        <4> QED BY <4>1, <4>2
      <3> QED BY <3>1, <3>2
    <2>3. Is(g, m + 1) BY <2>2
    <2> HIDE DEF g, Is
    <2> QED BY <2>3
  <1> HIDE DEF Has
  <1>3. Nat \subseteq T
    <2>1. 0 \in T BY <1>1
    <2>2. \A m \in Nat : m \in T => m + 1 \in T BY <1>2
    <2> HIDE DEF T
    <2> QED BY <2>1, <2>2, NatSetInduction
  <1> QED BY <1>3 DEF Op, Has, KeptFn

\* What Without computes, one element after the other.
LEMMA WithoutUnfold ==
    ASSUME NEW q, NEW S, Len(q) \in Nat
    PROVE  \E f : /\ f[0] = <<>> /\ Without(q, S) = f[Len(q)]
                  /\ \A i \in 1..Len(q) :
                       f[i] = IF q[i] \in S THEN f[i - 1] ELSE Append(f[i - 1], q[i])
  <1> DEFINE n == Len(q)
             f == CHOOSE g : KeptFn(g, q, S, n)
  <1>1. \E g : KeptFn(g, q, S, n) BY WithoutExists
  <1>2. KeptFn(f, q, S, n) BY <1>1
  <1>3. Without(q, S) = f[n] BY DEF Without, KeptFn
  <1> HIDE DEF f
  <1>4. f[0] = <<>> BY <1>2 DEF KeptFn
  <1>5. \A i \in 1..n : f[i] = IF q[i] \in S THEN f[i - 1] ELSE Append(f[i - 1], q[i])
    <2> SUFFICES ASSUME NEW i \in 1..n
                 PROVE  f[i] = IF q[i] \in S THEN f[i - 1] ELSE Append(f[i - 1], q[i])
      OBVIOUS
    <2>1. i \in 0..n /\ i # 0 OBVIOUS
    <2> QED BY <1>2, <2>1 DEF KeptFn
  <1> QED BY <1>3, <1>4, <1>5

\* The first i elements of a list, without those of S, are the list s.
Keeps(q, S, i, s) ==
    /\ \A j \in 1..Len(s) : s[j] \notin S /\ \E m \in 1..i : s[j] = q[m]
    /\ \A x : x \notin S /\ (\E m \in 1..i : \A j \in 1..i : q[j] = x <=> j = m) => Listed(s, x, TRUE)

\* One element more.
LEMMA KeepsNext ==
    ASSUME NEW T, NEW q, NEW S, NEW i \in Nat, NEW k, k = i + 1, NEW p \in Seq(T), NEW e \in T,
           Keeps(q, S, i, p), e = q[k]
    PROVE  LET s == IF e \in S THEN p ELSE Append(p, e)
           IN  s \in Seq(T) /\ Keeps(q, S, k, s)
  <1> DEFINE s == IF e \in S THEN p ELSE Append(p, e)
  <1>1. /\ Append(p, e) \in Seq(T) /\ Len(Append(p, e)) = Len(p) + 1
        /\ Append(p, e)[Len(p) + 1] = e /\ \A j \in 1..Len(p) : Append(p, e)[j] = p[j]
        /\ Len(p) \in Nat
    BY AppendProperties, LenProperties
  <1>2. ASSUME NEW j \in 1..Len(s) PROVE s[j] \notin S /\ \E m \in 1..k : s[j] = q[m]
    <2>1. CASE j \in 1..Len(p) /\ s[j] = p[j]
      <3>1. p[j] \notin S /\ \E m \in 1..i : p[j] = q[m] BY <2>1 DEF Keeps
      <3> QED BY <2>1, <3>1
    <2>2. CASE e \notin S /\ s[j] = e
      <3>1. k \in 1..k OBVIOUS
      <3> QED BY <2>2, <3>1
    <2> QED BY <1>1, <2>1, <2>2
  <1>3. ASSUME NEW x, x \notin S, NEW m \in 1..k, \A j \in 1..k : q[j] = x <=> j = m
        PROVE  Listed(s, x, TRUE)
    <2>1. CASE m = k
      <3>1. e = x BY <1>3, <2>1
      <3>2. \A j \in 1..i : q[j] # x BY <1>3, <2>1
      <3>3. Listed(p, x, FALSE) BY <3>2 DEF Listed, Keeps
      <3>4. Listed(Append(p, e), x, TRUE) BY <3>1, <3>3, ListedAppend
      <3> QED BY <1>3, <3>1, <3>4
    <2>2. CASE m \in 1..i
      <3>1. e # x /\ \A j \in 1..i : q[j] = x <=> j = m BY <1>3, <2>2
      <3>2. Listed(p, x, TRUE) BY <1>3, <2>2, <3>1 DEF Keeps
      <3>3. TRUE \in BOOLEAN OBVIOUS
      <3>4. Listed(Append(p, e), x, TRUE) BY <3>1, <3>2, <3>3, ListedAppend
      <3> QED BY <3>2, <3>4
    <2>3. m = k \/ m \in 1..i OBVIOUS
    <2> QED BY <2>1, <2>2, <2>3
  <1>4. s \in Seq(T) BY <1>1
  <1> QED BY <1>2, <1>3, <1>4 DEF Keeps

\* The first elements of a list are kept, but for those of S.
LEMMA WithoutKeeps ==
    ASSUME NEW T, NEW q \in Seq(T), NEW S
    PROVE  Without(q, S) \in Seq(T) /\ Keeps(q, S, Len(q), Without(q, S))
  <1> DEFINE n == Len(q)
             r == Without(q, S)
  <1>1. n \in Nat /\ \A i \in 1..n : q[i] \in T BY LenProperties, ElementOfSeq
  <1>2. PICK f : /\ f[0] = <<>> /\ r = f[n]
                 /\ \A i \in 1..n : f[i] = IF q[i] \in S THEN f[i - 1] ELSE Append(f[i - 1], q[i])
    BY <1>1, WithoutUnfold
  <1> HIDE DEF n, r
  <1> DEFINE P(i) == i <= n => f[i] \in Seq(T) /\ Keeps(q, S, i, f[i])
             U == {i \in Nat : P(i)}
  <1>3. P(0)
    <2>1. <<>> \in Seq(T) /\ Len(<<>>) = 0 OBVIOUS
    <2> QED BY <1>2, <2>1 DEF Keeps
  <1>4. ASSUME NEW i \in Nat, P(i) PROVE P(i + 1)
    <2> DEFINE k == i + 1
    <2>1. k \in Nat /\ k = i + 1 /\ k - 1 = i OBVIOUS
    <2> HIDE DEF k
    <2> SUFFICES ASSUME k <= n PROVE f[k] \in Seq(T) /\ Keeps(q, S, k, f[k]) BY DEF k
    <2>2. k \in 1..n /\ i <= n BY <1>1, <2>1
    <2>3. f[i] \in Seq(T) /\ Keeps(q, S, i, f[i]) BY <1>4, <2>2
    <2>4. q[k] \in T /\ f[k] = IF q[k] \in S THEN f[i] ELSE Append(f[i], q[k])
      BY <1>1, <1>2, <2>1, <2>2
    <2> DEFINE p == f[i]
               e == q[k]
               s == f[k]
    <2>5. /\ p \in Seq(T) /\ Keeps(q, S, i, p) /\ e \in T /\ e = q[k]
          /\ s = IF e \in S THEN p ELSE Append(p, e)
      BY <2>3, <2>4
    <2> HIDE DEF p, e, s
    <2>6. s \in Seq(T) /\ Keeps(q, S, k, s) BY <2>1, <2>5, KeepsNext
    <2> QED BY <2>6 DEF s
  <1> HIDE DEF P
  <1>5. Nat \subseteq U
    <2>1. 0 \in U BY <1>3
    <2>2. \A i \in Nat : i \in U => i + 1 \in U BY <1>4
    <2> HIDE DEF U
    <2> QED BY <2>1, <2>2, NatSetInduction
  <1>6. r \in Seq(T) /\ Keeps(q, S, n, r)
    <2>1. P(n) BY <1>1, <1>5
    <2> QED BY <1>1, <1>2, <2>1 DEF P
  <1> QED BY <1>6 DEF r, n

\* The elements of S are gone, and the others are as before.
LEMMA ListedWithout ==
    ASSUME NEW T, NEW q \in Seq(T), NEW S
    PROVE  LET r == Without(q, S)
           IN  /\ r \in Seq(T)
               /\ \A x : \A b \in BOOLEAN : x \notin S /\ Listed(q, x, b) => Listed(r, x, b)
               /\ \A x \in S : Listed(r, x, FALSE)
  <1> DEFINE n == Len(q)
             r == Without(q, S)
  <1>1. r \in Seq(T) /\ Keeps(q, S, n, r) BY WithoutKeeps
  <1> HIDE DEF n, r
  <1>2. ASSUME NEW x, x \notin S, NEW b \in BOOLEAN, Listed(q, x, b) PROVE Listed(r, x, b)
    <2>1. CASE b = TRUE
      <3>1. \E m \in 1..n : \A j \in 1..n : q[j] = x <=> j = m BY <1>2, <2>1 DEF Listed, n
      <3> QED BY <1>1, <1>2, <2>1, <3>1 DEF Keeps
    <2>2. CASE b = FALSE
      <3>1. \A m \in 1..n : q[m] # x BY <1>2, <2>2 DEF Listed, n
      <3>2. \A j \in 1..Len(r) : r[j] # x BY <1>1, <3>1 DEF Keeps
      <3> QED BY <2>2, <3>2 DEF Listed
    <2> QED BY <2>1, <2>2
  <1>3. ASSUME NEW x \in S PROVE Listed(r, x, FALSE) BY <1>1 DEF Listed, Keeps
  <1> QED BY <1>1, <1>2, <1>3 DEF r, n

(***************************************************************************)
(* Servers.  A server is a record whose fields are these; what a command   *)
(* does to the keys is stated field by field.                              *)
(***************************************************************************)

IsClient(r) ==
    DOMAIN r = {"multi", "cas", "exec", "queue", "watched", "keys", "target", "head", "blocked",
                "channels", "patterns", "pubsub", "got", "stale"}

IsServer(s) ==
    /\ DOMAIN s = {"slave", "val", "ttl", "cl", "watching", "blocking", "ready", "channels",
                   "patterns", "scripts", "cache", "dirty", "out", "argv", "force", "gone"}
    /\ DOMAIN s.val = Keys /\ DOMAIN s.ttl = Keys /\ DOMAIN s.cl = Clients
    /\ DOMAIN s.watching = Keys /\ DOMAIN s.blocking = Keys /\ DOMAIN s.channels = Channels
    /\ \A c \in Clients : IsClient(s.cl[c])

\* The list of watchers of a key has the clients that watch it.
WatchOK(s) == \A k \in Keys, c \in Clients : Contains(s.watching[k], c) <=> k \in s.cl[c].watched

\* A master.
Good(s) == IsServer(s) /\ WatchOK(s) /\ s.slave = FALSE

\* All that a command on keys leaves alone in a client.
SameClient(r, q) ==
    /\ q.multi = r.multi /\ q.exec = r.exec /\ q.queue = r.queue /\ q.watched = r.watched
    /\ q.keys = r.keys /\ q.target = r.target /\ q.head = r.head /\ q.blocked = r.blocked
    /\ q.channels = r.channels /\ q.patterns = r.patterns /\ q.pubsub = r.pubsub
    /\ q.stale = r.stale
    /\ q.cas = r.cas \/ (q.cas = TRUE /\ r.watched # {})

\* t is s after something that changes keys, and tells of it.
Edit(s, t) ==
    /\ Good(s) /\ Good(t)
    /\ t.watching = s.watching /\ t.blocking = s.blocking
    /\ t.channels = s.channels /\ t.patterns = s.patterns
    /\ s.gone \subseteq t.gone
    /\ \A c \in Clients : SameClient(s.cl[c], t.cl[c])

\* All watchers of k have been told.
Touched(s, k) == \A c \in Clients : k \in s.cl[c].watched => s.cl[c].cas = TRUE

SameKeys(s, t) == t.val = s.val /\ t.ttl = s.ttl
SameReady(s, t) == t.ready = s.ready

\* A step that changes no key.
LEMMA EditRefl == ASSUME NEW s, Good(s) PROVE Edit(s, s)
  BY DEF Edit, SameClient

\* Two of them make one.
LEMMA EditTrans ==
    ASSUME NEW s, NEW t, NEW u, Edit(s, t), Edit(t, u)
    PROVE  Edit(s, u)
  BY DEF Edit, SameClient

\* Who was told stays told.
LEMMA TouchedStays ==
    ASSUME NEW s, NEW t, Edit(s, t), NEW k, Touched(s, k)
    PROVE  Touched(t, k)
  BY DEF Edit, SameClient, Touched

\* touchWatchedKey
LEMMA TouchFacts ==
    ASSUME NEW s, Good(s), NEW k \in Keys
    PROVE  LET t == signalModifiedKey(s, k)
           IN  Edit(s, t) /\ SameKeys(s, t) /\ SameReady(s, t) /\ t.gone = s.gone /\ Touched(t, k)
  <1> DEFINE t == touchWatchedKey(s, k)
  <1>1. IsServer(s) /\ WatchOK(s) /\ s.slave = FALSE BY DEF Good
  <1>2. /\ DOMAIN t = DOMAIN s /\ t.val = s.val /\ t.ttl = s.ttl /\ t.watching = s.watching
        /\ t.blocking = s.blocking /\ t.ready = s.ready /\ t.channels = s.channels
        /\ t.patterns = s.patterns /\ t.gone = s.gone /\ t.slave = s.slave
        /\ t.cl = [c \in Clients |-> IF Contains(s.watching[k], c)
                                     THEN [s.cl[c] EXCEPT !.cas = TRUE] ELSE s.cl[c]]
    BY <1>1 DEF IsServer, touchWatchedKey
  <1> HIDE DEF t
  <1>3. ASSUME NEW c \in Clients
        PROVE  /\ IsClient(t.cl[c]) /\ SameClient(s.cl[c], t.cl[c])
               /\ k \in s.cl[c].watched => t.cl[c].cas = TRUE
    <2>1. IsClient(s.cl[c]) BY <1>1 DEF IsServer
    <2>2. Contains(s.watching[k], c) <=> k \in s.cl[c].watched BY <1>1 DEF WatchOK
    <2>3. CASE Contains(s.watching[k], c)
      <3>1. t.cl[c] = [s.cl[c] EXCEPT !.cas = TRUE] BY <1>2, <2>3
      <3> QED BY <2>1, <2>2, <2>3, <3>1 DEF IsClient, SameClient
    <2>4. CASE ~ Contains(s.watching[k], c)
      <3>1. t.cl[c] = s.cl[c] BY <1>2, <2>4
      <3> QED BY <2>1, <2>2, <2>4, <3>1 DEF SameClient
    <2> QED BY <2>3, <2>4
  <1>4. IsServer(t) BY <1>1, <1>2, <1>3 DEF IsServer
  <1>5. \A c \in Clients : t.cl[c].watched = s.cl[c].watched BY <1>3 DEF SameClient
  <1>6. WatchOK(t) BY <1>1, <1>2, <1>5 DEF WatchOK
  <1>7. Edit(s, t) BY <1>1, <1>2, <1>3, <1>4, <1>6 DEF Edit, Good
  <1>8. Touched(t, k) BY <1>3, <1>5 DEF Touched
  <1> QED BY <1>2, <1>7, <1>8 DEF signalModifiedKey, SameKeys, SameReady, t

\* A step that leaves the clients and what is kept for them alone.
LEMMA EditKeys ==
    ASSUME NEW s, NEW t, Good(s), DOMAIN t = DOMAIN s, t.slave = s.slave, t.cl = s.cl,
           t.watching = s.watching, t.blocking = s.blocking, t.channels = s.channels,
           t.patterns = s.patterns, s.gone \subseteq t.gone, DOMAIN t.val = Keys, DOMAIN t.ttl = Keys
    PROVE  Edit(s, t)
  <1>1. IsServer(t) BY DEF Good, IsServer
  <1>2. WatchOK(t) BY DEF Good, WatchOK
  <1> QED BY <1>1, <1>2 DEF Edit, Good, SameClient

\* The value and the expire of a key.
IsAt(t, k, v, ttl) == t.val[k] = v /\ t.ttl[k] = ttl

\* The other keys.
Elsewhere(s, t, k) == \A j \in Keys : j # k => t.val[j] = s.val[j] /\ t.ttl[j] = s.ttl[j]

\* dbOverwrite
LEMMA OverwriteFacts ==
    ASSUME NEW s, Good(s), NEW k \in Keys, NEW v
    PROVE  LET t == dbOverwrite(s, k, v)
           IN  /\ Edit(s, t) /\ IsAt(t, k, v, s.ttl[k]) /\ Elsewhere(s, t, k)
               /\ SameReady(s, t) /\ t.gone = s.gone
  <1> DEFINE t == dbOverwrite(s, k, v)
  <1>1. IsServer(s) BY DEF Good
  <1>2. /\ DOMAIN t = DOMAIN s /\ t.ttl = s.ttl /\ t.watching = s.watching /\ t.cl = s.cl
        /\ t.blocking = s.blocking /\ t.ready = s.ready /\ t.channels = s.channels
        /\ t.patterns = s.patterns /\ t.gone = s.gone /\ t.slave = s.slave
        /\ t.val = [s.val EXCEPT ![k] = v]
    BY <1>1 DEF IsServer, dbOverwrite
  <1> HIDE DEF t
  <1>3. DOMAIN t.val = Keys /\ DOMAIN t.ttl = Keys /\ IsAt(t, k, v, s.ttl[k]) /\ Elsewhere(s, t, k)
    BY <1>1, <1>2 DEF IsServer, IsAt, Elsewhere
  <1>4. Edit(s, t) BY <1>2, <1>3, EditKeys
  <1> QED BY <1>2, <1>3, <1>4 DEF t, SameReady

\* dbDelete
LEMMA DeleteFacts ==
    ASSUME NEW s, Good(s), NEW k \in Keys
    PROVE  LET t == dbDelete(s, k)
           IN  /\ Edit(s, t) /\ IsAt(t, k, Absent, "none") /\ Elsewhere(s, t, k)
               /\ SameReady(s, t) /\ t.gone = s.gone
  <1> DEFINE t == dbDelete(s, k)
  <1>1. IsServer(s) BY DEF Good
  <1>2. /\ DOMAIN t = DOMAIN s /\ t.watching = s.watching /\ t.cl = s.cl
        /\ t.blocking = s.blocking /\ t.ready = s.ready /\ t.channels = s.channels
        /\ t.patterns = s.patterns /\ t.gone = s.gone /\ t.slave = s.slave
        /\ t.val = [s.val EXCEPT ![k] = Absent] /\ t.ttl = [s.ttl EXCEPT ![k] = "none"]
    BY <1>1 DEF IsServer, dbDelete
  <1> HIDE DEF t
  <1>3. DOMAIN t.val = Keys /\ DOMAIN t.ttl = Keys /\ IsAt(t, k, Absent, "none") /\ Elsewhere(s, t, k)
    BY <1>1, <1>2 DEF IsServer, IsAt, Elsewhere
  <1>4. Edit(s, t) BY <1>2, <1>3, EditKeys
  <1> QED BY <1>2, <1>3, <1>4 DEF t, SameReady

\* setExpire and removeExpire
LEMMA SetExpireFacts ==
    ASSUME NEW s, Good(s), NEW k \in Keys, NEW when
    PROVE  LET t == setExpire(s, k, when)
           IN  /\ Edit(s, t) /\ IsAt(t, k, s.val[k], when) /\ Elsewhere(s, t, k)
               /\ SameReady(s, t) /\ t.gone = s.gone
  <1> DEFINE t == setExpire(s, k, when)
  <1>1. IsServer(s) BY DEF Good
  <1>2. /\ DOMAIN t = DOMAIN s /\ t.val = s.val /\ t.watching = s.watching /\ t.cl = s.cl
        /\ t.blocking = s.blocking /\ t.ready = s.ready /\ t.channels = s.channels
        /\ t.patterns = s.patterns /\ t.gone = s.gone /\ t.slave = s.slave
        /\ t.ttl = [s.ttl EXCEPT ![k] = when]
    BY <1>1 DEF IsServer, setExpire
  <1> HIDE DEF t
  <1>3. DOMAIN t.val = Keys /\ DOMAIN t.ttl = Keys /\ IsAt(t, k, s.val[k], when) /\ Elsewhere(s, t, k)
    BY <1>1, <1>2 DEF IsServer, IsAt, Elsewhere
  <1>4. Edit(s, t) BY <1>2, <1>3, EditKeys
  <1> QED BY <1>2, <1>3, <1>4 DEF t, SameReady

\* removeExpire
LEMMA RemoveExpireFacts ==
    ASSUME NEW s, Good(s), NEW k \in Keys
    PROVE  LET t == removeExpire(s, k)
           IN  /\ Edit(s, t) /\ IsAt(t, k, s.val[k], "none") /\ Elsewhere(s, t, k)
               /\ SameReady(s, t) /\ t.gone = s.gone
  <1>1. removeExpire(s, k) = setExpire(s, k, "none") BY DEF removeExpire, setExpire
  <1> QED BY <1>1, SetExpireFacts

\* Only the books change: the counter of changes, what is propagated, the arguments, the scripts.
Quiet(s, t) == Edit(s, t) /\ SameKeys(s, t) /\ SameReady(s, t) /\ t.gone = s.gone

\* A step of the books.
LEMMA QuietStep ==
    ASSUME NEW s, NEW t, Good(s), DOMAIN t = DOMAIN s, t.slave = s.slave, t.cl = s.cl,
           t.watching = s.watching, t.blocking = s.blocking, t.channels = s.channels,
           t.patterns = s.patterns, t.gone = s.gone, t.val = s.val, t.ttl = s.ttl, t.ready = s.ready
    PROVE  Quiet(s, t)
  <1>1. DOMAIN t.val = Keys /\ DOMAIN t.ttl = Keys /\ s.gone \subseteq t.gone BY DEF Good, IsServer
  <1>2. Edit(s, t) BY <1>1, EditKeys
  <1> QED BY <1>2 DEF Quiet, SameKeys, SameReady

\* The counter of changes, the propagation, the arguments and the flags.
LEMMA BooksQuiet ==
    ASSUME NEW s, Good(s), NEW x, NEW y
    PROVE  /\ Quiet(s, s) /\ Quiet(s, Dirty(s)) /\ Quiet(s, propagate(s, x))
           /\ Quiet(s, [s EXCEPT !.argv = x]) /\ Quiet(s, [s EXCEPT !.dirty = x])
           /\ Quiet(s, [s EXCEPT !.argv = x, !.force = y])
           /\ Quiet(s, [s EXCEPT !.force = x]) /\ Quiet(s, [s EXCEPT !.scripts = x])
           /\ Quiet(s, [s EXCEPT !.scripts = x, !.cache = y])
           /\ Quiet(s, [s EXCEPT !.scripts = x, !.force = y])
  <1>1. IsServer(s) BY DEF Good
  <1>2. Quiet(s, s) BY QuietStep
  <1>3. Quiet(s, Dirty(s))
    <2> DEFINE t == Dirty(s)
    <2>1. /\ DOMAIN t = DOMAIN s /\ t.slave = s.slave /\ t.cl = s.cl /\ t.watching = s.watching
          /\ t.blocking = s.blocking /\ t.channels = s.channels /\ t.patterns = s.patterns
          /\ t.gone = s.gone /\ t.val = s.val /\ t.ttl = s.ttl /\ t.ready = s.ready
      BY <1>1 DEF Dirty, IsServer
    <2> HIDE DEF t
    <2>2. Quiet(s, t) BY <2>1, QuietStep
    <2> QED BY <2>2 DEF t
  <1>4. Quiet(s, propagate(s, x))
    <2> DEFINE t == propagate(s, x)
    <2>1. /\ DOMAIN t = DOMAIN s /\ t.slave = s.slave /\ t.cl = s.cl /\ t.watching = s.watching
          /\ t.blocking = s.blocking /\ t.channels = s.channels /\ t.patterns = s.patterns
          /\ t.gone = s.gone /\ t.val = s.val /\ t.ttl = s.ttl /\ t.ready = s.ready
      BY <1>1 DEF propagate, IsServer
    <2> HIDE DEF t
    <2>2. Quiet(s, t) BY <2>1, QuietStep
    <2> QED BY <2>2 DEF t
  <1>5. Quiet(s, [s EXCEPT !.argv = x]) BY <1>1, QuietStep DEF IsServer
  <1>6. Quiet(s, [s EXCEPT !.dirty = x]) BY <1>1, QuietStep DEF IsServer
  <1>7. Quiet(s, [s EXCEPT !.argv = x, !.force = y])
    <2> DEFINE t == [s EXCEPT !.argv = x, !.force = y]
    <2>1. /\ DOMAIN t = DOMAIN s /\ t.slave = s.slave /\ t.cl = s.cl /\ t.watching = s.watching
          /\ t.blocking = s.blocking /\ t.channels = s.channels /\ t.patterns = s.patterns
          /\ t.gone = s.gone /\ t.val = s.val /\ t.ttl = s.ttl /\ t.ready = s.ready
      BY <1>1 DEF IsServer
    <2> HIDE DEF t
    <2>2. Quiet(s, t) BY <2>1, QuietStep
    <2> QED BY <2>2 DEF t
  <1>8. Quiet(s, [s EXCEPT !.force = x]) BY <1>1, QuietStep DEF IsServer
  <1>9. Quiet(s, [s EXCEPT !.scripts = x]) BY <1>1, QuietStep DEF IsServer
  <1>10. Quiet(s, [s EXCEPT !.scripts = x, !.cache = y])
    <2> DEFINE t == [s EXCEPT !.scripts = x, !.cache = y]
    <2>1. /\ DOMAIN t = DOMAIN s /\ t.slave = s.slave /\ t.cl = s.cl /\ t.watching = s.watching
          /\ t.blocking = s.blocking /\ t.channels = s.channels /\ t.patterns = s.patterns
          /\ t.gone = s.gone /\ t.val = s.val /\ t.ttl = s.ttl /\ t.ready = s.ready
      BY <1>1 DEF IsServer
    <2> HIDE DEF t
    <2>2. Quiet(s, t) BY <2>1, QuietStep
    <2> QED BY <2>2 DEF t
  <1>11. Quiet(s, [s EXCEPT !.scripts = x, !.force = y])
    <2> DEFINE t == [s EXCEPT !.scripts = x, !.force = y]
    <2>1. /\ DOMAIN t = DOMAIN s /\ t.slave = s.slave /\ t.cl = s.cl /\ t.watching = s.watching
          /\ t.blocking = s.blocking /\ t.channels = s.channels /\ t.patterns = s.patterns
          /\ t.gone = s.gone /\ t.val = s.val /\ t.ttl = s.ttl /\ t.ready = s.ready
      BY <1>1 DEF IsServer
    <2> HIDE DEF t
    <2>2. Quiet(s, t) BY <2>1, QuietStep
    <2> QED BY <2>2 DEF t
  <1> QED BY <1>2, <1>3, <1>4, <1>5, <1>6, <1>7, <1>8, <1>9, <1>10, <1>11

\* Got: what a client popped.
LEMMA GotQuiet ==
    ASSUME NEW s, Good(s), NEW c \in Clients, NEW x
    PROVE  Quiet(s, Got(s, c, x))
  <1> DEFINE t == Got(s, c, x)
  <1>1. IsServer(s) /\ WatchOK(s) BY DEF Good
  <1>2. /\ DOMAIN t = DOMAIN s /\ t.slave = s.slave /\ t.watching = s.watching
        /\ t.blocking = s.blocking /\ t.channels = s.channels /\ t.patterns = s.patterns
        /\ t.gone = s.gone /\ t.val = s.val /\ t.ttl = s.ttl /\ t.ready = s.ready
        /\ t.cl = [s.cl EXCEPT ![c].got = s.cl[c].got \cup {x}]
    BY <1>1 DEF Got, IsServer
  <1> HIDE DEF t
  <1>3. ASSUME NEW d \in Clients PROVE IsClient(t.cl[d]) /\ SameClient(s.cl[d], t.cl[d])
    <2>1. IsClient(s.cl[d]) BY <1>1 DEF IsServer
    <2>2. t.cl[d] = s.cl[d] \/ t.cl[d] = [s.cl[d] EXCEPT !.got = s.cl[d].got \cup {x}]
      BY <1>1, <1>2 DEF IsServer
    <2> QED BY <2>1, <2>2 DEF IsClient, SameClient
  <1>4. IsServer(t) BY <1>1, <1>2, <1>3 DEF IsServer
  <1>5. \A d \in Clients : t.cl[d].watched = s.cl[d].watched BY <1>3 DEF SameClient
  <1>6. WatchOK(t) BY <1>1, <1>2, <1>5 DEF WatchOK
  <1>7. Edit(s, t) BY <1>2, <1>3, <1>4, <1>6 DEF Edit, Good
  <1> QED BY <1>2, <1>7 DEF t, Quiet, SameKeys, SameReady

\* What the lookup of a key did: it is as before, or it had expired and is gone.
Looked(s, t, k) ==
    /\ Edit(s, t) /\ SameReady(s, t) /\ Elsewhere(s, t, k) /\ t.ttl[k] # "due"
    /\ t = s \/ (IsAt(t, k, Absent, "none") /\ k \in t.gone)
    /\ s.ttl[k] # "due" => t = s

\* A key that expires or is evicted.
LEMMA GoneFacts ==
    ASSUME NEW s, Good(s), NEW k \in Keys
    PROVE  LET t == dbDelete(propagateExpire(s, k), k)
           IN  /\ Edit(s, t) /\ SameReady(s, t) /\ Elsewhere(s, t, k)
               /\ IsAt(t, k, Absent, "none") /\ k \in t.gone
  <1> DEFINE p == propagate(s, Command("del", k, None, 0))
             t == propagateExpire(s, k)
             u == dbDelete(t, k)
  <1>1. Quiet(s, p) BY BooksQuiet, Zenon
  <1> HIDE DEF p
  <1>2. Good(p) /\ IsServer(p) /\ IsServer(s) BY <1>1 DEF Quiet, Edit, Good
  <1>3. t = [p EXCEPT !.gone = @ \cup {k}] BY DEF propagateExpire, p
  <1> HIDE DEF t
  <1>4. /\ DOMAIN t = DOMAIN p /\ t.slave = p.slave /\ t.cl = p.cl /\ t.watching = p.watching
        /\ t.blocking = p.blocking /\ t.channels = p.channels /\ t.patterns = p.patterns
        /\ t.gone = p.gone \cup {k} /\ t.val = p.val /\ t.ttl = p.ttl /\ t.ready = p.ready
    BY <1>2, <1>3 DEF IsServer
  <1>5. DOMAIN t.val = Keys /\ DOMAIN t.ttl = Keys /\ p.gone \subseteq t.gone
    BY <1>2, <1>4 DEF IsServer
  <1>6. Edit(p, t) BY <1>2, <1>4, <1>5, EditKeys
  <1>7. Edit(s, t) BY <1>1, <1>6, EditTrans DEF Quiet
  <1>8. /\ Edit(t, u) /\ IsAt(u, k, Absent, "none") /\ Elsewhere(t, u, k)
        /\ SameReady(t, u) /\ u.gone = t.gone
    BY <1>7, DeleteFacts DEF Edit
  <1> HIDE DEF u
  <1>9. Edit(s, u) BY <1>7, <1>8, EditTrans
  <1> QED BY <1>1, <1>4, <1>8, <1>9 DEF u, t, Quiet, SameKeys, SameReady, Elsewhere

\* expireIfNeeded and the lookups that call it.
LEMMA LookupFacts ==
    ASSUME NEW s, Good(s), NEW k \in Keys
    PROVE  /\ Looked(s, expireIfNeeded(s, k), k)
           /\ lookupKeyRead(s, k) = expireIfNeeded(s, k) /\ lookupKeyWrite(s, k) = expireIfNeeded(s, k)
  <1>1. CASE s.ttl[k] # "due"
    <2>1. expireIfNeeded(s, k) = s BY <1>1 DEF expireIfNeeded
    <2> QED BY <1>1, <2>1, EditRefl DEF Looked, Elsewhere, SameReady, lookupKeyRead, lookupKeyWrite
  <1>2. CASE s.ttl[k] = "due"
    <2> DEFINE t == dbDelete(propagateExpire(s, k), k)
    <2>1. expireIfNeeded(s, k) = t BY <1>2 DEF expireIfNeeded, Good
    <2>2. /\ Edit(s, t) /\ SameReady(s, t) /\ Elsewhere(s, t, k)
          /\ IsAt(t, k, Absent, "none") /\ k \in t.gone
      BY GoneFacts
    <2> HIDE DEF t
    <2>3. t.ttl[k] # "due" BY <2>2 DEF IsAt
    <2> QED BY <1>2, <2>1, <2>2, <2>3 DEF Looked, lookupKeyRead, lookupKeyWrite
  <1> QED BY <1>1, <1>2

\* The list k was signalled: it is ready if somebody waits for it.
Signalled(s, t, k) ==
    \/ t.ready = s.ready /\ (s.blocking[k] = <<>> \/ Contains(s.ready, k))
    \/ t.ready = Append(s.ready, k) /\ s.blocking[k] # <<>> /\ ~ Contains(s.ready, k)

\* signalListAsReady
LEMMA SignalFacts ==
    ASSUME NEW s, Good(s), NEW k \in Keys
    PROVE  LET t == signalListAsReady(s, k)
           IN  Edit(s, t) /\ SameKeys(s, t) /\ t.gone = s.gone /\ Signalled(s, t, k)
  <1> DEFINE t == signalListAsReady(s, k)
  <1>1. IsServer(s) BY DEF Good
  <1>2. /\ DOMAIN t = DOMAIN s /\ t.slave = s.slave /\ t.cl = s.cl /\ t.watching = s.watching
        /\ t.blocking = s.blocking /\ t.channels = s.channels /\ t.patterns = s.patterns
        /\ t.gone = s.gone /\ t.val = s.val /\ t.ttl = s.ttl
    BY <1>1 DEF signalListAsReady, IsServer
  <1>3. Signalled(s, t, k) BY <1>1 DEF signalListAsReady, IsServer, Signalled
  <1> HIDE DEF t
  <1>4. DOMAIN t.val = Keys /\ DOMAIN t.ttl = Keys /\ s.gone \subseteq t.gone
    BY <1>1, <1>2 DEF IsServer
  <1>5. Edit(s, t) BY <1>2, <1>4, EditKeys
  <1> QED BY <1>2, <1>3, <1>5 DEF t, SameKeys

\* dbAdd
LEMMA AddFacts ==
    ASSUME NEW s, Good(s), NEW k \in Keys, NEW v
    PROVE  LET t == dbAdd(s, k, v)
           IN  /\ Edit(s, t) /\ IsAt(t, k, v, s.ttl[k]) /\ Elsewhere(s, t, k) /\ t.gone = s.gone
               /\ IF v.type = "list" THEN Signalled(s, t, k) ELSE SameReady(s, t)
  <1> DEFINE u == dbOverwrite(s, k, v)
             t == dbAdd(s, k, v)
  <1>1. /\ Edit(s, u) /\ IsAt(u, k, v, s.ttl[k]) /\ Elsewhere(s, u, k)
        /\ SameReady(s, u) /\ u.gone = s.gone
    BY OverwriteFacts
  <1>2. t = IF v.type = "list" THEN signalListAsReady(u, k) ELSE u BY DEF dbAdd, dbOverwrite
  <1> HIDE DEF u, t
  <1>3. Good(u) /\ u.blocking = s.blocking BY <1>1 DEF Edit
  <1>4. CASE v.type = "list"
    <2> DEFINE w == signalListAsReady(u, k)
    <2>1. Edit(u, w) /\ SameKeys(u, w) /\ w.gone = u.gone /\ Signalled(u, w, k) BY <1>3, SignalFacts
    <2> HIDE DEF w
    <2>2. t = w BY <1>2, <1>4 DEF w
    <2>3. Edit(s, w) BY <1>1, <2>1, EditTrans
    <2> QED BY <1>1, <1>3, <1>4, <2>1, <2>2, <2>3
        DEF IsAt, Elsewhere, SameKeys, SameReady, Signalled, t
  <1>5. CASE v.type # "list" BY <1>1, <1>2, <1>5 DEF t
  <1> QED BY <1>4, <1>5

(***************************************************************************)
(* What a command on keys may do.                                          *)
(***************************************************************************)

\* The keys that a SORT of a client or of a script stores to.
Stored ==
    {k \in Keys :
       \/ \E w \in Workloads : \E c \in Clients : \E cmd \in w.commands[c] :
            cmd.op = "sort" /\ cmd.k2 = k
       \/ \E sha \in DOMAIN Scripts :
            \/ \E i \in 1..Len(Scripts[sha].then) :
                 Scripts[sha].then[i].op = "sort" /\ Scripts[sha].then[i].k2 = k
            \/ \E i \in 1..Len(Scripts[sha].else) :
                 Scripts[sha].else[i].op = "sort" /\ Scripts[sha].else[i].k2 = k}

\* The value and the expire of a key between two commands.
KeyOK(s, k) == IsValue(s.val[k]) /\ s.ttl[k] \in TTLs /\ (s.ttl[k] = "none" \/ Exists(s, k))

\* The list of the ready keys has no key twice.
ReadySeq(s) ==
    /\ s.ready \in Seq(Keys)
    /\ \A i, j \in 1..Len(s.ready) : s.ready[i] = s.ready[j] => i = j

Keyed(s) == Good(s) /\ ReadySeq(s) /\ \A k \in Keys : KeyOK(s, k)

\* A list that somebody waits for was a list before, or is ready.
NewList(s, t, k) ==
    IsList(t, k) /\ t.blocking[k] # <<>> /\ k \notin Stored => IsList(s, k) \/ Contains(t.ready, k)

\* t is s after a command on keys: the watchers of what changed have been told,
\* and the lists that somebody waits for are ready.
Changes(s, t) ==
    /\ Edit(s, t) /\ Keyed(s) /\ Keyed(t)
    /\ \A k \in Keys :
         /\ t.val[k] = s.val[k] \/ k \in t.gone \/ Touched(t, k)
         /\ NewList(s, t, k)
         /\ Contains(s.ready, k) => Contains(t.ready, k)
         /\ Contains(t.ready, k) => Contains(s.ready, k) \/ Touched(t, k)

\* Two of them make one.
LEMMA ChangesTrans ==
    ASSUME NEW s, NEW t, NEW u, Changes(s, t), Changes(t, u)
    PROVE  Changes(s, u)
  <1>1. Edit(s, u) /\ Keyed(s) /\ Keyed(u) BY EditTrans DEF Changes
  <1>2. ASSUME NEW k \in Keys
        PROVE  /\ u.val[k] = s.val[k] \/ k \in u.gone \/ Touched(u, k)
               /\ NewList(s, u, k)
               /\ Contains(s.ready, k) => Contains(u.ready, k)
               /\ Contains(u.ready, k) => Contains(s.ready, k) \/ Touched(u, k)
    <2>1. Touched(t, k) => Touched(u, k) BY TouchedStays DEF Changes
    <2>2. k \in t.gone => k \in u.gone BY DEF Changes, Edit
    <2>3. u.blocking = t.blocking BY DEF Changes, Edit
    <2> QED BY <2>1, <2>2, <2>3 DEF Changes, NewList
  <1> QED BY <1>1, <1>2 DEF Changes

\* One key more that is ready.
LEMMA ReadyAppend ==
    ASSUME NEW q \in Seq(Keys), NEW k \in Keys, ~ Contains(q, k),
           \A i, j \in 1..Len(q) : q[i] = q[j] => i = j
    PROVE  /\ Append(q, k) \in Seq(Keys) /\ Len(Append(q, k)) = Len(q) + 1
           /\ \A i, j \in 1..Len(Append(q, k)) : Append(q, k)[i] = Append(q, k)[j] => i = j
           /\ \A x : Contains(Append(q, k), x) <=> Contains(q, x) \/ x = k
  <1> DEFINE r == Append(q, k)
             n == Len(q)
  <1>1. n \in Nat /\ r \in Seq(Keys) /\ Len(r) = n + 1 /\ r[n + 1] = k
        /\ \A i \in 1..n : r[i] = q[i]
    BY AppendProperties, LenProperties
  <1>2. \A i \in 1..n : q[i] # k BY DEF Contains
  <1>3. \A i, j \in 1..n : q[i] = q[j] => i = j OBVIOUS
  <1> HIDE DEF r, n
  <1>4. ASSUME NEW i \in 1..(n + 1), NEW j \in 1..(n + 1), r[i] = r[j] PROVE i = j
    <2>1. i \in 1..n \/ i = n + 1 BY <1>1
    <2>2. j \in 1..n \/ j = n + 1 BY <1>1
    <2> QED BY <1>1, <1>2, <1>3, <1>4, <2>1, <2>2
  <1>5. ASSUME NEW x PROVE Contains(r, x) <=> Contains(q, x) \/ x = k
    <2>1. ASSUME Contains(r, x) PROVE Contains(q, x) \/ x = k
      <3>1. PICK i \in 1..(n + 1) : r[i] = x BY <1>1, <2>1 DEF Contains
      <3>2. i \in 1..n \/ i = n + 1 BY <1>1
      <3> QED BY <1>1, <3>1, <3>2 DEF Contains, n
    <2>2. ASSUME Contains(q, x) PROVE Contains(r, x)
      <3>1. PICK i \in 1..n : q[i] = x BY <2>2 DEF Contains, n
      <3>2. i \in 1..Len(r) BY <1>1
      <3> QED BY <1>1, <3>1, <3>2 DEF Contains
    <2>3. Contains(r, k)
      <3>1. n + 1 \in 1..Len(r) BY <1>1
      <3> QED BY <1>1, <3>1 DEF Contains
    <2> QED BY <2>1, <2>2, <2>3
  <1> QED BY <1>1, <1>4, <1>5 DEF r, n

\* A command that changes only the keys of K, and makes at most one of them ready.
LEMMA ChangesAt ==
    ASSUME NEW s, NEW t, NEW K \in SUBSET Keys, Keyed(s), Edit(s, t),
           \A j \in Keys : j \notin K => t.val[j] = s.val[j] /\ t.ttl[j] = s.ttl[j],
           \A j \in K : /\ KeyOK(t, j) /\ NewList(s, t, j)
                        /\ t.val[j] = s.val[j] \/ j \in t.gone \/ Touched(t, j),
           \/ t.ready = s.ready
           \/ \E k \in K : Touched(t, k) /\ ~ Contains(s.ready, k) /\ t.ready = Append(s.ready, k)
    PROVE  Changes(s, t)
  <1>1. \A j \in Keys : KeyOK(t, j)
    <2>1. \A j \in Keys : KeyOK(s, j) BY DEF Keyed
    <2> QED BY <2>1 DEF KeyOK, Exists
  <1>2. ReadySeq(s) /\ Good(t) BY DEF Keyed, Edit
  <1> DEFINE Grown == \A k \in Keys : /\ Contains(s.ready, k) => Contains(t.ready, k)
                                      /\ Contains(t.ready, k) => Contains(s.ready, k) \/ Touched(t, k)
  <1>3. ReadySeq(t) /\ Grown
    <2>1. CASE t.ready = s.ready BY <1>2, <2>1 DEF ReadySeq
    <2>2. ASSUME NEW k \in K, Touched(t, k), ~ Contains(s.ready, k), t.ready = Append(s.ready, k)
          PROVE  ReadySeq(t) /\ Grown
      <3> DEFINE q == s.ready
                 r == t.ready
      <3>1. q \in Seq(Keys) /\ \A i, j \in 1..Len(q) : q[i] = q[j] => i = j BY <1>2 DEF ReadySeq
      <3>2. r = Append(q, k) /\ ~ Contains(q, k) /\ k \in Keys BY <2>2
      <3>3. /\ r \in Seq(Keys) /\ \A i, j \in 1..Len(r) : r[i] = r[j] => i = j
            /\ \A x : Contains(r, x) <=> Contains(q, x) \/ x = k
        <4> HIDE DEF q, r
        <4> QED BY <3>1, <3>2, ReadyAppend
      <3> QED BY <2>2, <3>3 DEF ReadySeq
    <2> QED BY <2>1, <2>2
  <1>4. Keyed(t) BY <1>1, <1>2, <1>3 DEF Keyed
  <1>5. \A j \in Keys : NewList(s, t, j) /\ (t.val[j] = s.val[j] \/ j \in t.gone \/ Touched(t, j))
    <2> SUFFICES ASSUME NEW j \in Keys, j \notin K PROVE NewList(s, t, j) OBVIOUS
    <2> QED BY DEF NewList, IsList
  <1> QED BY <1>3, <1>4, <1>5 DEF Changes

\* A step of the books is a command on no key.
LEMMA QuietChanges ==
    ASSUME NEW s, NEW t, Keyed(s), Quiet(s, t)
    PROVE  Changes(s, t)
  <1>1. Edit(s, t) /\ t.val = s.val /\ t.ttl = s.ttl /\ t.ready = s.ready
    BY DEF Quiet, SameKeys, SameReady
  <1> DEFINE K == {}
  <1>2. K \in SUBSET Keys /\ \A j \in K : FALSE OBVIOUS
  <1> HIDE DEF K
  <1> QED BY <1>1, <1>2, ChangesAt

(***************************************************************************)
(* Values.                                                                 *)
(***************************************************************************)

\* A list has its own elements.
LEMMA SeqToSet == ASSUME NEW S, NEW q \in Seq(S) PROVE q \in Seq(ToSet(q))
  <1>1. Len(q) \in Nat /\ DOMAIN q = 1..Len(q) /\ q \in [1..Len(q) -> S] BY LenProperties
  <1>2. \A i \in 1..Len(q) : q[i] \in ToSet(q) BY <1>1 DEF ToSet
  <1>3. q \in [1..Len(q) -> ToSet(q)] BY <1>1, <1>2
  <1> QED BY <1>1, <1>3, SeqDef

\* The values that commands store.
LEMMA ValueFacts ==
    /\ IsValue(Absent) /\ Absent.type = "none" /\ \A x : IsValue(String(x)) /\ String(x).type = "string"
    /\ \A q : List(q).type = "list" /\ List(q).v = q /\ List(q) # Absent
    /\ \A x : String(x) # Absent
    /\ \A S : \A q \in Seq(S) : q # <<>> => IsValue(List(q))
  <1>1. IsValue(Absent)
    <2>1. <<>> \in Seq(ToSet(<<>>)) OBVIOUS
    <2> QED BY <2>1 DEF IsValue, Absent
  <1>2. ASSUME NEW x PROVE IsValue(String(x))
    <2>1. <<x>> \in Seq({x}) OBVIOUS
    <2>2. <<x>> \in Seq(ToSet(<<x>>)) BY <2>1, SeqToSet
    <2> QED BY <2>2 DEF IsValue, String
  <1>3. ASSUME NEW S, NEW q \in Seq(S), q # <<>> PROVE IsValue(List(q))
    <2>1. q \in Seq(ToSet(q)) BY SeqToSet
    <2> QED BY <1>3, <2>1 DEF IsValue, List
  <1>4. Absent.type = "none" BY DEF Absent
  <1>5. \A x : String(x).type = "string" BY DEF String
  <1>6. \A q : List(q).type = "list" /\ List(q).v = q BY DEF List
  <1> QED BY <1>1, <1>2, <1>3, <1>4, <1>5, <1>6

\* A key that is a list, perhaps an empty one.
ListAt(s, k) == s.val[k] = List(s.val[k].v) /\ s.val[k].v \in Seq(ToSet(s.val[k].v))

\* Between two commands a key that is a list is not empty.
LEMMA ListFacts ==
    ASSUME NEW s, NEW k, KeyOK(s, k)
    PROVE  /\ IsList(s, k) => ListAt(s, k) /\ s.val[k].v # <<>> /\ Exists(s, k)
           /\ ~ Exists(s, k) => s.ttl[k] = "none" /\ ~ IsList(s, k)
  BY DEF KeyOK, IsValue, IsList, ListAt, List, Exists, Absent

\* A list that is not empty is a value.
LEMMA ListIsValue ==
    ASSUME NEW s, NEW k, ListAt(s, k), s.val[k].v # <<>>
    PROVE  IsValue(s.val[k]) /\ IsList(s, k) /\ Exists(s, k)
  <1> DEFINE q == s.val[k].v
  <1>1. s.val[k] = List(q) /\ q \in Seq(ToSet(q)) /\ q # <<>> BY DEF ListAt
  <1> HIDE DEF q
  <1> QED BY <1>1, ValueFacts DEF IsList, Exists

\* Pushed
LEMMA PushedFacts ==
    ASSUME NEW s, Good(s), NEW k \in Keys, NEW x, NEW head \in BOOLEAN, ListAt(s, k)
    PROVE  LET t == Pushed(s, k, x, head)
           IN  /\ Edit(s, t) /\ Elsewhere(s, t, k) /\ SameReady(s, t) /\ t.gone = s.gone
               /\ ListAt(t, k) /\ t.val[k].v # <<>> /\ t.ttl[k] = s.ttl[k]
  <1> DEFINE q == s.val[k].v
             r == IF head THEN <<x>> \o q ELSE Append(q, x)
             S == ToSet(q) \cup {x}
             t == Pushed(s, k, x, head)
  <1>1. t = dbOverwrite(s, k, List(r)) BY DEF Pushed, dbOverwrite
  <1>2. r # <<>> /\ r \in Seq(ToSet(r))
    <2>1. q \in Seq(ToSet(q)) BY DEF ListAt
    <2>2. q \in Seq(S) /\ <<x>> \in Seq(S) /\ Len(<<x>>) = 1 /\ x \in S BY <2>1, SeqMonotonic
    <2> HIDE DEF q, S
    <2>3. <<x>> \o q \in Seq(S) /\ Len(<<x>> \o q) = Len(<<x>>) + Len(q) BY <2>2, ConcatProperties
    <2>4. Append(q, x) \in Seq(S) /\ Len(Append(q, x)) = Len(q) + 1 BY <2>2, AppendProperties
    <2>5. Len(q) \in Nat BY <2>1, LenProperties
    <2>6. r \in Seq(S) /\ Len(r) # 0 BY <2>2, <2>3, <2>4, <2>5
    <2>7. r # <<>> BY <2>6
    <2> QED BY <2>6, <2>7, SeqToSet
  <1> HIDE DEF r, t
  <1> DEFINE u == dbOverwrite(s, k, List(r))
  <1>3. /\ Edit(s, u) /\ IsAt(u, k, List(r), s.ttl[k]) /\ Elsewhere(s, u, k)
        /\ SameReady(s, u) /\ u.gone = s.gone
    BY OverwriteFacts
  <1> HIDE DEF u
  <1>4. u = t BY <1>1 DEF u
  <1>5. List(r).v = r BY ValueFacts
  <1> QED BY <1>2, <1>3, <1>4, <1>5 DEF t, IsAt, ListAt

\* Popped
LEMMA PoppedFacts ==
    ASSUME NEW s, Good(s), NEW k \in Keys, NEW head \in BOOLEAN, ListAt(s, k), s.val[k].v # <<>>
    PROVE  LET t == Popped(s, k, head)
           IN  /\ Edit(s, t) /\ Elsewhere(s, t, k) /\ SameReady(s, t) /\ t.gone = s.gone
               /\ ListAt(t, k) /\ t.ttl[k] = s.ttl[k]
  <1> DEFINE q == s.val[k].v
             r == IF head THEN Tail(q) ELSE Front(q)
             t == Popped(s, k, head)
  <1>1. q \in Seq(ToSet(q)) /\ q # <<>> /\ s.val[k] = List(q) BY DEF ListAt
  <1>2. r \in Seq(ToSet(r))
    <2> HIDE DEF q
    <2>1. Tail(q) \in Seq(ToSet(q)) BY <1>1, HeadTailProperties
    <2>2. Front(q) \in Seq(ToSet(q))
      <3>1. Len(q) \in Nat /\ \A i \in 1..Len(q) : q[i] \in ToSet(q)
        BY <1>1, LenProperties, ElementOfSeq
      <3>2. 1 \in Int /\ Len(q) - 1 \in Int /\ \A i \in 1..(Len(q) - 1) : q[i] \in ToSet(q) BY <3>1
      <3>3. SubSeq(q, 1, Len(q) - 1) \in Seq(ToSet(q)) BY <1>1, <3>2, SubSeqProperties
      <3> QED BY <3>3 DEF Front
    <2>3. r \in Seq(ToSet(q)) BY <2>1, <2>2
    <2> QED BY <2>3, SeqToSet
  <1>3. IsServer(s) BY DEF Good
  <1>4. t = dbOverwrite(s, k, List(r))
    <2>1. [s.val[k] EXCEPT !.v = r] = List(r)
      <3>1. \A a, b : [List(a) EXCEPT !.v = b] = List(b) BY DEF List
      <3> HIDE DEF r, q
      <3> QED BY <1>1, <3>1
    <2>2. t = [s EXCEPT !.val = [s.val EXCEPT ![k] = [s.val[k] EXCEPT !.v = r]]]
      BY DEF Popped
    <2> HIDE DEF r
    <2> QED BY <2>1, <2>2 DEF dbOverwrite
  <1> HIDE DEF r, t
  <1> DEFINE u == dbOverwrite(s, k, List(r))
  <1>5. /\ Edit(s, u) /\ IsAt(u, k, List(r), s.ttl[k]) /\ Elsewhere(s, u, k)
        /\ SameReady(s, u) /\ u.gone = s.gone
    BY OverwriteFacts
  <1> HIDE DEF u
  <1>6. u = t BY <1>4 DEF u
  <1>7. List(r).v = r BY ValueFacts
  <1> QED BY <1>2, <1>5, <1>6, <1>7 DEF t, IsAt, ListAt

\* DeleteIfEmpty
LEMMA DeleteIfEmptyFacts ==
    ASSUME NEW s, Good(s), NEW k \in Keys, ListAt(s, k), s.ttl[k] \in TTLs
    PROVE  LET t == DeleteIfEmpty(s, k)
           IN  /\ Edit(s, t) /\ Elsewhere(s, t, k) /\ SameReady(s, t) /\ t.gone = s.gone
               /\ KeyOK(t, k) /\ (s.val[k].v # <<>> => t = s)
               /\ (s.val[k].v = <<>> => ~ IsList(t, k))
  <1>1. s.val[k].type = "list" BY ValueFacts DEF ListAt
  <1>2. CASE s.val[k].v = <<>>
    <2> DEFINE t == dbDelete(s, k)
    <2>1. /\ Edit(s, t) /\ IsAt(t, k, Absent, "none") /\ Elsewhere(s, t, k)
          /\ SameReady(s, t) /\ t.gone = s.gone
      BY DeleteFacts
    <2>2. DeleteIfEmpty(s, k) = t BY <1>1, <1>2 DEF DeleteIfEmpty, IsList
    <2> HIDE DEF t
    <2>3. KeyOK(t, k) /\ ~ IsList(t, k) BY <2>1, ValueFacts DEF KeyOK, IsAt, TTLs, IsList
    <2> QED BY <1>2, <2>1, <2>2, <2>3
  <1>3. CASE s.val[k].v # <<>>
    <2>1. DeleteIfEmpty(s, k) = s BY <1>3 DEF DeleteIfEmpty
    <2>2. KeyOK(s, k) BY <1>3, ListIsValue DEF KeyOK
    <2> QED BY <1>3, <2>1, <2>2, EditRefl DEF Elsewhere, SameReady
  <1> QED BY <1>2, <1>3

(***************************************************************************)
(* The commands on keys.                                                   *)
(***************************************************************************)

\* The steps of a command that are at one key.
At(s, t, k) == Edit(s, t) /\ Elsewhere(s, t, k)

\* Two of them make one.
LEMMA AtTrans ==
    ASSUME NEW s, NEW t, NEW u, NEW k, At(s, t, k), At(t, u, k)
    PROVE  At(s, u, k)
  BY EditTrans DEF At, Elsewhere

\* A step of the books is at any key.
LEMMA QuietAt ==
    ASSUME NEW s, NEW t, Quiet(s, t), NEW k
    PROVE  /\ At(s, t, k) /\ Good(t) /\ IsAt(t, k, s.val[k], s.ttl[k])
           /\ t.ready = s.ready /\ t.gone = s.gone /\ \A j : Touched(s, j) => Touched(t, j)
  <1>1. \A j : Touched(s, j) => Touched(t, j) BY TouchedStays DEF Quiet
  <1> QED BY <1>1 DEF Quiet, At, Elsewhere, IsAt, SameKeys, SameReady, Edit

\* A command at one key.
LEMMA ChangesOne ==
    ASSUME NEW s, NEW t, NEW k \in Keys, Keyed(s), At(s, t, k), KeyOK(t, k), NewList(s, t, k),
           t.val[k] = s.val[k] \/ k \in t.gone \/ Touched(t, k),
           \/ t.ready = s.ready
           \/ Touched(t, k) /\ ~ Contains(s.ready, k) /\ t.ready = Append(s.ready, k)
    PROVE  Changes(s, t)
  <1> DEFINE K == {k}
  <1>1. K \in SUBSET Keys /\ \A j \in K : j = k OBVIOUS
  <1>2. Edit(s, t) BY DEF At
  <1>3. \A j \in Keys : j \notin K => t.val[j] = s.val[j] /\ t.ttl[j] = s.ttl[j]
    BY DEF At, Elsewhere
  <1>4. k \in K OBVIOUS
  <1>5. \A j \in K : /\ KeyOK(t, j) /\ NewList(s, t, j)
                     /\ t.val[j] = s.val[j] \/ j \in t.gone \/ Touched(t, j)
    BY <1>1
  <1> HIDE DEF K
  <1> QED BY <1>1, <1>2, <1>3, <1>4, <1>5, ChangesAt

\* The lookup of a key.
LEMMA LookedChanges ==
    ASSUME NEW s, Keyed(s), NEW k \in Keys, NEW t, t = expireIfNeeded(s, k)
    PROVE  Looked(s, t, k) /\ Changes(s, t) /\ Keyed(t) /\ Good(t)
  <1>1. Looked(s, t, k) BY LookupFacts DEF Keyed
  <1>2. At(s, t, k) BY <1>1 DEF Looked, At
  <1>3. KeyOK(s, k) BY DEF Keyed
  <1>4. KeyOK(t, k) /\ NewList(s, t, k)
    <2>1. CASE t = s BY <1>3, <2>1 DEF NewList
    <2>2. CASE IsAt(t, k, Absent, "none")
      BY <2>2, ValueFacts DEF IsAt, KeyOK, TTLs, NewList, IsList
    <2> QED BY <1>1, <2>1, <2>2 DEF Looked
  <1>5. t.ready = s.ready /\ (t.val[k] = s.val[k] \/ k \in t.gone)
    BY <1>1 DEF Looked, SameReady
  <1>6. Changes(s, t) BY <1>2, <1>4, <1>5, ChangesOne, Zenon
  <1> QED BY <1>1, <1>6 DEF Changes, Keyed

\* A key that expires or is evicted.
LEMMA GoneChanges ==
    ASSUME NEW s, Keyed(s), NEW k \in Keys
    PROVE  Changes(s, dbDelete(propagateExpire(s, k), k))
  <1> DEFINE t == dbDelete(propagateExpire(s, k), k)
  <1>1. /\ Edit(s, t) /\ SameReady(s, t) /\ Elsewhere(s, t, k)
        /\ IsAt(t, k, Absent, "none") /\ k \in t.gone
    BY GoneFacts DEF Keyed
  <1> HIDE DEF t
  <1>2. At(s, t, k) /\ t.ready = s.ready /\ k \in t.gone BY <1>1 DEF At, SameReady
  <1>3. KeyOK(t, k) /\ NewList(s, t, k)
    BY <1>1, ValueFacts DEF IsAt, KeyOK, TTLs, NewList, IsList
  <1>4. Changes(s, t) BY <1>2, <1>3, ChangesOne, Zenon
  <1> QED BY <1>4 DEF t

\* The watchers of the key k are told at the end of a command, t, that was at k.
LEMMA ToldAfter ==
    ASSUME NEW s, NEW t, Keyed(s), NEW k \in Keys, At(s, t, k), KeyOK(t, k), NewList(s, t, k),
           t.ready = s.ready \/ (~ Contains(s.ready, k) /\ t.ready = Append(s.ready, k))
    PROVE  Changes(s, signalModifiedKey(t, k)) /\ Changes(s, Dirty(signalModifiedKey(t, k)))
  <1> DEFINE u == signalModifiedKey(t, k)
             v == Dirty(u)
  <1>1. Good(t) BY DEF At, Edit
  <1>2. Edit(t, u) /\ SameKeys(t, u) /\ SameReady(t, u) /\ u.gone = t.gone /\ Touched(u, k)
    BY <1>1, TouchFacts
  <1> HIDE DEF u
  <1>3. At(t, u, k) BY <1>2 DEF At, SameKeys, Elsewhere
  <1>4. At(s, u, k) BY <1>3, AtTrans
  <1>5. KeyOK(u, k) BY <1>2 DEF KeyOK, SameKeys, Exists
  <1>6. u.ready = t.ready /\ u.blocking = t.blocking BY <1>2 DEF SameReady, Edit
  <1>7. NewList(s, u, k) BY <1>2, <1>6 DEF NewList, SameKeys, IsList
  <1>8. \/ u.ready = s.ready
        \/ Touched(u, k) /\ ~ Contains(s.ready, k) /\ u.ready = Append(s.ready, k)
    BY <1>2, <1>6
  <1>9. Changes(s, u) BY <1>2, <1>4, <1>5, <1>7, <1>8, ChangesOne, Zenon
  <1>10. Keyed(u) /\ Good(u) BY <1>9 DEF Changes, Keyed
  <1>11. Changes(u, v) BY <1>10, BooksQuiet, QuietChanges, Zenon
  <1>12. Changes(s, v) BY <1>9, <1>11, ChangesTrans
  <1> QED BY <1>9, <1>12 DEF u

\* setKey: the new value is no list, or the command is a SORT.
LEMMA SetKeyChanges ==
    ASSUME NEW s, Keyed(s), NEW k \in Keys, NEW v, IsValue(v), v # Absent,
           v.type = "list" => k \in Stored
    PROVE  Changes(s, setKey(s, k, v))
  <1> DEFINE t == expireIfNeeded(s, k)
             u == IF Exists(t, k) THEN dbOverwrite(t, k, v) ELSE dbAdd(t, k, v)
             w == removeExpire(u, k)
             x == signalModifiedKey(w, k)
  <1>1. setKey(s, k, v) = x
    BY LookupFacts DEF setKey, Keyed
  <1>2. Changes(s, t) /\ Keyed(t) /\ Good(t) BY LookedChanges
  <1> HIDE DEF t
  <1>3. /\ At(t, u, k) /\ u.val[k] = v
        /\ u.ready = t.ready \/ (~ Contains(t.ready, k) /\ u.ready = Append(t.ready, k))
    <2>1. CASE Exists(t, k)
      <3>1. u = dbOverwrite(t, k, v) BY <2>1
      <3> QED BY <1>2, <3>1, OverwriteFacts DEF At, IsAt, SameReady
    <2>2. CASE ~ Exists(t, k)
      <3>1. u = dbAdd(t, k, v) BY <2>2
      <3> QED BY <1>2, <3>1, AddFacts DEF At, IsAt, SameReady, Signalled
    <2> QED BY <2>1, <2>2
  <1> HIDE DEF u
  <1>4. Good(u) BY <1>3 DEF At, Edit
  <1>5. At(u, w, k) /\ IsAt(w, k, v, "none") /\ w.ready = u.ready
    BY <1>3, <1>4, RemoveExpireFacts DEF At, SameReady
  <1> HIDE DEF w
  <1>6. At(t, w, k) BY <1>3, <1>5, AtTrans
  <1>7. KeyOK(w, k) /\ NewList(t, w, k) BY <1>5 DEF IsAt, KeyOK, TTLs, NewList, IsList
  <1>8. w.ready = t.ready \/ (~ Contains(t.ready, k) /\ w.ready = Append(t.ready, k)) BY <1>3, <1>5
  <1>9. Changes(t, x) BY <1>2, <1>6, <1>7, <1>8, ToldAfter
  <1> QED BY <1>1, <1>2, <1>9, ChangesTrans

\* GET
LEMMA GetChanges ==
    ASSUME NEW s, Keyed(s), NEW cmd, cmd.k \in Keys
    PROVE  Changes(s, getCommand(s, cmd))
  BY LookupFacts, LookedChanges DEF getCommand, Keyed

\* SET
LEMMA SetChanges ==
    ASSUME NEW s, Keyed(s), NEW cmd, cmd.k \in Keys
    PROVE  Changes(s, setCommand(s, cmd))
  <1> DEFINE v == String(cmd.x)
             t == setKey(s, cmd.k, v)
  <1>1. IsValue(v) /\ v # Absent /\ v.type # "list" BY ValueFacts
  <1> HIDE DEF v
  <1>2. Changes(s, t) BY <1>1, SetKeyChanges
  <1> HIDE DEF t
  <1>3. Keyed(t) /\ Good(t) BY <1>2 DEF Changes, Keyed
  <1>4. Changes(t, Dirty(t)) BY <1>3, BooksQuiet, QuietChanges, Zenon
  <1>5. Changes(s, Dirty(t)) BY <1>2, <1>4, ChangesTrans
  <1> QED BY <1>5 DEF setCommand, t, v

\* The deletion of a key, and the watchers are told.
LEMMA DeleteTold ==
    ASSUME NEW s, Keyed(s), NEW k \in Keys
    PROVE  LET t == dbDelete(s, k)
           IN  /\ Changes(s, signalModifiedKey(t, k)) /\ Changes(s, Dirty(signalModifiedKey(t, k)))
               /\ At(s, t, k) /\ KeyOK(t, k) /\ NewList(s, t, k) /\ t.ready = s.ready
  <1> DEFINE t == dbDelete(s, k)
  <1>1. At(s, t, k) /\ IsAt(t, k, Absent, "none") /\ t.ready = s.ready
    BY DeleteFacts DEF Keyed, At, SameReady
  <1> HIDE DEF t
  <1>2. KeyOK(t, k) /\ NewList(s, t, k)
    BY <1>1, ValueFacts DEF IsAt, KeyOK, TTLs, NewList, IsList
  <1>3. Changes(s, signalModifiedKey(t, k)) /\ Changes(s, Dirty(signalModifiedKey(t, k)))
    BY <1>1, <1>2, ToldAfter
  <1> QED BY <1>1, <1>2, <1>3 DEF t

\* DEL
LEMMA DelChanges ==
    ASSUME NEW s, Keyed(s), NEW cmd, cmd.k \in Keys
    PROVE  Changes(s, delCommand(s, cmd))
  <1> DEFINE k == cmd.k
             t == expireIfNeeded(s, k)
             u == Dirty(signalModifiedKey(dbDelete(t, k), k))
  <1>1. Changes(s, t) /\ Keyed(t) BY LookedChanges
  <1> HIDE DEF t
  <1>2. Changes(t, u) BY <1>1, DeleteTold
  <1> HIDE DEF u
  <1>3. Changes(s, u) BY <1>1, <1>2, ChangesTrans
  <1> QED BY <1>1, <1>3 DEF delCommand, t, u

\* EXPIRE
LEMMA ExpireChanges ==
    ASSUME NEW s, Keyed(s), NEW cmd, cmd.k \in Keys
    PROVE  Changes(s, expireGenericCommand(s, cmd))
  <1> DEFINE k == cmd.k
             t == expireIfNeeded(s, k)
             w == IF cmd.x = 0 THEN "due" ELSE "later"
             d == dbDelete(t, k)
             a == [Dirty(d) EXCEPT !.argv = Command("del", k, None, 0)]
             u == signalModifiedKey(a, k)
             e == setExpire(t, k, w)
             v == Dirty(signalModifiedKey(e, k))
  <1>1. lookupKeyRead(s, k) = t BY LookupFacts DEF Keyed
  <1>2. Changes(s, t) /\ Keyed(t) /\ Good(t) BY LookedChanges
  <1> HIDE DEF t
  <1>3. \/ expireGenericCommand(s, cmd) \in {t, u}
        \/ Exists(t, k) /\ expireGenericCommand(s, cmd) = v
    BY <1>1 DEF expireGenericCommand
  <1>4. Changes(t, u)
    <2>1. At(t, d, k) /\ KeyOK(d, k) /\ NewList(t, d, k) /\ d.ready = t.ready
      BY <1>2, DeleteTold
    <2>2. Good(d) BY <2>1 DEF At, Edit
    <2> HIDE DEF d
    <2>3. Quiet(d, Dirty(d)) BY <2>2, BooksQuiet, Zenon
    <2>4. Good(Dirty(d)) BY <2>3 DEF Quiet, Edit
    <2>5. Quiet(Dirty(d), a) BY <2>4, BooksQuiet, Zenon
    <2> HIDE DEF a
    <2>6. /\ At(d, a, k) /\ a.val[k] = d.val[k] /\ a.ttl[k] = d.ttl[k] /\ a.ready = d.ready
          /\ a.blocking = d.blocking
      BY <2>3, <2>5, AtTrans, QuietAt DEF IsAt, Quiet, Edit
    <2>7. At(t, a, k) BY <2>1, <2>6, AtTrans
    <2>8. KeyOK(a, k) /\ NewList(t, a, k) /\ a.ready = t.ready
      BY <2>1, <2>6 DEF KeyOK, NewList, IsList, Exists
    <2> QED BY <1>2, <2>7, <2>8, ToldAfter
  <1>5. ASSUME Exists(t, k) PROVE Changes(t, v)
    <2>1. At(t, e, k) /\ IsAt(e, k, t.val[k], w) /\ e.ready = t.ready
      BY <1>2, SetExpireFacts DEF At, SameReady
    <2>2. w \in TTLs BY DEF TTLs
    <2> HIDE DEF e, w
    <2>3. KeyOK(t, k) /\ e.blocking = t.blocking BY <1>2, <2>1 DEF Keyed, At, Edit
    <2>4. KeyOK(e, k) /\ NewList(t, e, k)
      BY <1>5, <2>1, <2>2, <2>3 DEF KeyOK, IsAt, NewList, IsList, Exists
    <2> QED BY <1>2, <2>1, <2>4, ToldAfter
  <1> HIDE DEF u, v
  <1>6. Changes(s, u) /\ (Exists(t, k) => Changes(s, v)) BY <1>2, <1>4, <1>5, ChangesTrans
  <1> QED BY <1>2, <1>3, <1>6

\* PERSIST tells nobody, as the value stays.
LEMMA PersistChanges ==
    ASSUME NEW s, Keyed(s), NEW cmd, cmd.k \in Keys
    PROVE  Changes(s, persistCommand(s, cmd))
  <1> DEFINE k == cmd.k
             t == removeExpire(s, k)
  <1>1. Good(s) /\ KeyOK(s, k) BY DEF Keyed
  <1>2. At(s, t, k) /\ IsAt(t, k, s.val[k], "none") /\ t.ready = s.ready
    BY <1>1, RemoveExpireFacts DEF At, SameReady
  <1> HIDE DEF t
  <1>3. KeyOK(t, k) /\ NewList(s, t, k) /\ t.val[k] = s.val[k]
    BY <1>1, <1>2 DEF KeyOK, IsAt, TTLs, NewList, IsList
  <1>4. Changes(s, t) BY <1>2, <1>3, ChangesOne, Zenon
  <1>5. Keyed(t) /\ Good(t) BY <1>4 DEF Changes, Keyed
  <1>6. Changes(s, Dirty(t)) BY <1>4, <1>5, BooksQuiet, QuietChanges, ChangesTrans, Zenon
  <1>7. Changes(s, s) BY <1>1, BooksQuiet, QuietChanges, Zenon
  <1> QED BY <1>6, <1>7 DEF persistCommand, t

\* LPUSH and RPUSH: a list that is created is signalled.
LEMMA PushChanges ==
    ASSUME NEW s, Keyed(s), NEW cmd, cmd.k \in Keys, NEW head \in BOOLEAN
    PROVE  Changes(s, pushGenericCommand(s, cmd, head))
  <1> DEFINE k == cmd.k
             t == expireIfNeeded(s, k)
             u == IF Exists(t, k) THEN t ELSE dbAdd(t, k, List(<<>>))
             p == Pushed(u, k, cmd.x, head)
             w == Dirty(signalModifiedKey(p, k))
  <1>1. lookupKeyWrite(s, k) = t BY LookupFacts DEF Keyed
  <1>2. Changes(s, t) /\ Keyed(t) /\ Good(t) BY LookedChanges
  <1> HIDE DEF t
  <1>3. pushGenericCommand(s, cmd, head) = IF WrongType(t, k) THEN t ELSE w
    BY <1>1 DEF pushGenericCommand
  <1>4. ASSUME ~ WrongType(t, k) PROVE Changes(t, w)
    <2>1. KeyOK(t, k) BY <1>2 DEF Keyed
    <2>2. /\ At(t, u, k) /\ ListAt(u, k) /\ u.ttl[k] = t.ttl[k]
          /\ \/ u.ready = t.ready /\ (IsList(t, k) \/ t.blocking[k] = <<>> \/ Contains(u.ready, k))
             \/ ~ Contains(t.ready, k) /\ u.ready = Append(t.ready, k)
      <3>1. CASE Exists(t, k)
        <4>1. u = t BY <3>1
        <4>2. IsList(t, k) BY <1>4, <3>1 DEF WrongType
        <4> QED BY <1>2, <2>1, <4>1, <4>2, ListFacts, EditRefl DEF At, Elsewhere
      <3>2. CASE ~ Exists(t, k)
        <4> DEFINE v == List(<<>>)
        <4>1. u = dbAdd(t, k, v) BY <3>2
        <4>2. v.type = "list" /\ v.v = <<>> BY ValueFacts
        <4> HIDE DEF u
        <4>3. /\ At(t, u, k) /\ u.val[k] = v /\ u.ttl[k] = t.ttl[k] /\ Signalled(t, u, k)
          BY <1>2, <4>1, <4>2, AddFacts DEF At, IsAt
        <4>4. ListAt(u, k)
          <5>1. <<>> \in Seq(ToSet(<<>>)) OBVIOUS
          <5> QED BY <4>2, <4>3, <5>1 DEF ListAt, v
        <4> QED BY <4>3, <4>4 DEF Signalled
      <3> QED BY <3>1, <3>2
    <2> HIDE DEF u
    <2>3. Good(u) BY <2>2 DEF At, Edit
    <2>4. /\ At(u, p, k) /\ p.ready = u.ready /\ ListAt(p, k) /\ p.val[k].v # <<>>
          /\ p.ttl[k] = u.ttl[k]
      BY <2>2, <2>3, PushedFacts DEF At, SameReady
    <2> HIDE DEF p
    <2>5. At(t, p, k) BY <2>2, <2>4, AtTrans
    <2>6. KeyOK(p, k) BY <2>1, <2>2, <2>4, ListIsValue DEF KeyOK
    <2>7. p.ready = t.ready \/ (~ Contains(t.ready, k) /\ p.ready = Append(t.ready, k))
      BY <2>2, <2>4
    <2>8. NewList(t, p, k)
      <3>1. p.blocking = t.blocking BY <2>5 DEF At, Edit
      <3>2. CASE u.ready = t.ready BY <2>2, <2>4, <3>1, <3>2 DEF NewList
      <3>3. CASE ~ Contains(t.ready, k) /\ u.ready = Append(t.ready, k)
        <4>1. Contains(u.ready, k)
          <5> DEFINE q == t.ready
          <5>1. q \in Seq(Keys) /\ k \in Keys /\ \A i, j \in 1..Len(q) : q[i] = q[j] => i = j
            BY <1>2 DEF Keyed, ReadySeq
          <5>2. ~ Contains(q, k) /\ u.ready = Append(q, k) BY <3>3
          <5> HIDE DEF q, k
          <5> QED BY <5>1, <5>2, ReadyAppend
        <4> QED BY <2>4, <4>1 DEF NewList
      <3> QED BY <2>2, <3>2, <3>3
    <2> QED BY <1>2, <2>5, <2>6, <2>7, <2>8, ToldAfter
  <1> HIDE DEF w
  <1> QED BY <1>2, <1>3, <1>4, ChangesTrans

\* LPOP and RPOP: a list that is empty is deleted.
LEMMA PopChanges ==
    ASSUME NEW s, Keyed(s), NEW c \in Clients, NEW cmd, cmd.k \in Keys, NEW head \in BOOLEAN
    PROVE  Changes(s, popGenericCommand(s, c, cmd, head))
  <1> DEFINE k == cmd.k
             t == expireIfNeeded(s, k)
             g == Got(t, c, FirstOf(t.val[k].v, head))
             p == Popped(g, k, head)
             d == DeleteIfEmpty(p, k)
             w == Dirty(signalModifiedKey(d, k))
  <1>1. lookupKeyWrite(s, k) = t BY LookupFacts DEF Keyed
  <1>2. Changes(s, t) /\ Keyed(t) /\ Good(t) BY LookedChanges
  <1> HIDE DEF t
  <1>3. popGenericCommand(s, c, cmd, head) = IF ~ IsList(t, k) THEN t ELSE w
    BY <1>1 DEF popGenericCommand
  <1>4. ASSUME IsList(t, k) PROVE Changes(t, w)
    <2>1. KeyOK(t, k) /\ ListAt(t, k) /\ t.val[k].v # <<>> BY <1>2, <1>4, ListFacts DEF Keyed
    <2>2. Quiet(t, g) BY <1>2, GotQuiet
    <2> HIDE DEF g
    <2>3. At(t, g, k) /\ Good(g) /\ IsAt(g, k, t.val[k], t.ttl[k]) /\ g.ready = t.ready
      BY <2>2, QuietAt
    <2>4. ListAt(g, k) /\ g.val[k].v # <<>> BY <2>1, <2>3 DEF ListAt, IsAt
    <2>5. At(g, p, k) /\ p.ready = g.ready /\ ListAt(p, k) /\ p.ttl[k] = g.ttl[k]
      BY <2>3, <2>4, PoppedFacts DEF At, SameReady
    <2> HIDE DEF p
    <2>6. Good(p) /\ p.ttl[k] \in TTLs BY <2>1, <2>3, <2>5 DEF At, Edit, KeyOK, IsAt
    <2>7. At(p, d, k) /\ d.ready = p.ready /\ KeyOK(d, k)
      BY <2>5, <2>6, DeleteIfEmptyFacts DEF At, SameReady
    <2> HIDE DEF d
    <2>8. At(t, d, k) BY <2>3, <2>5, <2>7, AtTrans
    <2>9. NewList(t, d, k) /\ d.ready = t.ready BY <1>4, <2>3, <2>5, <2>7 DEF NewList
    <2> QED BY <1>2, <2>7, <2>8, <2>9, ToldAfter
  <1> HIDE DEF w
  <1> QED BY <1>2, <1>3, <1>4, ChangesTrans

\* A key that was signalled is ready, or nobody waits for it.
LEMMA SignalledReady ==
    ASSUME NEW s, NEW t, NEW k \in Keys, ReadySeq(s), Signalled(s, t, k)
    PROVE  /\ s.blocking[k] = <<>> \/ Contains(t.ready, k)
           /\ t.ready = s.ready \/ (~ Contains(s.ready, k) /\ t.ready = Append(s.ready, k))
  <1> DEFINE q == s.ready
  <1>1. q \in Seq(Keys) /\ \A i, j \in 1..Len(q) : q[i] = q[j] => i = j BY DEF ReadySeq
  <1>2. \/ t.ready = q /\ (s.blocking[k] = <<>> \/ Contains(q, k))
        \/ t.ready = Append(q, k) /\ s.blocking[k] # <<>> /\ ~ Contains(q, k)
    BY DEF Signalled
  <1> HIDE DEF q
  <1>3. ~ Contains(q, k) => Contains(Append(q, k), k) BY <1>1, ReadyAppend
  <1> QED BY <1>2, <1>3 DEF q

\* rpoplpushHandlePush: the destination is created and signalled, or it is a list.
LEMMA HandlePushFacts ==
    ASSUME NEW s, Good(s), NEW k \in Keys, NEW x, Exists(s, k) => ListAt(s, k)
    PROVE  LET t == rpoplpushHandlePush(s, k, x)
           IN  /\ At(s, t, k) /\ t.gone = s.gone /\ Touched(t, k)
               /\ ListAt(t, k) /\ t.val[k].v # <<>> /\ t.ttl[k] = s.ttl[k]
               /\ (Exists(s, k) /\ t.ready = s.ready) \/ Signalled(s, t, k)
  <1> DEFINE u == IF Exists(s, k) THEN s ELSE dbAdd(s, k, List(<<>>))
             m == signalModifiedKey(u, k)
             t == rpoplpushHandlePush(s, k, x)
  <1>1. t = Pushed(m, k, x, TRUE) BY DEF rpoplpushHandlePush
  <1> HIDE DEF t
  <1>2. /\ At(s, u, k) /\ u.gone = s.gone /\ ListAt(u, k) /\ u.ttl[k] = s.ttl[k]
        /\ (Exists(s, k) /\ u.ready = s.ready) \/ Signalled(s, u, k)
    <2>1. CASE Exists(s, k) BY <2>1, EditRefl DEF At, Elsewhere
    <2>2. CASE ~ Exists(s, k)
      <3> DEFINE v == List(<<>>)
      <3>1. u = dbAdd(s, k, v) BY <2>2
      <3>2. v.type = "list" /\ v.v = <<>> BY ValueFacts
      <3> HIDE DEF u
      <3>3. /\ At(s, u, k) /\ u.val[k] = v /\ u.ttl[k] = s.ttl[k] /\ Signalled(s, u, k)
            /\ u.gone = s.gone
        BY <3>1, <3>2, AddFacts DEF At, IsAt
      <3>4. ListAt(u, k)
        <4>1. <<>> \in Seq(ToSet(<<>>)) OBVIOUS
        <4> QED BY <3>2, <3>3, <4>1 DEF ListAt, v
      <3> QED BY <3>3, <3>4
    <2> QED BY <2>1, <2>2
  <1> HIDE DEF u
  <1>3. Good(u) BY <1>2 DEF At, Edit
  <1>4. /\ At(u, m, k) /\ m.gone = u.gone /\ Touched(m, k) /\ m.val = u.val /\ m.ttl = u.ttl
        /\ m.ready = u.ready
    BY <1>3, TouchFacts DEF At, Elsewhere, SameKeys, SameReady
  <1> HIDE DEF m
  <1>5. Good(m) /\ ListAt(m, k) BY <1>2, <1>4 DEF At, Edit, ListAt
  <1>6. TRUE \in BOOLEAN OBVIOUS
  <1>7. /\ At(m, t, k) /\ t.ready = m.ready /\ t.gone = m.gone /\ ListAt(t, k) /\ t.val[k].v # <<>>
        /\ t.ttl[k] = m.ttl[k]
    <2>1. /\ Edit(m, t) /\ Elsewhere(m, t, k) /\ SameReady(m, t) /\ t.gone = m.gone
          /\ ListAt(t, k) /\ t.val[k].v # <<>> /\ t.ttl[k] = m.ttl[k]
      BY <1>1, <1>5, <1>6, PushedFacts
    <2> QED BY <2>1 DEF At, SameReady
  <1>8. At(s, t, k) BY <1>2, <1>4, <1>7, AtTrans
  <1>9. Touched(t, k) BY <1>4, <1>7, TouchedStays DEF At
  <1>10. (Exists(s, k) /\ t.ready = s.ready) \/ Signalled(s, t, k)
    BY <1>2, <1>4, <1>7 DEF Signalled
  <1> QED BY <1>2, <1>4, <1>7, <1>8, <1>9, <1>10 DEF t

\* RPOPLPUSH, also from a list to itself.
LEMMA RpoplpushChanges ==
    ASSUME NEW s, Keyed(s), NEW cmd, cmd.k \in Keys, cmd.k2 \in Keys
    PROVE  Changes(s, rpoplpushCommand(s, cmd))
  <1> DEFINE k == cmd.k
             l == cmd.k2
             t == expireIfNeeded(s, k)
             u == expireIfNeeded(t, l)
             x == FirstOf(t.val[k].v, FALSE)
             p == Popped(u, k, FALSE)
             h == rpoplpushHandlePush(p, l, x)
             d == DeleteIfEmpty(h, k)
             m == signalModifiedKey(d, k)
             w == Dirty(m)
  <1>1. Changes(s, t) /\ Keyed(t) /\ Good(t) /\ Looked(s, t, k) BY LookedChanges
  <1>2. lookupKeyWrite(s, k) = t BY LookupFacts DEF Keyed
  <1> HIDE DEF t
  <1>3. Changes(t, u) /\ Keyed(u) /\ Good(u) /\ Looked(t, u, l) BY <1>1, LookedChanges
  <1>4. lookupKeyWrite(t, l) = u BY <1>1, LookupFacts
  <1> HIDE DEF u
  <1>5. rpoplpushCommand(s, cmd) = IF ~ IsList(t, k) THEN t ELSE IF WrongType(u, l) THEN u ELSE w
    BY <1>2, <1>4 DEF rpoplpushCommand
  <1>6. ASSUME IsList(t, k), ~ WrongType(u, l) PROVE Changes(u, w)
    <2>1. u.val[k] = t.val[k] /\ IsList(u, k)
      <3>1. CASE k = l BY <1>1, <1>3, <1>6, <3>1 DEF Looked
      <3>2. CASE k # l BY <1>3, <1>6, <3>2 DEF Looked, Elsewhere, IsList
      <3> QED BY <3>1, <3>2
    <2>2. KeyOK(u, k) /\ KeyOK(u, l) /\ k \in Keys /\ l \in Keys BY <1>3 DEF Keyed
    <2>3. ListAt(u, k) /\ u.val[k].v # <<>> BY <2>1, <2>2, ListFacts
    <2>4. FALSE \in BOOLEAN OBVIOUS
    <2>5. At(u, p, k) /\ p.ready = u.ready /\ p.gone = u.gone /\ ListAt(p, k) /\ p.ttl[k] = u.ttl[k]
      BY <1>3, <2>2, <2>3, <2>4, PoppedFacts DEF At, SameReady
    <2> HIDE DEF p
    <2>6. Good(p) /\ p.blocking = u.blocking BY <2>5 DEF At, Edit
    <2>7. Exists(p, l) => ListAt(p, l)
      <3>1. CASE k = l BY <2>5, <3>1
      <3>2. CASE k # l
        <4>1. p.val[l] = u.val[l] BY <2>5, <3>2 DEF At, Elsewhere
        <4>2. Exists(p, l) => IsList(u, l) BY <1>6, <4>1 DEF WrongType, Exists
        <4> QED BY <2>2, <4>1, <4>2, ListFacts DEF ListAt
      <3> QED BY <3>1, <3>2
    <2>8. /\ At(p, h, l) /\ h.gone = p.gone /\ Touched(h, l)
          /\ ListAt(h, l) /\ h.val[l].v # <<>> /\ h.ttl[l] = p.ttl[l]
          /\ (Exists(p, l) /\ h.ready = p.ready) \/ Signalled(p, h, l)
      BY <2>6, <2>7, HandlePushFacts
    <2> HIDE DEF h
    <2>9. Good(h) /\ h.blocking = u.blocking BY <2>6, <2>8 DEF At, Edit
    <2>10. ListAt(h, k) /\ h.ttl[k] = u.ttl[k]
      <3>1. CASE k = l BY <2>5, <2>8, <3>1
      <3>2. CASE k # l BY <2>2, <2>5, <2>8, <3>2 DEF At, Elsewhere, ListAt
      <3> QED BY <3>1, <3>2
    <2>11. h.ttl[k] \in TTLs /\ h.ttl[l] \in TTLs
      <3>1. p.ttl[l] = u.ttl[l] BY <2>2, <2>5 DEF At, Elsewhere
      <3> QED BY <2>2, <2>8, <2>10, <3>1 DEF KeyOK
    <2>12. KeyOK(h, l) BY <2>8, <2>11, ListIsValue DEF KeyOK
    <2>13. /\ At(h, d, k) /\ d.ready = h.ready /\ d.gone = h.gone /\ KeyOK(d, k)
           /\ (h.val[k].v # <<>> => d = h)
      BY <2>2, <2>9, <2>10, <2>11, DeleteIfEmptyFacts DEF At, SameReady
    <2> HIDE DEF d
    <2>14. Good(d) /\ d.blocking = u.blocking BY <2>9, <2>13 DEF At, Edit
    <2>15. KeyOK(d, l)
      <3>1. CASE k = l BY <2>13, <3>1
      <3>2. CASE k # l BY <2>2, <2>12, <2>13, <3>2 DEF At, Elsewhere, KeyOK, Exists
      <3> QED BY <3>1, <3>2
    <2>16. /\ Edit(d, m) /\ m.val = d.val /\ m.ttl = d.ttl /\ m.ready = d.ready /\ Touched(m, k)
           /\ m.blocking = d.blocking
      BY <2>2, <2>14, TouchFacts DEF SameKeys, SameReady, Edit
    <2> HIDE DEF m
    <2>17. Edit(u, m) BY <2>5, <2>8, <2>13, <2>16, EditTrans DEF At
    <2>18. Touched(m, l) BY <2>8, <2>13, <2>16, TouchedStays DEF At
    <2>19. KeyOK(m, k) /\ KeyOK(m, l) BY <2>13, <2>15, <2>16 DEF KeyOK, Exists
    <2>20. \A j \in Keys : j \notin {k, l} => m.val[j] = u.val[j] /\ m.ttl[j] = u.ttl[j]
      BY <2>5, <2>8, <2>13, <2>16 DEF At, Elsewhere
    <2>21. m.ready = u.ready \/ (~ Contains(u.ready, l) /\ m.ready = Append(u.ready, l))
      BY <2>5, <2>8, <2>13, <2>16 DEF Signalled
    <2>22. NewList(u, m, k) BY <2>1 DEF NewList
    <2>23. NewList(u, m, l)
      <3>1. CASE Signalled(p, h, l)
        <4>1. ReadySeq(p) BY <1>3, <2>5 DEF Keyed, ReadySeq
        <4>2. p.blocking[l] = <<>> \/ Contains(h.ready, l) BY <2>2, <3>1, <4>1, SignalledReady
        <4> QED BY <2>6, <2>13, <2>14, <2>16, <4>2 DEF NewList
      <3>2. CASE Exists(p, l) /\ ~ Signalled(p, h, l)
        <4>1. CASE k = l BY <2>22, <4>1
        <4>2. CASE k # l
          <5>1. p.val[l] = u.val[l] BY <2>2, <2>5, <4>2 DEF At, Elsewhere
          <5>2. IsList(u, l) BY <1>6, <3>2, <5>1 DEF WrongType, Exists
          <5> QED BY <5>2 DEF NewList
        <4> QED BY <4>1, <4>2
      <3> QED BY <2>8, <3>1, <3>2
    <2>24. Changes(u, m)
      <3> DEFINE K == {k, l}
      <3>1. K \in SUBSET Keys /\ l \in K BY <2>2
      <3>2. \A j \in Keys : j \notin K => m.val[j] = u.val[j] /\ m.ttl[j] = u.ttl[j] BY <2>20
      <3>3. \A j \in K : /\ KeyOK(m, j) /\ NewList(u, m, j)
                         /\ m.val[j] = u.val[j] \/ j \in m.gone \/ Touched(m, j)
        BY <2>16, <2>18, <2>19, <2>22, <2>23
      <3>4. \/ m.ready = u.ready
            \/ \E j \in K : Touched(m, j) /\ ~ Contains(u.ready, j) /\ m.ready = Append(u.ready, j)
        BY <2>18, <2>21, <3>1
      <3> HIDE DEF K, k, l
      <3> QED BY <1>3, <2>17, <3>1, <3>2, <3>3, <3>4, ChangesAt
    <2>25. Keyed(m) /\ Good(m) BY <2>24 DEF Changes, Keyed
    <2>26. Changes(m, w) BY <2>25, BooksQuiet, QuietChanges, Zenon
    <2> QED BY <2>24, <2>26, ChangesTrans
  <1> HIDE DEF w
  <1>7. Changes(s, u) BY <1>1, <1>3, ChangesTrans
  <1> QED BY <1>1, <1>5, <1>6, <1>7, ChangesTrans

\* RENAME: the list that comes to another name is signalled.
LEMMA RenameChanges ==
    ASSUME NEW s, Keyed(s), NEW cmd, cmd.k \in Keys, cmd.k2 \in Keys
    PROVE  Changes(s, renameCommand(s, cmd))
  <1> DEFINE k == cmd.k
             l == cmd.k2
             t == expireIfNeeded(s, k)
             u == expireIfNeeded(t, l)
             v == t.val[k]
             e == IF Exists(u, l) THEN dbDelete(u, l) ELSE u
             a == dbAdd(e, l, v)
             x == IF t.ttl[k] = "none" THEN a ELSE setExpire(a, l, t.ttl[k])
             d == dbDelete(x, k)
             m == signalModifiedKey(d, k)
             n == signalModifiedKey(m, l)
             w == Dirty(n)
  <1>1. Changes(s, t) /\ Keyed(t) /\ Good(t) /\ Looked(s, t, k) BY LookedChanges
  <1>2. lookupKeyWrite(s, k) = t BY LookupFacts DEF Keyed
  <1> HIDE DEF t
  <1>3. Changes(t, u) /\ Keyed(u) /\ Good(u) /\ Looked(t, u, l) BY <1>1, LookedChanges
  <1>4. lookupKeyWrite(t, l) = u BY <1>1, LookupFacts
  <1> HIDE DEF u
  <1>5. renameCommand(s, cmd) = IF k = l THEN s ELSE IF ~ Exists(t, k) THEN t ELSE w
    BY <1>2, <1>4 DEF renameCommand
  <1>6. ASSUME k # l, Exists(t, k) PROVE Changes(u, w)
    <2>1. u.val[k] = v /\ u.ttl[k] = t.ttl[k] /\ k \in Keys /\ l \in Keys
      BY <1>3, <1>6 DEF Looked, Elsewhere
    <2>2. IsValue(v) /\ v # Absent /\ t.ttl[k] \in TTLs BY <1>1, <1>6 DEF Keyed, KeyOK, Exists
    <2>3. KeyOK(u, l) BY <1>3, <2>1 DEF Keyed
    <2> HIDE DEF v
    <2>4. At(u, e, l) /\ e.ready = u.ready /\ e.ttl[l] = "none"
      <3>1. CASE Exists(u, l)
        <4>1. e = dbDelete(u, l) BY <3>1
        <4> QED BY <1>3, <2>1, <4>1, DeleteFacts DEF At, IsAt, SameReady
      <3>2. CASE ~ Exists(u, l)
        <4>1. e = u BY <3>2
        <4>2. u.ttl[l] = "none" BY <2>3, <3>2 DEF KeyOK
        <4> QED BY <1>3, <4>1, <4>2, EditRefl DEF At, Elsewhere
      <3> QED BY <3>1, <3>2
    <2> HIDE DEF e
    <2>5. Good(e) /\ e.blocking = u.blocking BY <2>4 DEF At, Edit
    <2>6. /\ At(e, a, l) /\ a.val[l] = v /\ a.ttl[l] = "none"
          /\ v.type = "list" => Signalled(e, a, l)
          /\ v.type # "list" => a.ready = e.ready
      <3>1. /\ Edit(e, a) /\ IsAt(a, l, v, e.ttl[l]) /\ Elsewhere(e, a, l) /\ a.gone = e.gone
            /\ IF v.type = "list" THEN Signalled(e, a, l) ELSE SameReady(e, a)
        BY <2>1, <2>5, AddFacts
      <3> HIDE DEF a
      <3> QED BY <2>4, <3>1 DEF At, IsAt, SameReady
    <2> HIDE DEF a
    <2>7. Good(a) BY <2>6 DEF At, Edit
    <2>8. At(a, x, l) /\ x.val[l] = v /\ x.ttl[l] = t.ttl[k] /\ x.ready = a.ready
      <3>1. CASE t.ttl[k] = "none"
        <4>1. x = a BY <3>1
        <4> QED BY <2>6, <2>7, <3>1, <4>1, EditRefl DEF At, Elsewhere
      <3>2. CASE t.ttl[k] # "none"
        <4>1. x = setExpire(a, l, t.ttl[k]) BY <3>2
        <4> QED BY <2>1, <2>6, <2>7, <4>1, SetExpireFacts DEF At, IsAt, SameReady
      <3> QED BY <3>1, <3>2
    <2> HIDE DEF x
    <2>9. At(u, x, l) /\ Good(x) BY <2>4, <2>6, <2>8, AtTrans DEF At, Edit
    <2>10. At(x, d, k) /\ IsAt(d, k, Absent, "none") /\ d.ready = x.ready
      BY <2>1, <2>9, DeleteFacts DEF At, SameReady
    <2> HIDE DEF d
    <2>11. Good(d) BY <2>10 DEF At, Edit
    <2>12. Edit(d, m) /\ m.val = d.val /\ m.ttl = d.ttl /\ m.ready = d.ready /\ Touched(m, k)
      BY <2>1, <2>11, TouchFacts DEF SameKeys, SameReady
    <2> HIDE DEF m
    <2>13. Good(m) BY <2>12 DEF Edit
    <2>14. Edit(m, n) /\ n.val = m.val /\ n.ttl = m.ttl /\ n.ready = m.ready /\ Touched(n, l)
      BY <2>1, <2>13, TouchFacts DEF SameKeys, SameReady
    <2> HIDE DEF n
    <2>15. Touched(n, k) BY <2>12, <2>14, TouchedStays
    <2>16. Edit(u, n) BY <2>9, <2>10, <2>12, <2>14, EditTrans DEF At
    <2>17. n.val[k] = Absent /\ n.ttl[k] = "none" /\ n.val[l] = v /\ n.ttl[l] = t.ttl[k]
      BY <1>6, <2>1, <2>8, <2>10, <2>12, <2>14 DEF At, IsAt, Elsewhere
    <2>18. KeyOK(n, k) BY <2>17, ValueFacts DEF KeyOK, TTLs
    <2>19. KeyOK(n, l) BY <2>2, <2>17 DEF KeyOK, Exists
    <2>20. NewList(u, n, k) BY <2>17, ValueFacts DEF NewList, IsList
    <2>21. ReadySeq(e) BY <1>3, <2>4 DEF Keyed, ReadySeq
    <2>22. n.ready = u.ready \/ (~ Contains(u.ready, l) /\ n.ready = Append(u.ready, l))
      <3>1. a.ready = e.ready \/ (~ Contains(e.ready, l) /\ a.ready = Append(e.ready, l))
        BY <2>1, <2>6, <2>21, SignalledReady
      <3> QED BY <2>4, <2>8, <2>10, <2>12, <2>14, <3>1
    <2>23. NewList(u, n, l)
      <3> SUFFICES ASSUME v.type = "list" PROVE NewList(u, n, l) BY <2>17 DEF NewList, IsList
      <3>1. e.blocking[l] = <<>> \/ Contains(a.ready, l) BY <2>1, <2>6, <2>21, SignalledReady
      <3>2. n.ready = a.ready /\ n.blocking = u.blocking
        BY <2>8, <2>10, <2>12, <2>14, <2>16 DEF Edit
      <3> QED BY <2>5, <3>1, <3>2 DEF NewList
    <2>24. \A j \in Keys : j \notin {k, l} => n.val[j] = u.val[j] /\ n.ttl[j] = u.ttl[j]
      BY <2>9, <2>10, <2>12, <2>14 DEF At, Elsewhere
    <2>25. Changes(u, n)
      <3> DEFINE K == {k, l}
      <3>1. K \in SUBSET Keys /\ l \in K BY <2>1
      <3>2. \A j \in Keys : j \notin K => n.val[j] = u.val[j] /\ n.ttl[j] = u.ttl[j] BY <2>24
      <3>3. \A j \in K : /\ KeyOK(n, j) /\ NewList(u, n, j)
                         /\ n.val[j] = u.val[j] \/ j \in n.gone \/ Touched(n, j)
        BY <2>14, <2>15, <2>18, <2>19, <2>20, <2>23
      <3>4. \/ n.ready = u.ready
            \/ \E j \in K : Touched(n, j) /\ ~ Contains(u.ready, j) /\ n.ready = Append(u.ready, j)
        BY <2>14, <2>22, <3>1
      <3> HIDE DEF K, k, l
      <3> QED BY <1>3, <2>16, <3>1, <3>2, <3>3, <3>4, ChangesAt
    <2>26. Keyed(n) /\ Good(n) BY <2>25 DEF Changes, Keyed
    <2>27. Changes(n, w) BY <2>26, BooksQuiet, QuietChanges, Zenon
    <2> QED BY <2>25, <2>27, ChangesTrans
  <1> HIDE DEF w
  <1>7. Changes(s, u) BY <1>1, <1>3, ChangesTrans
  <1>8. Changes(s, s) BY BooksQuiet, QuietChanges, Zenon DEF Keyed
  <1> QED BY <1>1, <1>5, <1>6, <1>7, <1>8, ChangesTrans

\* A sorted list has the elements that there were places for.
LEMMA SortedFacts ==
    ASSUME NEW S, NEW l \in Seq(S), l # <<>>
    PROVE  IsValue(List(SortedList(l)))
  <1> DEFINE n == Len(l)
             q == SortedList(l)
  <1>1. n \in Nat /\ n # 0 BY LenProperties, EmptySeq
  <1>2. DOMAIN q = 1..n /\ q = [i \in 1..n |-> q[i]]
    <2> DEFINE E(i) == CHOOSE x \in ToSet(l) : /\ Cardinality({j \in 1..Len(l) : l[j] < x}) < i
                                               /\ i <= Cardinality({j \in 1..Len(l) : l[j] <= x})
    <2>1. q = [i \in 1..n |-> E(i)] BY DEF SortedList
    <2> HIDE DEF E, q
    <2> QED BY <2>1
  <1> HIDE DEF q, n
  <1>3. q \in [1..n -> ToSet(q)] BY <1>2 DEF ToSet
  <1>4. q \in Seq(ToSet(q)) BY <1>1, <1>3, SeqDef
  <1>5. q # <<>> BY <1>1, <1>2
  <1> QED BY <1>4, <1>5, ValueFacts DEF q

\* SORT ... STORE
LEMMA SortChanges ==
    ASSUME NEW s, Keyed(s), NEW cmd, cmd.k \in Keys, cmd.k2 \in Keys, cmd.k2 \in Stored
    PROVE  Changes(s, sortCommand(s, cmd))
  <1> DEFINE k == cmd.k
             l == cmd.k2
             t == expireIfNeeded(s, k)
             v == List(SortedList(t.val[k].v))
             u == setKey(t, l, v)
             x == Len(t.val[k].v)
             w == [u EXCEPT !.dirty = @ + x]
             d == Dirty(signalModifiedKey(dbDelete(t, l), l))
  <1>1. Changes(s, t) /\ Keyed(t) /\ Good(t) BY LookedChanges
  <1>2. lookupKeyRead(s, k) = t BY LookupFacts DEF Keyed
  <1> HIDE DEF t
  <1>3. \/ sortCommand(s, cmd) = t
        \/ sortCommand(s, cmd) = w /\ Exists(t, k) /\ ~ WrongType(t, k)
        \/ sortCommand(s, cmd) = d
    BY <1>2 DEF sortCommand
  <1>4. ASSUME Exists(t, k), ~ WrongType(t, k) PROVE Changes(t, w)
    <2>1. IsList(t, k) /\ KeyOK(t, k) BY <1>1, <1>4 DEF WrongType, Keyed
    <2>2. ListAt(t, k) /\ t.val[k].v # <<>> BY <2>1, ListFacts
    <2>3. IsValue(v) BY <2>2, SortedFacts DEF ListAt
    <2>4. v # Absent BY ValueFacts
    <2> HIDE DEF v
    <2>5. Changes(t, u) BY <1>1, <2>3, <2>4, SetKeyChanges
    <2> HIDE DEF u
    <2>6. Keyed(u) /\ Good(u) BY <2>5 DEF Changes, Keyed
    <2> DEFINE y == u.dirty + x
    <2>7. w = [u EXCEPT !.dirty = y] OBVIOUS
    <2> HIDE DEF y, w
    <2>8. Quiet(u, w) BY <2>6, <2>7, BooksQuiet, Zenon
    <2>9. Changes(u, w) BY <2>6, <2>8, QuietChanges
    <2> QED BY <2>5, <2>9, ChangesTrans
  <1>5. Changes(t, d) BY <1>1, DeleteTold
  <1> HIDE DEF w, d
  <1> QED BY <1>1, <1>3, <1>4, <1>5, ChangesTrans

\* FLUSHDB: the clients that watch a key that existed are told.
LEMMA FlushChanges ==
    ASSUME NEW s, Keyed(s)
    PROVE  Changes(s, flushdbCommand(s))
  <1> DEFINE m == touchWatchedKeysOnFlush(s)
             x == m.dirty + Cardinality({k \in Keys : Exists(s, k)})
             t == flushdbCommand(s)
  <1>1. Good(s) /\ IsServer(s) /\ WatchOK(s) /\ s.slave = FALSE BY DEF Keyed, Good
  <1>2. /\ DOMAIN m = DOMAIN s /\ m.watching = s.watching
        /\ m.blocking = s.blocking /\ m.ready = s.ready /\ m.channels = s.channels
        /\ m.patterns = s.patterns /\ m.gone = s.gone /\ m.slave = s.slave
        /\ m.cl = [c \in Clients |-> IF \E k \in s.cl[c].watched : Exists(s, k)
                                     THEN [s.cl[c] EXCEPT !.cas = TRUE] ELSE s.cl[c]]
    BY <1>1 DEF IsServer, touchWatchedKeysOnFlush
  <1> HIDE DEF x
  <1>3. t = [m EXCEPT !.dirty = x, !.val = [k \in Keys |-> Absent], !.ttl = [k \in Keys |-> "none"]]
    BY DEF flushdbCommand, x
  <1> HIDE DEF m, t
  <1>4. /\ DOMAIN t = DOMAIN s /\ t.watching = s.watching
        /\ t.blocking = s.blocking /\ t.ready = s.ready /\ t.channels = s.channels
        /\ t.patterns = s.patterns /\ t.gone = s.gone /\ t.slave = s.slave /\ t.cl = m.cl
        /\ t.val = [k \in Keys |-> Absent] /\ t.ttl = [k \in Keys |-> "none"]
    BY <1>1, <1>2, <1>3 DEF IsServer
  <1>5. ASSUME NEW c \in Clients
        PROVE  /\ IsClient(t.cl[c]) /\ SameClient(s.cl[c], t.cl[c])
               /\ \A k \in s.cl[c].watched : Exists(s, k) => t.cl[c].cas = TRUE
    <2>1. IsClient(s.cl[c]) BY <1>1 DEF IsServer
    <2>2. CASE \E k \in s.cl[c].watched : Exists(s, k)
      <3>1. t.cl[c] = [s.cl[c] EXCEPT !.cas = TRUE] BY <1>2, <1>4, <2>2
      <3> QED BY <2>1, <2>2, <3>1 DEF IsClient, SameClient
    <2>3. CASE ~ \E k \in s.cl[c].watched : Exists(s, k)
      <3>1. t.cl[c] = s.cl[c] BY <1>2, <1>4, <2>3
      <3> QED BY <2>1, <2>3, <3>1 DEF SameClient
    <2> QED BY <2>2, <2>3
  <1>6. IsServer(t) BY <1>1, <1>2, <1>4, <1>5 DEF IsServer
  <1>7. \A c \in Clients : t.cl[c].watched = s.cl[c].watched BY <1>5 DEF SameClient
  <1>8. WatchOK(t) BY <1>1, <1>4, <1>7 DEF WatchOK
  <1>9. Edit(s, t) BY <1>1, <1>4, <1>5, <1>6, <1>8 DEF Edit, Good
  <1>10. ASSUME NEW k \in Keys
         PROVE  /\ KeyOK(t, k) /\ NewList(s, t, k)
                /\ t.val[k] = s.val[k] \/ k \in t.gone \/ Touched(t, k)
    <2>1. t.val[k] = Absent /\ t.ttl[k] = "none" BY <1>4
    <2>2. KeyOK(t, k) /\ NewList(s, t, k) BY <2>1, ValueFacts DEF KeyOK, TTLs, NewList, IsList
    <2>3. Exists(s, k) => Touched(t, k) BY <1>5, <1>7 DEF Touched
    <2> QED BY <2>1, <2>2, <2>3 DEF Exists
  <1> DEFINE K == Keys
  <1>11. /\ K \in SUBSET Keys /\ \A j \in Keys : j \notin K => t.val[j] = s.val[j] /\ t.ttl[j] = s.ttl[j]
         /\ \A j \in K : /\ KeyOK(t, j) /\ NewList(s, t, j)
                         /\ t.val[j] = s.val[j] \/ j \in t.gone \/ Touched(t, j)
         /\ t.ready = s.ready
    BY <1>4, <1>10
  <1> HIDE DEF K
  <1>12. Changes(s, t) BY <1>9, <1>11, ChangesAt
  <1> QED BY <1>12 DEF t

(***************************************************************************)
(* Scripts.                                                                *)
(***************************************************************************)

\* A command of a client or of a script.
Known(cmd) == IsCommand(cmd) /\ (cmd.op = "sort" => cmd.k2 \in Stored)

OnKeys == InScripts \cup {"save", "scriptload", "scriptflush"}

\* Each of the commands that only change keys.
LEMMA ProcChanges ==
    ASSUME NEW s, Keyed(s), NEW c \in Clients, NEW cmd, Known(cmd), cmd.op \in OnKeys
    PROVE  Changes(s, Proc(s, c, cmd))
  <1>1. IsCommand(cmd) /\ Good(s) BY DEF Known, Keyed
  <1>2. ASSUME cmd.op \in {"get", "set", "del", "expire", "persist", "lpush", "rpush", "lpop", "rpop"}
        PROVE  cmd.k \in Keys
    BY <1>1, <1>2 DEF IsCommand
  <1>3. ASSUME cmd.op \in {"rename", "rpoplpush", "sort"} PROVE cmd.k \in Keys /\ cmd.k2 \in Keys
    BY <1>1, <1>3 DEF IsCommand
  <1>4. TRUE \in BOOLEAN /\ FALSE \in BOOLEAN OBVIOUS
  <1>5. CASE cmd.op = "get"
    <2>1. Proc(s, c, cmd) = getCommand(s, cmd) BY <1>5 DEF Proc
    <2> QED BY <1>2, <1>5, <2>1, GetChanges
  <1>6. CASE cmd.op = "set"
    <2>1. Proc(s, c, cmd) = setCommand(s, cmd) BY <1>6 DEF Proc
    <2> QED BY <1>2, <1>6, <2>1, SetChanges
  <1>7. CASE cmd.op = "del"
    <2>1. Proc(s, c, cmd) = delCommand(s, cmd) BY <1>7 DEF Proc
    <2> QED BY <1>2, <1>7, <2>1, DelChanges
  <1>8. CASE cmd.op = "expire"
    <2>1. Proc(s, c, cmd) = expireGenericCommand(s, cmd) BY <1>8 DEF Proc
    <2> QED BY <1>2, <1>8, <2>1, ExpireChanges
  <1>9. CASE cmd.op = "persist"
    <2>1. Proc(s, c, cmd) = persistCommand(s, cmd) BY <1>9 DEF Proc
    <2> QED BY <1>2, <1>9, <2>1, PersistChanges
  <1>10. CASE cmd.op = "lpush"
    <2>1. Proc(s, c, cmd) = pushGenericCommand(s, cmd, TRUE) BY <1>10 DEF Proc
    <2> QED BY <1>2, <1>4, <1>10, <2>1, PushChanges
  <1>11. CASE cmd.op = "rpush"
    <2>1. Proc(s, c, cmd) = pushGenericCommand(s, cmd, FALSE) BY <1>11 DEF Proc
    <2> QED BY <1>2, <1>4, <1>11, <2>1, PushChanges
  <1>12. CASE cmd.op = "lpop"
    <2>1. Proc(s, c, cmd) = popGenericCommand(s, c, cmd, TRUE) BY <1>12 DEF Proc
    <2> QED BY <1>2, <1>4, <1>12, <2>1, PopChanges
  <1>13. CASE cmd.op = "rpop"
    <2>1. Proc(s, c, cmd) = popGenericCommand(s, c, cmd, FALSE) BY <1>13 DEF Proc
    <2> QED BY <1>2, <1>4, <1>13, <2>1, PopChanges
  <1>14. CASE cmd.op = "rename"
    <2>1. Proc(s, c, cmd) = renameCommand(s, cmd) BY <1>14 DEF Proc
    <2> QED BY <1>3, <1>14, <2>1, RenameChanges
  <1>15. CASE cmd.op = "rpoplpush"
    <2>1. Proc(s, c, cmd) = rpoplpushCommand(s, cmd) BY <1>15 DEF Proc
    <2> QED BY <1>3, <1>15, <2>1, RpoplpushChanges
  <1>16. CASE cmd.op = "sort"
    <2>1. Proc(s, c, cmd) = sortCommand(s, cmd) BY <1>16 DEF Proc
    <2>2. cmd.k2 \in Stored BY <1>16 DEF Known
    <2> QED BY <1>3, <1>16, <2>1, <2>2, SortChanges
  <1>17. CASE cmd.op = "flushdb"
    <2>1. Proc(s, c, cmd) = flushdbCommand(s) BY <1>17 DEF Proc
    <2> QED BY <2>1, FlushChanges
  <1>18. CASE cmd.op = "publish"
    <2>1. Proc(s, c, cmd) = [s EXCEPT !.force = TRUE] BY <1>18 DEF Proc, publishCommand
    <2> QED BY <1>1, <2>1, BooksQuiet, QuietChanges, Zenon
  <1>19. CASE cmd.op = "save"
    <2>1. Proc(s, c, cmd) = [s EXCEPT !.dirty = 0] BY <1>19 DEF Proc, saveCommand
    <2> QED BY <1>1, <2>1, BooksQuiet, QuietChanges, Zenon
  <1>20. CASE cmd.op = "scriptload"
    <2> DEFINE x == s.scripts \cup {cmd.x}
    <2>1. Proc(s, c, cmd) = [s EXCEPT !.scripts = x, !.force = TRUE] BY <1>20 DEF Proc, scriptLoad
    <2> HIDE DEF x
    <2> DEFINE t == [s EXCEPT !.scripts = x, !.force = TRUE]
    <2>2. Quiet(s, t) BY <1>1, BooksQuiet, Zenon
    <2> HIDE DEF t
    <2>3. Changes(s, t) BY <2>2, QuietChanges
    <2> QED BY <2>1, <2>3 DEF t
  <1>21. CASE cmd.op = "scriptflush"
    <2> DEFINE t == [s EXCEPT !.scripts = {}, !.cache = <<>>]
    <2>1. Proc(s, c, cmd) = Dirty(t) BY <1>21 DEF Proc, scriptFlush
    <2>2. Quiet(s, t) BY <1>1, BooksQuiet, Zenon
    <2> HIDE DEF t
    <2>3. Changes(s, t) BY <2>2, QuietChanges
    <2>4. Keyed(t) /\ Good(t) BY <2>3 DEF Changes, Keyed
    <2>5. Changes(t, Dirty(t)) BY <2>4, BooksQuiet, QuietChanges, Zenon
    <2> QED BY <2>1, <2>3, <2>5, ChangesTrans
  <1> QED BY <1>5, <1>6, <1>7, <1>8, <1>9, <1>10, <1>11, <1>12, <1>13, <1>14, <1>15, <1>16, <1>17,
             <1>18, <1>19, <1>20, <1>21 DEF OnKeys, InScripts

\* redis.call: the server before it is a.s.
LEMMA CallFromScript ==
    ASSUME NEW a, Keyed(a.s), NEW c \in Clients, NEW cmd, Known(cmd), cmd.op \in InScripts,
           NEW env, env.inner \in Keys \cup {None}
    PROVE  LET b == luaRedisGenericCommand(a, c, cmd, env)
           IN  b.s = a.s \/ Changes(a.s, b.s)
  <1> DEFINE s == a.s
             evicts == env.inner # None /\ Exists(s, env.inner) /\ ~ a.write /\ cmd.op \in DenyOom
             t == IF evicts THEN freeMemoryIfNeeded(s, env.inner) ELSE s
             d == [t EXCEPT !.argv = cmd]
             p == Proc(d, c, cmd)
             x == t.argv
             r == [p EXCEPT !.argv = x]
             b == luaRedisGenericCommand(a, c, cmd, env)
  <1>1. b = a \/ b = [s |-> a.s, err |-> TRUE, write |-> a.write]
           \/ b = [s |-> r, err |-> Fails(t, cmd), write |-> a.write \/ cmd.op \notin NotWrite]
    BY Zenon DEF luaRedisGenericCommand
  <1> HIDE DEF b
  <1>2. b.s = a.s \/ b.s = r
    <2> HIDE DEF r, t
    <2> QED BY <1>1
  <1>3. Changes(s, t)
    <2>1. CASE ~ evicts
      <3>1. t = s BY <2>1
      <3> HIDE DEF s, t
      <3> QED BY <3>1, BooksQuiet, QuietChanges, Zenon DEF Keyed, s
    <2>2. CASE evicts
      <3>1. env.inner \in Keys /\ t = freeMemoryIfNeeded(s, env.inner) BY <2>2
      <3> QED BY <3>1, GoneChanges DEF freeMemoryIfNeeded
    <2> QED BY <2>1, <2>2
  <1> HIDE DEF s, t
  <1>4. Keyed(t) BY <1>3 DEF Changes
  <1>5. Changes(t, d) BY <1>4, BooksQuiet, QuietChanges, Zenon DEF Keyed
  <1> HIDE DEF d
  <1>6. Keyed(d) /\ cmd.op \in OnKeys BY <1>5 DEF Changes, OnKeys
  <1>7. Changes(d, p) BY <1>6, ProcChanges
  <1> HIDE DEF p, x
  <1>8. Keyed(p) /\ Good(p) BY <1>7 DEF Changes, Keyed
  <1>9. Changes(p, r) BY <1>8, BooksQuiet, QuietChanges, Zenon
  <1> HIDE DEF r
  <1>10. Changes(t, p) BY <1>5, <1>7, ChangesTrans
  <1>11. Changes(t, r) BY <1>9, <1>10, ChangesTrans
  <1>12. Changes(s, r) BY <1>3, <1>11, ChangesTrans
  <1> QED BY <1>2, <1>12 DEF b, s

RanFn(f, t, c, q, env, n) ==
    f = [i \in 0..n |-> IF i = 0 THEN t ELSE luaRedisGenericCommand(f[i - 1], c, q[i], env)]

\* The commands of a script, one after the other.
LEMMA RanUnfold ==
    ASSUME NEW t, NEW c, NEW q, NEW env, NEW n \in Nat
    PROVE  LET f == CHOOSE g : RanFn(g, t, c, q, env, n)
           IN  f[0] = t /\ \A i \in 1..n : f[i] = luaRedisGenericCommand(f[i - 1], c, q[i], env)
  <1> DEFINE Op(x, i) == luaRedisGenericCommand(x, c, q[i], env)
             Is(f, m) == f = [i \in 0..m |-> IF i = 0 THEN t ELSE Op(f[i - 1], i)]
             Has(m) == \E f : Is(f, m)
             T == {m \in Nat : Has(m)}
             h == CHOOSE g : RanFn(g, t, c, q, env, n)
  <1> HIDE DEF Op
  <1>1. Has(0)
    <2> DEFINE g == [i \in 0..0 |-> t]
    <2>1. Is(g, 0) OBVIOUS
    <2> HIDE DEF g, Is
    <2> QED BY <2>1
  <1>2. ASSUME NEW m \in Nat, Has(m) PROVE Has(m + 1)
    <2>1. PICK f : Is(f, m) BY <1>2
    <2> DEFINE g == [i \in 0..(m + 1) |-> IF i = m + 1 THEN Op(f[m], m + 1) ELSE f[i]]
    <2>2. \A i \in 0..(m + 1) : g[i] = IF i = 0 THEN t ELSE Op(g[i - 1], i)
      <3> SUFFICES ASSUME NEW i \in 0..(m + 1) PROVE g[i] = IF i = 0 THEN t ELSE Op(g[i - 1], i)
        OBVIOUS
      <3>1. CASE i = m + 1 BY <3>1
      <3>2. CASE i \in 0..m
        <4>1. g[i] = f[i] /\ (i # 0 => g[i - 1] = f[i - 1]) BY <3>2
        <4>2. f[i] = IF i = 0 THEN t ELSE Op(f[i - 1], i) BY <2>1, <3>2
        <4> QED BY <4>1, <4>2
      <3> QED BY <3>1, <3>2
    <2>3. Is(g, m + 1) BY <2>2
    <2> HIDE DEF g, Is
    <2> QED BY <2>3
  <1> HIDE DEF Has
  <1>3. Nat \subseteq T
    <2>1. 0 \in T BY <1>1
    <2>2. \A m \in Nat : m \in T => m + 1 \in T BY <1>2
    <2> HIDE DEF T
    <2> QED BY <2>1, <2>2, NatSetInduction
  <1>4. \E g : RanFn(g, t, c, q, env, n) BY <1>3 DEF Op, Has, RanFn
  <1>5. RanFn(h, t, c, q, env, n) BY <1>4
  <1> HIDE DEF h
  <1>6. Is(h, n) BY <1>5 DEF RanFn, Op
  <1>7. h[0] = t BY <1>6
  <1>8. \A i \in 1..n : h[i] = Op(h[i - 1], i)
    <2> SUFFICES ASSUME NEW i \in 1..n PROVE h[i] = Op(h[i - 1], i) OBVIOUS
    <2>1. i \in 0..n /\ i # 0 OBVIOUS
    <2> QED BY <1>6, <2>1
  <1> QED BY <1>7, <1>8 DEF h, Op

\* All commands of a script.
LEMMA RanChanges ==
    ASSUME NEW t, Keyed(t.s), NEW c \in Clients, NEW q, NEW env, env.inner \in Keys \cup {None},
           NEW n \in Nat, \A i \in 1..n : Known(q[i]) /\ q[i].op \in InScripts
    PROVE  Changes(t.s, (CHOOSE g : RanFn(g, t, c, q, env, n))[n].s)
  <1> DEFINE f == CHOOSE g : RanFn(g, t, c, q, env, n)
             P(i) == i <= n => Changes(t.s, f[i].s)
             U == {i \in Nat : P(i)}
  <1>1. f[0] = t /\ \A i \in 1..n : f[i] = luaRedisGenericCommand(f[i - 1], c, q[i], env)
    BY RanUnfold
  <1> HIDE DEF f
  <1>2. P(0)
    <2> DEFINE s == t.s
    <2>1. Keyed(s) /\ f[0].s = s BY <1>1
    <2> HIDE DEF s
    <2>2. Changes(s, s) BY <2>1, BooksQuiet, QuietChanges, Zenon DEF Keyed
    <2> QED BY <2>1, <2>2 DEF s
  <1>3. ASSUME NEW i \in Nat, P(i) PROVE P(i + 1)
    <2> DEFINE k == i + 1
    <2>1. k \in Nat /\ k = i + 1 /\ k - 1 = i OBVIOUS
    <2> HIDE DEF k
    <2> SUFFICES ASSUME k <= n PROVE Changes(t.s, f[k].s) BY DEF k
    <2>2. k \in 1..n /\ Changes(t.s, f[i].s) BY <1>3, <2>1
    <2>3. f[k] = luaRedisGenericCommand(f[i], c, q[k], env) BY <1>1, <2>1, <2>2
    <2>4. Keyed(f[i].s) BY <2>2 DEF Changes
    <2>5. f[k].s = f[i].s \/ Changes(f[i].s, f[k].s) BY <2>2, <2>3, <2>4, CallFromScript
    <2> QED BY <2>2, <2>5, ChangesTrans
  <1> HIDE DEF P
  <1>4. Nat \subseteq U
    <2>1. 0 \in U BY <1>2
    <2>2. \A i \in Nat : i \in U => i + 1 \in U BY <1>3
    <2> HIDE DEF U
    <2> QED BY <2>1, <2>2, NatSetInduction
  <1>5. P(n) BY <1>4
  <1> QED BY <1>5 DEF P, f

\* The commands of a script are known.
LEMMA BodyKnown ==
    ASSUME NEW sha \in DOMAIN Scripts, NEW q \in {Scripts[sha].then, Scripts[sha].else}
    PROVE  /\ q \in Seq(ToSet(q)) /\ Len(q) \in Nat
           /\ \A i \in 1..Len(q) : Known(q[i]) /\ q[i].op \in InScripts
  <1>1. IsBody(q) BY WorkloadAssumption
  <1>2. q \in Seq(ToSet(q)) /\ \A i \in 1..Len(q) : IsCommand(q[i]) /\ q[i].op \in InScripts
    BY <1>1 DEF IsBody
  <1>3. Len(q) \in Nat BY <1>2, LenProperties
  <1>4. ASSUME NEW i \in 1..Len(q), q[i].op = "sort" PROVE q[i].k2 \in Stored
    <2>1. q[i].k2 \in Keys BY <1>2, <1>4 DEF IsCommand
    <2> QED BY <1>4, <2>1 DEF Stored
  <1> QED BY <1>2, <1>3, <1>4 DEF Known

\* EVAL and EVALSHA
LEMMA EvalChanges ==
    ASSUME NEW s, Keyed(s), NEW c \in Clients, NEW cmd, IsCommand(cmd), cmd.op \in {"eval", "evalsha"},
           NEW env, env.inner \in Keys \cup {None}
    PROVE  Changes(s, evalGenericCommand(s, c, cmd, env))
  <1> DEFINE sha == cmd.x
             k == Scripts[sha].key
             ss == s.scripts \cup {sha}
             a == [s EXCEPT !.scripts = ss]
             looked == lookupKeyRead(a, k)
             body == IF Exists(looked, k) THEN Scripts[sha].then ELSE Scripts[sha].else
             n == Len(body)
             z == [s |-> looked, err |-> FALSE, write |-> FALSE]
             ran == (CHOOSE g : RanFn(g, z, c, body, env, n))[n].s
             e == AsEvalIfNeeded(ran, cmd)
  <1>1. sha \in DOMAIN Scripts /\ k \in Keys BY WorkloadAssumption DEF IsCommand
  <1>2. evalGenericCommand(s, c, cmd, env) = s \/ evalGenericCommand(s, c, cmd, env) = e
    BY Zenon DEF evalGenericCommand, RanFn
  <1> HIDE DEF ss, sha
  <1>3. Changes(s, a) BY BooksQuiet, QuietChanges, Zenon DEF Keyed
  <1> HIDE DEF a
  <1>4. Keyed(a) /\ Good(a) BY <1>3 DEF Changes, Keyed
  <1>5. Changes(a, looked) BY <1>1, <1>4, LookedChanges, LookupFacts
  <1> HIDE DEF looked
  <1>6. Keyed(looked) BY <1>5 DEF Changes
  <1>7. n \in Nat /\ \A i \in 1..n : Known(body[i]) /\ body[i].op \in InScripts
    <2>1. body \in {Scripts[sha].then, Scripts[sha].else} OBVIOUS
    <2> HIDE DEF body
    <2> QED BY <1>1, <2>1, BodyKnown
  <1> HIDE DEF body, n
  <1>8. z.s = looked OBVIOUS
  <1> HIDE DEF z
  <1>9. Keyed(z.s) BY <1>6, <1>8
  <1>10. Changes(looked, ran) BY <1>7, <1>8, <1>9, RanChanges
  <1> HIDE DEF ran
  <1>11. Keyed(ran) /\ Good(ran) BY <1>10 DEF Changes, Keyed
  <1>12. Changes(ran, e)
    <2>1. CASE e = ran BY <1>11, <2>1, BooksQuiet, QuietChanges, Zenon
    <2>2. CASE e = PropagateAsEval(ran, cmd.x)
      <3> DEFINE x == <<cmd.x>> \o (IF Len(ran.cache) = CacheSize THEN Front(ran.cache) ELSE ran.cache)
                 y == Command("eval", None, None, cmd.x)
      <3>1. e = [ran EXCEPT !.cache = x, !.argv = y, !.force = TRUE] BY <2>2 DEF PropagateAsEval
      <3> HIDE DEF x, y, e
      <3>2. IsServer(ran) BY <1>11 DEF Good
      <3>3. /\ DOMAIN e = DOMAIN ran /\ e.slave = ran.slave /\ e.cl = ran.cl /\ e.watching = ran.watching
            /\ e.blocking = ran.blocking /\ e.channels = ran.channels /\ e.patterns = ran.patterns
            /\ e.gone = ran.gone /\ e.val = ran.val /\ e.ttl = ran.ttl /\ e.ready = ran.ready
        BY <3>1, <3>2 DEF IsServer
      <3>4. Quiet(ran, e) BY <1>11, <3>3, QuietStep
      <3> QED BY <1>11, <3>4, QuietChanges
    <2> QED BY <2>1, <2>2 DEF AsEvalIfNeeded
  <1> HIDE DEF e
  <1>13. Changes(s, looked) BY <1>3, <1>5, ChangesTrans
  <1>15. Changes(s, ran) BY <1>10, <1>13, ChangesTrans
  <1>16. Changes(s, e) BY <1>12, <1>15, ChangesTrans
  <1>17. Changes(s, s) BY BooksQuiet, QuietChanges, Zenon DEF Keyed
  <1> QED BY <1>2, <1>16, <1>17

(***************************************************************************)
(* The invariant of a server while a command is executed.                  *)
(***************************************************************************)

\* The lists of clients and what the clients keep agree.
WatchersOK(s) ==
    \A k \in Keys : /\ s.watching[k] \in Seq(Clients)
                    /\ \A c \in Clients : Listed(s.watching[k], c, k \in s.cl[c].watched)
WaitersOK(s) ==
    \A k \in Keys : /\ s.blocking[k] \in Seq(Clients)
                    /\ \A c \in Clients : Listed(s.blocking[k], c, k \in s.cl[c].keys)
ChannelsOK(s) ==
    \A ch \in Channels : /\ s.channels[ch] \in Seq(Clients)
                         /\ \A c \in Clients : Listed(s.channels[ch], c, ch \in s.cl[c].channels)
PatternsOK(s) ==
    /\ s.patterns \in Seq(Patterns \X Clients)
    /\ \A c \in Clients, p \in Patterns : Listed(s.patterns, <<p, c>>, p \in s.cl[c].patterns)

\* The sets and the flags of a client.
SetsOK(r) ==
    /\ r.watched \subseteq Keys /\ r.keys \subseteq Keys /\ r.target \in Keys \cup {None}
    /\ r.channels \subseteq Channels /\ IsFiniteSet(r.channels)
    /\ r.patterns \subseteq Patterns /\ IsFiniteSet(r.patterns)
    /\ r.multi \in BOOLEAN /\ r.cas \in BOOLEAN /\ r.exec \in BOOLEAN /\ r.head \in BOOLEAN
    /\ r.blocked \in BOOLEAN /\ r.pubsub \in BOOLEAN /\ r.stale \in BOOLEAN
QueueOK(r) ==
    /\ r.queue \in Seq(ToSet(r.queue))
    /\ \A i \in 1..Len(r.queue) : Known(r.queue[i]) /\ r.queue[i].op \notin NotQueued \cup {"bad"}
FlagsOK(r) ==
    /\ r.blocked = (r.keys # {}) /\ (r.target # None => r.blocked) /\ ~ (r.blocked /\ r.multi)
    /\ r.pubsub = (r.channels # {} \/ r.patterns # {})
    /\ (r.cas => r.watched # {}) /\ (r.exec \/ r.queue # <<>> => r.multi)
    /\ r.stale => r.cas
ClientOK(r) == SetsOK(r) /\ QueueOK(r) /\ FlagsOK(r)

Sound(s) ==
    /\ Keyed(s) /\ WatchersOK(s) /\ WaitersOK(s) /\ ChannelsOK(s) /\ PatternsOK(s)
    /\ \A c \in Clients : ClientOK(s.cl[c])

\* Whoever watches a key that has another value than at first has been told.
Told(s0, s) ==
    \A c \in Clients : \A k \in s0.cl[c].watched \cap s.cl[c].watched :
        s.val[k] # s0.val[k] => k \in s.gone \/ s.cl[c].cas = TRUE

\* The watchers of the keys that are ready have been told: the lists change again
\* when they are served, and then nobody is told.
ReadyTold(s) == \A k \in Keys : Contains(s.ready, k) => Touched(s, k)

\* A list that somebody waits for is ready.
WaitedReady(s) ==
    \A k \in Keys : IsList(s, k) /\ s.blocking[k] # <<>> /\ k \notin Stored => Contains(s.ready, k)

\* s is the server while a command is executed, that was s0 before it.
Mid(s0, s) == Sound(s) /\ Told(s0, s) /\ ReadyTold(s) /\ WaitedReady(s)

AllOK(s) ==
    /\ WatchersOK(s) /\ WaitersOK(s) /\ ChannelsOK(s) /\ PatternsOK(s)
    /\ \A c \in Clients : ClientOK(s.cl[c])

\* A step on keys leaves the lists and the clients alone.
LEMMA EditOK ==
    ASSUME NEW s, NEW t, AllOK(s), Edit(s, t)
    PROVE  AllOK(t)
  <1>1. /\ t.watching = s.watching /\ t.blocking = s.blocking
        /\ t.channels = s.channels /\ t.patterns = s.patterns
        /\ \A c \in Clients : SameClient(s.cl[c], t.cl[c])
    BY DEF Edit
  <1>2. WatchersOK(t) BY <1>1 DEF AllOK, WatchersOK, SameClient
  <1>3. WaitersOK(t) BY <1>1 DEF AllOK, WaitersOK, SameClient
  <1>4. ChannelsOK(t) BY <1>1 DEF AllOK, ChannelsOK, SameClient
  <1>5. PatternsOK(t) BY <1>1 DEF AllOK, PatternsOK, SameClient
  <1>6. ASSUME NEW c \in Clients PROVE ClientOK(t.cl[c])
    <2>1. ClientOK(s.cl[c]) /\ SameClient(s.cl[c], t.cl[c]) BY <1>1 DEF AllOK
    <2> DEFINE r == s.cl[c]
               q == t.cl[c]
    <2>2. ClientOK(r) /\ SameClient(r, q) BY <2>1
    <2> HIDE DEF r, q
    <2>3. SetsOK(q) BY <2>2 DEF ClientOK, SameClient, SetsOK
    <2>4. QueueOK(q) BY <2>2 DEF ClientOK, SameClient, QueueOK
    <2>5. FlagsOK(q) BY <2>2 DEF ClientOK, SameClient, FlagsOK
    <2> QED BY <2>3, <2>4, <2>5 DEF ClientOK, q
  <1> QED BY <1>2, <1>3, <1>4, <1>5, <1>6 DEF AllOK

\* The commands on keys, and whom they tell.
LEMMA ChangesTold ==
    ASSUME NEW s0, NEW s, NEW t, Sound(s), Told(s0, s), ReadyTold(s), Changes(s, t)
    PROVE  Sound(t) /\ Told(s0, t) /\ ReadyTold(t)
  <1>1. Sound(s) /\ Edit(s, t) /\ Keyed(t) BY DEF Changes
  <1>2. /\ t.watching = s.watching /\ t.blocking = s.blocking
        /\ t.channels = s.channels /\ t.patterns = s.patterns
        /\ s.gone \subseteq t.gone /\ \A c \in Clients : SameClient(s.cl[c], t.cl[c])
    BY <1>1 DEF Edit
  <1>7. AllOK(t)
    <2>1. AllOK(s) BY <1>1 DEF Sound, AllOK
    <2> QED BY <1>1, <2>1, EditOK
  <1>8. Sound(t) BY <1>1, <1>7 DEF Sound, AllOK
  <1>9. Told(s0, t)
    <2> SUFFICES ASSUME NEW c \in Clients, NEW k \in s0.cl[c].watched \cap t.cl[c].watched,
                        t.val[k] # s0.val[k]
                 PROVE  k \in t.gone \/ t.cl[c].cas = TRUE
      BY DEF Told
    <2>1. t.cl[c].watched = s.cl[c].watched /\ (s.cl[c].cas = TRUE => t.cl[c].cas = TRUE)
      BY <1>2 DEF SameClient
    <2>2. k \in Keys BY <1>7 DEF AllOK, ClientOK, SetsOK
    <2>3. CASE t.val[k] = s.val[k]
      <3>1. k \in s.gone \/ s.cl[c].cas = TRUE BY <2>1, <2>3 DEF Told
      <3> QED BY <1>2, <2>1, <3>1
    <2>4. CASE t.val[k] # s.val[k]
      <3>1. k \in t.gone \/ Touched(t, k) BY <2>2, <2>4 DEF Changes
      <3> QED BY <3>1 DEF Touched
    <2> QED BY <2>3, <2>4
  <1>10. ReadyTold(t)
    <2> SUFFICES ASSUME NEW k \in Keys, Contains(t.ready, k) PROVE Touched(t, k) BY DEF ReadyTold
    <2>1. Contains(s.ready, k) \/ Touched(t, k) BY DEF Changes
    <2>2. Contains(s.ready, k) => Touched(s, k) BY DEF ReadyTold
    <2> QED BY <1>1, <2>1, <2>2, TouchedStays
  <1> QED BY <1>8, <1>9, <1>10

\* The commands on keys.
LEMMA ChangesMid ==
    ASSUME NEW s0, NEW s, NEW t, Mid(s0, s), Changes(s, t)
    PROVE  Mid(s0, t)
  <1>1. Sound(t) /\ Told(s0, t) /\ ReadyTold(t) BY ChangesTold DEF Mid
  <1>2. t.blocking = s.blocking BY DEF Changes, Edit
  <1>3. WaitedReady(t) BY <1>2 DEF Mid, WaitedReady, Changes, NewList
  <1> QED BY <1>1, <1>3 DEF Mid

\* The list of the watchers has the clients that watch.
LEMMA WatchersList ==
    ASSUME NEW s, WatchersOK(s)
    PROVE  WatchOK(s)
  <1> SUFFICES ASSUME NEW k \in Keys, NEW c \in Clients
               PROVE  Contains(s.watching[k], c) <=> k \in s.cl[c].watched
    BY DEF WatchOK
  <1>1. Listed(s.watching[k], c, k \in s.cl[c].watched) BY DEF WatchersOK
  <1> QED BY <1>1 DEF Listed, Contains

\* A step of client c that is not on keys.
Own(s, t, c) ==
    /\ IsServer(t) /\ t.slave = s.slave /\ t.val = s.val /\ t.ttl = s.ttl /\ t.ready = s.ready
    /\ t.gone = s.gone /\ \A d \in Clients : d # c => t.cl[d] = s.cl[d]

\* Such a step, that does not watch another key.
LEMMA OwnMid ==
    ASSUME NEW s0, NEW s, NEW t, NEW c \in Clients, Mid(s0, s), Own(s, t, c),
           WatchersOK(t), WaitersOK(t), ChannelsOK(t), PatternsOK(t), ClientOK(t.cl[c]),
           \/ t.cl[c].watched = {}
           \/ t.cl[c].watched = s.cl[c].watched /\ t.cl[c].cas = s.cl[c].cas,
           \A k \in Keys : IsList(s, k) /\ s.blocking[k] = <<>> => t.blocking[k] = <<>>
    PROVE  Mid(s0, t)
  <1>1. Sound(s) /\ Keyed(s) /\ Good(s) BY DEF Mid, Sound, Keyed
  <1>2. Good(t) BY <1>1, WatchersList DEF Good, Own
  <1>3. ReadySeq(t) /\ \A k \in Keys : KeyOK(t, k)
    BY <1>1 DEF Keyed, ReadySeq, KeyOK, Exists, Own
  <1>4. \A d \in Clients : ClientOK(t.cl[d]) BY <1>1 DEF Sound, Own
  <1>5. Sound(t) BY <1>2, <1>3, <1>4 DEF Sound, Keyed
  <1>6. \A d \in Clients : \/ t.cl[d].watched = {}
                           \/ t.cl[d].watched = s.cl[d].watched /\ t.cl[d].cas = s.cl[d].cas
    BY DEF Own
  <1>7. Told(s0, t) BY <1>6 DEF Mid, Told, Own
  <1>8. \A k \in Keys : Touched(s, k) => Touched(t, k) BY <1>6 DEF Touched
  <1>9. ReadyTold(t) BY <1>8 DEF Mid, ReadyTold, Own
  <1>10. WaitedReady(t) BY DEF Mid, WaitedReady, Own, IsList
  <1> QED BY <1>5, <1>7, <1>9, <1>10 DEF Mid

(***************************************************************************)
(* What a client does to itself.                                           *)
(***************************************************************************)

SameLists(s, t) ==
    /\ t.watching = s.watching /\ t.blocking = s.blocking
    /\ t.channels = s.channels /\ t.patterns = s.patterns

\* What a client is in the lists for.
SamePlaces(r, q) ==
    q.watched = r.watched /\ q.keys = r.keys /\ q.channels = r.channels /\ q.patterns = r.patterns

\* A client that only sets flags of its own, or its queue.
LEMMA SameListsOK ==
    ASSUME NEW s, NEW t, NEW c \in Clients, Own(s, t, c), Sound(s)
    PROVE  /\ t.watching = s.watching /\ t.cl[c].watched = s.cl[c].watched => WatchersOK(t)
           /\ t.blocking = s.blocking /\ t.cl[c].keys = s.cl[c].keys => WaitersOK(t)
           /\ t.channels = s.channels /\ t.cl[c].channels = s.cl[c].channels => ChannelsOK(t)
           /\ t.patterns = s.patterns /\ t.cl[c].patterns = s.cl[c].patterns => PatternsOK(t)
  <1>1. ASSUME t.watching = s.watching, t.cl[c].watched = s.cl[c].watched PROVE WatchersOK(t)
    <2>1. \A d \in Clients : t.cl[d].watched = s.cl[d].watched BY <1>1 DEF Own
    <2> QED BY <1>1, <2>1 DEF Sound, WatchersOK
  <1>2. ASSUME t.blocking = s.blocking, t.cl[c].keys = s.cl[c].keys PROVE WaitersOK(t)
    <2>1. \A d \in Clients : t.cl[d].keys = s.cl[d].keys BY <1>2 DEF Own
    <2> QED BY <1>2, <2>1 DEF Sound, WaitersOK
  <1>3. ASSUME t.channels = s.channels, t.cl[c].channels = s.cl[c].channels PROVE ChannelsOK(t)
    <2>1. \A d \in Clients : t.cl[d].channels = s.cl[d].channels BY <1>3 DEF Own
    <2> QED BY <1>3, <2>1 DEF Sound, ChannelsOK
  <1>4. ASSUME t.patterns = s.patterns, t.cl[c].patterns = s.cl[c].patterns PROVE PatternsOK(t)
    <2>1. \A d \in Clients : t.cl[d].patterns = s.cl[d].patterns BY <1>4 DEF Own
    <2> QED BY <1>4, <2>1 DEF Sound, PatternsOK
  <1> QED BY <1>1, <1>2, <1>3, <1>4

\* A client that only sets flags of its own, or its queue.
LEMMA FlagsMid ==
    ASSUME NEW s0, NEW s, NEW t, NEW c \in Clients, Mid(s0, s), Own(s, t, c), SameLists(s, t),
           SamePlaces(s.cl[c], t.cl[c]), t.cl[c].cas = s.cl[c].cas, ClientOK(t.cl[c])
    PROVE  Mid(s0, t)
  <1>1. Sound(s) BY DEF Mid
  <1>2. WatchersOK(t) /\ WaitersOK(t) /\ ChannelsOK(t) /\ PatternsOK(t)
    BY <1>1, SameListsOK DEF SameLists, SamePlaces
  <1>3. t.cl[c].watched = s.cl[c].watched /\ t.blocking = s.blocking BY DEF SameLists, SamePlaces
  <1> QED BY <1>2, <1>3, OwnMid

\* MULTI
LEMMA MultiMid ==
    ASSUME NEW s0, NEW s, NEW c \in Clients, Mid(s0, s), ~ s.cl[c].blocked
    PROVE  Mid(s0, multiCommand(s, c))
  <1> DEFINE t == multiCommand(s, c)
             r == s.cl[c]
             q == t.cl[c]
  <1>1. IsServer(s) /\ IsClient(r) /\ ClientOK(r) BY DEF Mid, Sound, Keyed, Good, IsServer
  <1>2. t = [s EXCEPT !.cl[c].multi = TRUE] BY DEF multiCommand
  <1>3. /\ DOMAIN t = DOMAIN s /\ t.slave = s.slave /\ t.val = s.val /\ t.ttl = s.ttl
        /\ t.ready = s.ready /\ t.gone = s.gone /\ SameLists(s, t)
        /\ t.cl = [s.cl EXCEPT ![c] = [r EXCEPT !.multi = TRUE]]
    BY <1>1, <1>2 DEF IsServer, SameLists
  <1> HIDE DEF t
  <1>4. q = [r EXCEPT !.multi = TRUE] /\ IsClient(q) BY <1>1, <1>3 DEF IsServer, IsClient
  <1>5. IsServer(t) /\ Own(s, t, c) BY <1>1, <1>3, <1>4 DEF IsServer, Own, SameLists
  <1> HIDE DEF q, r
  <1>6. /\ SamePlaces(r, q) /\ q.cas = r.cas /\ q.multi = TRUE /\ q.exec = r.exec /\ q.head = r.head
        /\ q.queue = r.queue /\ q.target = r.target /\ q.blocked = r.blocked /\ q.pubsub = r.pubsub
        /\ q.stale = r.stale
    BY <1>1, <1>4 DEF IsClient, SamePlaces
  <1>7. r.blocked = FALSE BY <1>1 DEF r, ClientOK, SetsOK
  <1>8. ClientOK(q)
    BY <1>1, <1>6, <1>7 DEF ClientOK, SetsOK, QueueOK, FlagsOK, SamePlaces
  <1> QED BY <1>3, <1>5, <1>6, <1>8, FlagsMid DEF q, r, t

\* flagTransaction
LEMMA FlagTransactionMid ==
    ASSUME NEW s0, NEW s, NEW c \in Clients, Mid(s0, s)
    PROVE  Mid(s0, flagTransaction(s, c))
  <1>1. CASE ~ s.cl[c].multi BY <1>1 DEF flagTransaction
  <1>2. CASE s.cl[c].multi
    <2> DEFINE t == flagTransaction(s, c)
               r == s.cl[c]
               q == t.cl[c]
    <2>1. IsServer(s) /\ IsClient(r) /\ ClientOK(r) BY DEF Mid, Sound, Keyed, Good, IsServer
    <2>2. t = [s EXCEPT !.cl[c].exec = TRUE] BY <1>2 DEF flagTransaction
    <2>3. /\ DOMAIN t = DOMAIN s /\ t.slave = s.slave /\ t.val = s.val /\ t.ttl = s.ttl
          /\ t.ready = s.ready /\ t.gone = s.gone /\ SameLists(s, t)
          /\ t.cl = [s.cl EXCEPT ![c] = [r EXCEPT !.exec = TRUE]]
      BY <2>1, <2>2 DEF IsServer, SameLists
    <2> HIDE DEF t
    <2>4. q = [r EXCEPT !.exec = TRUE] /\ IsClient(q) BY <2>1, <2>3 DEF IsServer, IsClient
    <2>5. IsServer(t) /\ Own(s, t, c) BY <2>1, <2>3, <2>4 DEF IsServer, Own, SameLists
    <2>6. r.multi = TRUE BY <1>2, <2>1 DEF ClientOK, SetsOK
    <2> HIDE DEF q, r
    <2>7. /\ SamePlaces(r, q) /\ q.cas = r.cas /\ q.multi = TRUE /\ q.exec = TRUE /\ q.head = r.head
          /\ q.queue = r.queue /\ q.target = r.target /\ q.blocked = r.blocked
          /\ q.pubsub = r.pubsub /\ q.stale = r.stale
      BY <2>1, <2>4, <2>6 DEF IsClient, SamePlaces
    <2>8. ClientOK(q)
      BY <2>1, <2>6, <2>7 DEF ClientOK, SetsOK, QueueOK, FlagsOK, SamePlaces
    <2> QED BY <2>3, <2>5, <2>7, <2>8, FlagsMid DEF q, r, t
  <1> QED BY <1>1, <1>2

\* queueMultiCommand
LEMMA QueueMid ==
    ASSUME NEW s0, NEW s, NEW c \in Clients, Mid(s0, s), s.cl[c].multi, NEW cmd, Known(cmd),
           cmd.op \notin NotQueued \cup {"bad"}
    PROVE  Mid(s0, queueMultiCommand(s, c, cmd))
  <1> DEFINE t == queueMultiCommand(s, c, cmd)
             r == s.cl[c]
             q == t.cl[c]
             x == Append(s.cl[c].queue, cmd)
  <1>1. IsServer(s) /\ IsClient(r) /\ ClientOK(r) BY DEF Mid, Sound, Keyed, Good, IsServer
  <1>2. t = [s EXCEPT !.cl[c].queue = x] BY DEF queueMultiCommand
  <1>3. x \in Seq(ToSet(x)) /\ \A i \in 1..Len(x) : Known(x[i]) /\ x[i].op \notin NotQueued \cup {"bad"}
    <2> DEFINE p == s.cl[c].queue
               S == ToSet(p) \cup {cmd}
    <2>1. /\ p \in Seq(ToSet(p))
          /\ \A i \in 1..Len(p) : Known(p[i]) /\ p[i].op \notin NotQueued \cup {"bad"}
      BY <1>1 DEF ClientOK, QueueOK
    <2>2. p \in Seq(S) /\ cmd \in S BY <2>1, SeqMonotonic
    <2> HIDE DEF p, S
    <2>3. /\ Append(p, cmd) \in Seq(S) /\ Len(Append(p, cmd)) = Len(p) + 1 /\ Len(p) \in Nat
          /\ Append(p, cmd)[Len(p) + 1] = cmd /\ \A i \in 1..Len(p) : Append(p, cmd)[i] = p[i]
      BY <2>2, AppendProperties, LenProperties
    <2>4. Append(p, cmd) \in Seq(ToSet(Append(p, cmd))) BY <2>3, SeqToSet
    <2>5. ASSUME NEW i \in 1..(Len(p) + 1)
          PROVE  Known(Append(p, cmd)[i]) /\ Append(p, cmd)[i].op \notin NotQueued \cup {"bad"}
      <3>1. CASE i \in 1..Len(p) BY <2>1, <2>3, <3>1
      <3>2. CASE i = Len(p) + 1 BY <2>3, <3>2
      <3> QED BY <2>3, <3>1, <3>2
    <2> QED BY <2>3, <2>4, <2>5 DEF p
  <1> HIDE DEF x
  <1>4. /\ DOMAIN t = DOMAIN s /\ t.slave = s.slave /\ t.val = s.val /\ t.ttl = s.ttl
        /\ t.ready = s.ready /\ t.gone = s.gone /\ SameLists(s, t)
        /\ t.cl = [s.cl EXCEPT ![c] = [r EXCEPT !.queue = x]]
    BY <1>1, <1>2 DEF IsServer, SameLists
  <1> HIDE DEF t
  <1>5. q = [r EXCEPT !.queue = x] /\ IsClient(q) BY <1>1, <1>4 DEF IsServer, IsClient
  <1>6. IsServer(t) /\ Own(s, t, c) BY <1>1, <1>4, <1>5 DEF IsServer, Own, SameLists
  <1>7. r.multi = TRUE BY <1>1 DEF ClientOK, SetsOK
  <1> HIDE DEF q, r
  <1>8. /\ SamePlaces(r, q) /\ q.cas = r.cas /\ q.multi = TRUE /\ q.exec = r.exec /\ q.head = r.head
        /\ q.queue = x /\ q.target = r.target /\ q.blocked = r.blocked /\ q.pubsub = r.pubsub
        /\ q.stale = r.stale
    BY <1>1, <1>5, <1>7 DEF IsClient, SamePlaces
  <1>9. SetsOK(q) /\ FlagsOK(q) BY <1>1, <1>7, <1>8 DEF ClientOK, SetsOK, FlagsOK, SamePlaces
  <1>10. QueueOK(q) BY <1>3, <1>8 DEF QueueOK
  <1> QED BY <1>4, <1>6, <1>8, <1>9, <1>10, FlagsMid DEF q, r, t, ClientOK

\* Lists of clients for keys or channels, and the keys m[d] of each client.
ListsOK(w, K, m) ==
    \A k \in K : w[k] \in Seq(Clients) /\ \A d \in Clients : Listed(w[k], d, k \in m[d])

\* A client leaves the lists of D.
LEMMA ListsDrop ==
    ASSUME NEW w, NEW K, NEW m, ListsOK(w, K, m), NEW c \in Clients, NEW D, NEW x, NEW n,
           \A k \in K : x[k] = IF k \in D THEN RemoveFirst(w[k], c) ELSE w[k],
           \A k \in K : k \in D => k \in m[c], \A k \in K : k \in n[c] <=> k \in m[c] /\ k \notin D,
           \A d \in Clients : d # c => n[d] = m[d]
    PROVE  ListsOK(x, K, n)
  <1> SUFFICES ASSUME NEW k \in K
               PROVE  x[k] \in Seq(Clients) /\ \A d \in Clients : Listed(x[k], d, k \in n[d])
    BY DEF ListsOK
  <1> DEFINE q == w[k]
             r == x[k]
  <1>1. q \in Seq(Clients) /\ \A d \in Clients : Listed(q, d, k \in m[d]) BY DEF ListsOK
  <1>2. CASE k \notin D
    <2>1. r = q BY <1>2
    <2>2. \A d \in Clients : k \in n[d] <=> k \in m[d] BY <1>2
    <2> HIDE DEF q, r
    <2>3. \A d \in Clients : Listed(r, d, k \in n[d])
      <3> SUFFICES ASSUME NEW d \in Clients PROVE Listed(r, d, k \in n[d]) OBVIOUS
      <3>1. Listed(q, d, k \in m[d]) BY <1>1
      <3> QED BY <2>1, <2>2, <3>1 DEF Listed
    <2> QED BY <1>1, <2>1, <2>3 DEF r
  <1>3. CASE k \in D
    <2>1. r = RemoveFirst(q, c) /\ k \in m[c] /\ k \notin n[c] BY <1>3
    <2>2. \A d \in Clients : d # c => (k \in n[d] <=> k \in m[d]) OBVIOUS
    <2> HIDE DEF q, r
    <2>3. Listed(q, c, TRUE) BY <1>1, <2>1 DEF Listed
    <2>4. /\ r \in Seq(Clients) /\ Listed(r, c, FALSE)
          /\ \A y : \A b \in BOOLEAN : y # c /\ Listed(q, y, b) => Listed(r, y, b)
      BY <1>1, <2>1, <2>3, ListedRemove
    <2>5. ASSUME NEW d \in Clients PROVE Listed(r, d, k \in n[d])
      <3>1. CASE d = c BY <2>1, <2>4, <3>1 DEF Listed
      <3>2. CASE d # c /\ k \in m[d]
        <4>1. Listed(q, d, TRUE) BY <1>1, <3>2 DEF Listed
        <4>2. Listed(r, d, TRUE) BY <2>4, <3>2, <4>1
        <4> QED BY <2>2, <3>2, <4>2 DEF Listed
      <3>3. CASE d # c /\ k \notin m[d]
        <4>1. Listed(q, d, FALSE) BY <1>1, <3>3 DEF Listed
        <4>2. Listed(r, d, FALSE) BY <2>4, <3>3, <4>1
        <4> QED BY <2>2, <3>3, <4>2 DEF Listed
      <3> QED BY <3>1, <3>2, <3>3
    <2> QED BY <2>4, <2>5 DEF r
  <1> QED BY <1>2, <1>3

\* A client comes last in the lists of D.
LEMMA ListsJoin ==
    ASSUME NEW w, NEW K, NEW m, ListsOK(w, K, m), NEW c \in Clients, NEW D, NEW x, NEW n,
           \A k \in K : x[k] = IF k \in D THEN Append(w[k], c) ELSE w[k],
           \A k \in K : k \in D => k \notin m[c], \A k \in K : k \in n[c] <=> k \in m[c] \/ k \in D,
           \A d \in Clients : d # c => n[d] = m[d]
    PROVE  ListsOK(x, K, n)
  <1> SUFFICES ASSUME NEW k \in K
               PROVE  x[k] \in Seq(Clients) /\ \A d \in Clients : Listed(x[k], d, k \in n[d])
    BY DEF ListsOK
  <1> DEFINE q == w[k]
             r == x[k]
  <1>1. q \in Seq(Clients) /\ \A d \in Clients : Listed(q, d, k \in m[d]) BY DEF ListsOK
  <1>2. CASE k \notin D
    <2>1. r = q BY <1>2
    <2>2. \A d \in Clients : k \in n[d] <=> k \in m[d] BY <1>2
    <2> HIDE DEF q, r
    <2>3. \A d \in Clients : Listed(r, d, k \in n[d])
      <3> SUFFICES ASSUME NEW d \in Clients PROVE Listed(r, d, k \in n[d]) OBVIOUS
      <3>1. Listed(q, d, k \in m[d]) BY <1>1
      <3> QED BY <2>1, <2>2, <3>1 DEF Listed
    <2> QED BY <1>1, <2>1, <2>3 DEF r
  <1>3. CASE k \in D
    <2>1. r = Append(q, c) /\ k \notin m[c] /\ k \in n[c] BY <1>3
    <2>2. \A d \in Clients : d # c => (k \in n[d] <=> k \in m[d]) OBVIOUS
    <2> HIDE DEF q, r
    <2>3. Listed(q, c, FALSE) BY <1>1, <2>1 DEF Listed
    <2>4. /\ r \in Seq(Clients) /\ Listed(r, c, TRUE)
          /\ \A y : \A b \in BOOLEAN : y # c /\ Listed(q, y, b) => Listed(r, y, b)
      <3>1. q \in Seq(Clients) /\ c \in Clients BY <1>1
      <3>2. Append(q, c) \in Seq(Clients) /\ (Listed(q, c, FALSE) => Listed(Append(q, c), c, TRUE))
        BY <3>1, ListedAppend
      <3>3. ASSUME NEW y, NEW b \in BOOLEAN, y # c, Listed(q, y, b) PROVE Listed(Append(q, c), y, b)
        <4>1. TRUE \in BOOLEAN /\ FALSE \in BOOLEAN OBVIOUS
        <4>2. CASE b = TRUE
          <5>1. Listed(q, y, TRUE) BY <3>3, <4>2
          <5>2. Listed(Append(q, c), y, TRUE) BY <3>1, <3>3, <4>1, <5>1, ListedAppend
          <5> QED BY <4>2, <5>2
        <4>3. CASE b = FALSE
          <5>1. Listed(q, y, FALSE) BY <3>3, <4>3
          <5>2. Listed(Append(q, c), y, FALSE) BY <3>1, <3>3, <4>1, <5>1, ListedAppend
          <5> QED BY <4>3, <5>2
        <4> QED BY <4>2, <4>3
      <3> QED BY <2>1, <2>3, <3>2, <3>3
    <2>5. ASSUME NEW d \in Clients PROVE Listed(r, d, k \in n[d])
      <3>1. CASE d = c BY <2>1, <2>4, <3>1 DEF Listed
      <3>2. CASE d # c /\ k \in m[d]
        <4>1. Listed(q, d, TRUE) BY <1>1, <3>2 DEF Listed
        <4>2. Listed(r, d, TRUE) BY <2>4, <3>2, <4>1
        <4> QED BY <2>2, <3>2, <4>2 DEF Listed
      <3>3. CASE d # c /\ k \notin m[d]
        <4>1. Listed(q, d, FALSE) BY <1>1, <3>3 DEF Listed
        <4>2. Listed(r, d, FALSE) BY <2>4, <3>3, <4>1
        <4> QED BY <2>2, <3>3, <4>2 DEF Listed
      <3> QED BY <3>1, <3>2, <3>3
    <2> QED BY <2>4, <2>5 DEF r
  <1> QED BY <1>2, <1>3

Joined(w, K, m, c, D, x, n) ==
    /\ ListsOK(w, K, m) /\ c \in Clients
    /\ \A k \in K : x[k] = IF k \in D THEN Append(w[k], c) ELSE w[k]
    /\ \A k \in K : k \in D => k \notin m[c]
    /\ \A k \in K : k \in n[c] <=> k \in m[c] \/ k \in D
    /\ \A d \in Clients : d # c => n[d] = m[d]

\* The same.
LEMMA ListsJoined ==
    ASSUME NEW w, NEW K, NEW m, NEW c, NEW D, NEW x, NEW n, Joined(w, K, m, c, D, x, n)
    PROVE  ListsOK(x, K, n)
  <1>1. /\ ListsOK(w, K, m) /\ c \in Clients
        /\ \A k \in K : x[k] = IF k \in D THEN Append(w[k], c) ELSE w[k]
        /\ \A k \in K : k \in D => k \notin m[c]
        /\ \A k \in K : k \in n[c] <=> k \in m[c] \/ k \in D
        /\ \A d \in Clients : d # c => n[d] = m[d]
    BY DEF Joined
  <1> QED BY <1>1, ListsJoin

\* The three kinds of lists.
LEMMA ListsAre ==
    ASSUME NEW s
    PROVE  /\ WatchersOK(s) <=> ListsOK(s.watching, Keys, [d \in Clients |-> s.cl[d].watched])
           /\ WaitersOK(s) <=> ListsOK(s.blocking, Keys, [d \in Clients |-> s.cl[d].keys])
           /\ ChannelsOK(s) <=> ListsOK(s.channels, Channels, [d \in Clients |-> s.cl[d].channels])
  BY DEF WatchersOK, WaitersOK, ChannelsOK, ListsOK, Listed

\* What unwatchAllKeys does.
Unwatched(s, t, c) ==
    LET r == s.cl[c]
        q == t.cl[c]
    IN  /\ Own(s, t, c) /\ WatchersOK(t) /\ t.blocking = s.blocking
        /\ t.channels = s.channels /\ t.patterns = s.patterns
        /\ IsClient(q) /\ q.watched = {} /\ q.stale = FALSE
        /\ q.multi = r.multi /\ q.cas = r.cas /\ q.exec = r.exec /\ q.queue = r.queue
        /\ q.keys = r.keys /\ q.target = r.target /\ q.head = r.head /\ q.blocked = r.blocked
        /\ q.channels = r.channels /\ q.patterns = r.patterns /\ q.pubsub = r.pubsub
        /\ q.got = r.got

\* unwatchAllKeys
LEMMA UnwatchFacts ==
    ASSUME NEW s, IsServer(s), WatchersOK(s), NEW c \in Clients, s.cl[c].watched \subseteq Keys
    PROVE  Unwatched(s, unwatchAllKeys(s, c), c)
  <1> DEFINE t == unwatchAllKeys(s, c)
             r == s.cl[c]
             q == t.cl[c]
             D == r.watched
  <1>1. IsClient(r) BY DEF IsServer
  <1>2. /\ DOMAIN t = DOMAIN s /\ t.slave = s.slave /\ t.val = s.val /\ t.ttl = s.ttl
        /\ t.ready = s.ready /\ t.gone = s.gone /\ t.blocking = s.blocking
        /\ t.channels = s.channels /\ t.patterns = s.patterns
        /\ t.watching = [k \in Keys |-> IF k \in D THEN RemoveFirst(s.watching[k], c)
                                        ELSE s.watching[k]]
        /\ t.cl = [s.cl EXCEPT ![c] = [[r EXCEPT !.watched = {}] EXCEPT !.stale = FALSE]]
    BY <1>1 DEF IsServer, unwatchAllKeys
  <1> HIDE DEF t
  <1>3. q = [[r EXCEPT !.watched = {}] EXCEPT !.stale = FALSE] /\ IsClient(q)
    BY <1>1, <1>2 DEF IsServer, IsClient
  <1>4. IsServer(t) /\ Own(s, t, c) BY <1>1, <1>2, <1>3 DEF IsServer, Own
  <1>5. /\ q.watched = {} /\ q.stale = FALSE
        /\ q.multi = r.multi /\ q.cas = r.cas /\ q.exec = r.exec /\ q.queue = r.queue
        /\ q.keys = r.keys /\ q.target = r.target /\ q.head = r.head /\ q.blocked = r.blocked
        /\ q.channels = r.channels /\ q.patterns = r.patterns /\ q.pubsub = r.pubsub
        /\ q.got = r.got
    <2> HIDE DEF q, r, D
    <2> QED BY <1>1, <1>3 DEF IsClient
  <1>6. WatchersOK(t)
    <2> DEFINE w == s.watching
               x == t.watching
               m == [d \in Clients |-> s.cl[d].watched]
               n == [d \in Clients |-> t.cl[d].watched]
    <2>1. ListsOK(w, Keys, m) BY ListsAre
    <2>2. \A k \in Keys : x[k] = IF k \in D THEN RemoveFirst(w[k], c) ELSE w[k] BY <1>2
    <2>3. m[c] = D /\ n[c] = {} BY <1>5
    <2>4. \A d \in Clients : d # c => n[d] = m[d] BY <1>4 DEF Own
    <2> HIDE DEF w, x, m, n, D
    <2>5. \A k \in Keys : k \in D => k \in m[c] BY <2>3
    <2>6. \A k \in Keys : k \in n[c] <=> k \in m[c] /\ k \notin D BY <2>3
    <2>7. ListsOK(x, Keys, n) BY <2>1, <2>2, <2>4, <2>5, <2>6, ListsDrop
    <2> QED BY <2>7, ListsAre DEF x, n
  <1> QED BY <1>2, <1>3, <1>4, <1>5, <1>6 DEF t, Unwatched

\* Two steps of a client make one.
LEMMA OwnTrans ==
    ASSUME NEW s, NEW t, NEW u, NEW c, Own(s, t, c), Own(t, u, c)
    PROVE  Own(s, u, c)
  BY DEF Own

\* A client that is in no list for a key.
LEMMA WatchersSame ==
    ASSUME NEW s, NEW t, NEW c \in Clients, Own(s, t, c), WatchersOK(s), t.watching = s.watching,
           t.cl[c].watched = s.cl[c].watched
    PROVE  WatchersOK(t)
  <1>1. \A d \in Clients : t.cl[d].watched = s.cl[d].watched BY DEF Own
  <1> QED BY <1>1 DEF WatchersOK

\* UNWATCH
LEMMA UnwatchMid ==
    ASSUME NEW s0, NEW s, NEW c \in Clients, Mid(s0, s)
    PROVE  LET t == unwatchCommand(s, c)
           IN  /\ Mid(s0, t) /\ t.cl[c].multi = s.cl[c].multi /\ t.cl[c].blocked = s.cl[c].blocked
               /\ t.ready = s.ready
  <1> DEFINE u == unwatchAllKeys(s, c)
             t == unwatchCommand(s, c)
             r == s.cl[c]
             p == u.cl[c]
             q == t.cl[c]
  <1>1. Sound(s) /\ IsServer(s) /\ ClientOK(r) BY DEF Mid, Sound, Keyed, Good
  <1>2. WatchersOK(s) /\ r.watched \subseteq Keys BY <1>1 DEF Sound, ClientOK, SetsOK
  <1>3. /\ Own(s, u, c) /\ WatchersOK(u) /\ u.blocking = s.blocking
        /\ u.channels = s.channels /\ u.patterns = s.patterns
        /\ IsClient(p) /\ p.watched = {} /\ p.stale = FALSE
        /\ p.multi = r.multi /\ p.exec = r.exec /\ p.queue = r.queue
        /\ p.keys = r.keys /\ p.target = r.target /\ p.head = r.head /\ p.blocked = r.blocked
        /\ p.channels = r.channels /\ p.patterns = r.patterns /\ p.pubsub = r.pubsub
    <2>1. Unwatched(s, u, c) BY <1>1, <1>2, UnwatchFacts
    <2> HIDE DEF u
    <2> QED BY <2>1 DEF Unwatched
  <1>4. t = [u EXCEPT !.cl[c].cas = FALSE] BY DEF unwatchCommand
  <1> HIDE DEF u, t
  <1>5. IsServer(u) BY <1>3 DEF Own
  <1>6. /\ DOMAIN t = DOMAIN u /\ t.slave = u.slave /\ t.val = u.val /\ t.ttl = u.ttl
        /\ t.ready = u.ready /\ t.gone = u.gone /\ SameLists(u, t)
        /\ t.cl = [u.cl EXCEPT ![c] = [p EXCEPT !.cas = FALSE]]
    BY <1>4, <1>5 DEF IsServer, SameLists
  <1>7. q = [p EXCEPT !.cas = FALSE] /\ IsClient(q) BY <1>3, <1>5, <1>6 DEF IsServer, IsClient
  <1>8. IsServer(t) /\ Own(u, t, c) BY <1>5, <1>6, <1>7 DEF IsServer, Own, SameLists
  <1>9. Own(s, t, c) BY <1>3, <1>8, OwnTrans
  <1> HIDE DEF q, p, r
  <1>10. /\ q.watched = {} /\ q.stale = FALSE /\ q.cas = FALSE
         /\ q.multi = r.multi /\ q.exec = r.exec /\ q.queue = r.queue
         /\ q.keys = r.keys /\ q.target = r.target /\ q.head = r.head /\ q.blocked = r.blocked
         /\ q.channels = r.channels /\ q.patterns = r.patterns /\ q.pubsub = r.pubsub
    BY <1>3, <1>7 DEF IsClient
  <1>11. ClientOK(q) BY <1>1, <1>10 DEF ClientOK, SetsOK, QueueOK, FlagsOK
  <1>12. WatchersOK(t) BY <1>3, <1>6, <1>8, <1>10, WatchersSame DEF SameLists, p, q
  <1>13. t.blocking = s.blocking /\ t.channels = s.channels /\ t.patterns = s.patterns
    BY <1>3, <1>6 DEF SameLists
  <1>14. WaitersOK(t) /\ ChannelsOK(t) /\ PatternsOK(t)
    BY <1>1, <1>9, <1>10, <1>13, SameListsOK DEF r, q
  <1>15. Mid(s0, t) BY <1>9, <1>10, <1>11, <1>12, <1>13, <1>14, OwnMid DEF q
  <1>16. t.ready = s.ready BY <1>9 DEF Own
  <1> QED BY <1>10, <1>15, <1>16 DEF q, r, t

\* discardTransaction
LEMMA DiscardMid ==
    ASSUME NEW s0, NEW s, NEW c \in Clients, Mid(s0, s)
    PROVE  Mid(s0, discardTransaction(s, c)) /\ discardTransaction(s, c).ready = s.ready
  <1> DEFINE a == [s EXCEPT !.cl[c].multi = FALSE, !.cl[c].cas = FALSE, !.cl[c].exec = FALSE,
                            !.cl[c].queue = <<>>]
             t == discardTransaction(s, c)
             r == s.cl[c]
             p == a.cl[c]
             q == t.cl[c]
  <1>1. Sound(s) /\ IsServer(s) /\ ClientOK(r) /\ IsClient(r)
    BY DEF Mid, Sound, Keyed, Good, IsServer
  <1>2. WatchersOK(s) /\ r.watched \subseteq Keys BY <1>1 DEF Sound, ClientOK, SetsOK
  <1>3. t = unwatchAllKeys(a, c) BY DEF discardTransaction
  <1> DEFINE p0 == [[[[r EXCEPT !.multi = FALSE] EXCEPT !.cas = FALSE] EXCEPT !.exec = FALSE]
                        EXCEPT !.queue = <<>>]
  <1>4. /\ DOMAIN a = DOMAIN s /\ a.slave = s.slave /\ a.val = s.val /\ a.ttl = s.ttl
        /\ a.ready = s.ready /\ a.gone = s.gone /\ SameLists(s, a)
        /\ a.cl = [s.cl EXCEPT ![c] = p0]
    BY <1>1 DEF IsServer, SameLists
  <1> HIDE DEF a, t
  <1>5. p = p0 /\ IsClient(p) BY <1>1, <1>4 DEF IsServer, IsClient
  <1>6. IsServer(a) /\ Own(s, a, c) BY <1>1, <1>4, <1>5 DEF IsServer, Own, SameLists
  <1>7. /\ p.multi = FALSE /\ p.cas = FALSE /\ p.exec = FALSE /\ p.queue = <<>>
        /\ p.watched = r.watched
        /\ p.keys = r.keys /\ p.target = r.target /\ p.head = r.head /\ p.blocked = r.blocked
        /\ p.channels = r.channels /\ p.patterns = r.patterns /\ p.pubsub = r.pubsub
    <2> HIDE DEF p, r
    <2> QED BY <1>1, <1>5 DEF IsClient
  <1>8. WatchersOK(a) /\ p.watched \subseteq Keys
    BY <1>2, <1>4, <1>6, <1>7, WatchersSame DEF SameLists
  <1>9. /\ Own(a, t, c) /\ WatchersOK(t) /\ t.blocking = a.blocking
        /\ t.channels = a.channels /\ t.patterns = a.patterns
        /\ IsClient(q) /\ q.watched = {} /\ q.stale = FALSE
        /\ q.multi = p.multi /\ q.cas = p.cas /\ q.exec = p.exec /\ q.queue = p.queue
        /\ q.keys = p.keys /\ q.target = p.target /\ q.head = p.head /\ q.blocked = p.blocked
        /\ q.channels = p.channels /\ q.patterns = p.patterns /\ q.pubsub = p.pubsub
    <2>1. Unwatched(a, t, c)
      <3> HIDE DEF p, r, q, p0
      <3> QED BY <1>3, <1>6, <1>8, UnwatchFacts, Zenon DEF p
    <2> QED BY <2>1 DEF Unwatched
  <1>10. Own(s, t, c) BY <1>6, <1>9, OwnTrans
  <1>11. t.blocking = s.blocking /\ t.channels = s.channels /\ t.patterns = s.patterns
    BY <1>4, <1>9 DEF SameLists
  <1> HIDE DEF q, p, r, p0
  <1>12. ClientOK(q)
    <2>1. <<>> \in Seq(ToSet(<<>>)) /\ Len(<<>>) = 0 OBVIOUS
    <2>2. QueueOK(q) BY <1>7, <1>9, <2>1 DEF QueueOK
    <2> QED BY <1>1, <1>7, <1>9, <2>2 DEF ClientOK, SetsOK, FlagsOK
  <1>13. WaitersOK(t) /\ ChannelsOK(t) /\ PatternsOK(t)
    BY <1>1, <1>7, <1>9, <1>10, <1>11, SameListsOK DEF r, q
  <1>14. Mid(s0, t) BY <1>9, <1>10, <1>11, <1>12, <1>13, OwnMid DEF q
  <1>15. t.ready = s.ready BY <1>10 DEF Own
  <1> QED BY <1>14, <1>15 DEF t

\* unwatchAllKeys at the start of EXEC.
LEMMA ExecUnwatchMid ==
    ASSUME NEW s0, NEW s, NEW c \in Clients, Mid(s0, s), s.cl[c].cas = FALSE
    PROVE  LET t == unwatchAllKeys(s, c)
           IN  Mid(s0, t) /\ t.ready = s.ready /\ t.cl[c].multi = s.cl[c].multi
  <1> DEFINE t == unwatchAllKeys(s, c)
             r == s.cl[c]
             q == t.cl[c]
  <1>1. Sound(s) /\ IsServer(s) /\ ClientOK(r) BY DEF Mid, Sound, Keyed, Good
  <1>2. WatchersOK(s) /\ r.watched \subseteq Keys BY <1>1 DEF Sound, ClientOK, SetsOK
  <1>3. /\ Own(s, t, c) /\ WatchersOK(t) /\ t.blocking = s.blocking
        /\ t.channels = s.channels /\ t.patterns = s.patterns
        /\ IsClient(q) /\ q.watched = {} /\ q.stale = FALSE
        /\ q.multi = r.multi /\ q.cas = r.cas /\ q.exec = r.exec /\ q.queue = r.queue
        /\ q.keys = r.keys /\ q.target = r.target /\ q.head = r.head /\ q.blocked = r.blocked
        /\ q.channels = r.channels /\ q.patterns = r.patterns /\ q.pubsub = r.pubsub
    <2>1. Unwatched(s, t, c) BY <1>1, <1>2, UnwatchFacts, Zenon
    <2> HIDE DEF t
    <2> QED BY <2>1 DEF Unwatched
  <1>4. r.cas = FALSE OBVIOUS
  <1> HIDE DEF t, q, r
  <1>5. ClientOK(q) BY <1>1, <1>3, <1>4 DEF ClientOK, SetsOK, QueueOK, FlagsOK
  <1>6. WaitersOK(t) /\ ChannelsOK(t) /\ PatternsOK(t) BY <1>1, <1>3, SameListsOK DEF r, q
  <1>7. Mid(s0, t) BY <1>3, <1>5, <1>6, OwnMid DEF q
  <1>8. t.ready = s.ready BY <1>3 DEF Own
  <1> QED BY <1>3, <1>7, <1>8 DEF q, r, t

(***************************************************************************)
(* Subscriptions.                                                          *)
(***************************************************************************)

\* What a client keeps of its transaction, and of what it waits for.
SameTx(r, q) ==
    /\ IsClient(q) /\ q.multi = r.multi /\ q.cas = r.cas /\ q.exec = r.exec /\ q.queue = r.queue
    /\ q.watched = r.watched /\ q.stale = r.stale
SameWait(r, q) ==
    q.keys = r.keys /\ q.target = r.target /\ q.head = r.head /\ q.blocked = r.blocked

\* The subscriptions of a client.
SubsOK(q) ==
    /\ q.channels \subseteq Channels /\ IsFiniteSet(q.channels)
    /\ q.patterns \subseteq Patterns /\ IsFiniteSet(q.patterns)
    /\ q.pubsub \in BOOLEAN /\ q.pubsub = (q.channels # {} \/ q.patterns # {})

\* A client subscribes or unsubscribes.
LEMMA SubMid ==
    ASSUME NEW s0, NEW s, NEW t, NEW c \in Clients, Mid(s0, s), Own(s, t, c),
           t.watching = s.watching, t.blocking = s.blocking, SameTx(s.cl[c], t.cl[c]),
           SameWait(s.cl[c], t.cl[c]), ChannelsOK(t), PatternsOK(t), SubsOK(t.cl[c])
    PROVE  Mid(s0, t) /\ t.cl[c].multi = s.cl[c].multi
  <1> DEFINE r == s.cl[c]
             q == t.cl[c]
  <1>1. Sound(s) /\ ClientOK(r) BY DEF Mid, Sound
  <1>2. WatchersOK(t) /\ WaitersOK(t) BY <1>1, SameListsOK DEF SameTx, SameWait
  <1>3. SameTx(r, q) /\ SameWait(r, q) /\ SubsOK(q) OBVIOUS
  <1>4. q.watched = r.watched /\ q.cas = r.cas /\ q.multi = r.multi BY <1>3 DEF SameTx
  <1>5. ClientOK(q)
    <2> HIDE DEF q, r
    <2>1. SetsOK(q) BY <1>1, <1>3 DEF ClientOK, SetsOK, SubsOK, SameTx, SameWait
    <2>2. QueueOK(q) BY <1>1, <1>3 DEF ClientOK, QueueOK, SameTx
    <2>3. FlagsOK(q) BY <1>1, <1>3 DEF ClientOK, FlagsOK, SubsOK, SameTx, SameWait
    <2> QED BY <2>1, <2>2, <2>3 DEF ClientOK
  <1>6. Mid(s0, t) BY <1>2, <1>4, <1>5, OwnMid
  <1> QED BY <1>4, <1>6

\* A client has one more element in one field, c the client and q what it becomes.
OwnStep(s, t, c, q) ==
    /\ DOMAIN t = DOMAIN s /\ t.slave = s.slave /\ t.val = s.val /\ t.ttl = s.ttl
    /\ t.ready = s.ready /\ t.gone = s.gone /\ t.cl = [s.cl EXCEPT ![c] = q] /\ IsClient(q)
    /\ DOMAIN t.watching = Keys /\ DOMAIN t.blocking = Keys /\ DOMAIN t.channels = Channels

\* Such a step is one of the client alone.
LEMMA OwnStepOwn ==
    ASSUME NEW s, IsServer(s), NEW t, NEW c \in Clients, NEW q, OwnStep(s, t, c, q)
    PROVE  Own(s, t, c) /\ t.cl[c] = q
  <1>1. t.cl[c] = q /\ \A d \in Clients : d # c => t.cl[d] = s.cl[d] BY DEF OwnStep, IsServer
  <1>2. \A d \in Clients : IsClient(t.cl[d]) BY <1>1 DEF OwnStep, IsServer
  <1>3. IsServer(t) BY <1>2 DEF OwnStep, IsServer
  <1> QED BY <1>1, <1>3 DEF OwnStep, Own

\* The second of two assignments to the same place.
LEMMA ExceptTwice ==
    ASSUME NEW f, NEW c, NEW x, NEW y
    PROVE  [[f EXCEPT ![c] = x] EXCEPT ![c] = y] = [f EXCEPT ![c] = y]
  OBVIOUS

\* SUBSCRIBE
LEMMA SubscribeMid ==
    ASSUME NEW s0, NEW s, NEW c \in Clients, Mid(s0, s), NEW ch \in Channels
    PROVE  Mid(s0, subscribeCommand(s, c, ch)) /\ subscribeCommand(s, c, ch).cl[c].multi = s.cl[c].multi
  <1> DEFINE t == subscribeCommand(s, c, ch)
             r == s.cl[c]
             new == r.channels \cup {ch}
             q == [[r EXCEPT !.channels = new] EXCEPT !.pubsub = TRUE]
  <1>1. Sound(s) /\ IsServer(s) /\ IsClient(r) /\ ClientOK(r)
    BY DEF Mid, Sound, Keyed, Good, IsServer
  <1>2. /\ q.channels = new /\ q.pubsub = TRUE /\ q.patterns = r.patterns /\ SameTx(r, q)
        /\ SameWait(r, q)
    BY <1>1 DEF IsClient, SameTx, SameWait
  <1>3. SubsOK(q)
    <2>1. IsFiniteSet(new) /\ new \subseteq Channels /\ new # {}
      BY <1>1, FS_AddElement DEF ClientOK, SetsOK
    <2> HIDE DEF q, r, new
    <2> QED BY <1>1, <1>2, <2>1 DEF SubsOK, ClientOK, SetsOK
  <1>4. CASE ch \in r.channels
    <2>1. new = r.channels BY <1>4
    <2>2. q = [r EXCEPT !.pubsub = TRUE]
      <3>1. q = [r EXCEPT !.channels = r.channels, !.pubsub = TRUE] BY <2>1
      <3> QED BY <1>1, <3>1 DEF IsClient
    <2>3. OwnStep(s, t, c, q) /\ SameLists(s, t)
      <3>1. t = [s EXCEPT !.cl[c].pubsub = TRUE] BY <1>4 DEF subscribeCommand
      <3>2. IsClient(q) BY <1>2 DEF SameTx
      <3> HIDE DEF q, t
      <3> QED BY <1>1, <2>2, <3>1, <3>2 DEF IsServer, OwnStep, SameLists
    <2> HIDE DEF q, t
    <2>4. Own(s, t, c) /\ t.cl[c] = q BY <1>1, <2>3, OwnStepOwn
    <2>5. ChannelsOK(t) /\ PatternsOK(t)
      BY <1>1, <1>2, <2>1, <2>3, <2>4, SameListsOK DEF SameLists
    <2> QED BY <1>2, <1>3, <2>3, <2>4, <2>5, SubMid DEF SameLists, t
  <1>5. CASE ch \notin r.channels
    <2>1. /\ OwnStep(s, t, c, q) /\ t.watching = s.watching /\ t.blocking = s.blocking
          /\ t.patterns = s.patterns /\ t.channels = [s.channels EXCEPT ![ch] = Append(s.channels[ch], c)]
      <3>1. t = [s EXCEPT !.cl[c].channels = new, !.channels[ch] = Append(s.channels[ch], c),
                          !.cl[c].pubsub = TRUE]
        BY <1>5 DEF subscribeCommand
      <3>2. IsClient(q) BY <1>2 DEF SameTx
      <3>3. t.cl = [s.cl EXCEPT ![c] = q]
        <4> DEFINE a == [s EXCEPT !.cl[c].channels = new]
                   b == [a EXCEPT !.channels[ch] = Append(s.channels[ch], c)]
        <4>1. t = [b EXCEPT !.cl[c].pubsub = TRUE] BY <3>1
        <4>2. DOMAIN a = DOMAIN s /\ a.cl = [s.cl EXCEPT ![c] = [r EXCEPT !.channels = new]]
          BY <1>1 DEF IsServer
        <4> HIDE DEF a, new
        <4>3. DOMAIN b = DOMAIN s /\ b.cl = a.cl BY <1>1, <4>2 DEF IsServer
        <4> HIDE DEF b
        <4>4. t.cl = [b.cl EXCEPT ![c] = [b.cl[c] EXCEPT !.pubsub = TRUE]]
          BY <1>1, <4>1, <4>3 DEF IsServer
        <4>5. b.cl[c] = [r EXCEPT !.channels = new] BY <1>1, <4>2, <4>3 DEF IsServer
        <4> DEFINE f == s.cl
                   y == [r EXCEPT !.channels = new]
        <4>6. t.cl = [[f EXCEPT ![c] = y] EXCEPT ![c] = q] BY <4>2, <4>3, <4>4, <4>5
        <4> HIDE DEF t, y, q, f
        <4>7. t.cl = [f EXCEPT ![c] = q] BY <4>6, ExceptTwice
        <4> QED BY <4>7 DEF f
      <3> HIDE DEF q, t, new
      <3> QED BY <1>1, <3>1, <3>2, <3>3 DEF IsServer, OwnStep
    <2> HIDE DEF q, t
    <2>2. Own(s, t, c) /\ t.cl[c] = q BY <1>1, <2>1, OwnStepOwn
    <2>3. PatternsOK(t) BY <1>1, <1>2, <2>1, <2>2, SameListsOK
    <2>4. ChannelsOK(t)
      <3> DEFINE w == s.channels
                 x == t.channels
                 m == [d \in Clients |-> s.cl[d].channels]
                 n == [d \in Clients |-> t.cl[d].channels]
                 D == {ch}
      <3>1. ListsOK(w, Channels, m) BY <1>1, ListsAre DEF Sound
      <3>2. \A k \in Channels : x[k] = IF k \in D THEN Append(w[k], c) ELSE w[k]
        BY <1>1, <2>1 DEF IsServer
      <3>3. \A k \in Channels : k \in D => k \notin m[c] BY <1>5
      <3>4. \A k \in Channels : k \in n[c] <=> k \in m[c] \/ k \in D BY <1>2, <2>2
      <3>5. \A d \in Clients : d # c => n[d] = m[d] BY <2>2 DEF Own
      <3> HIDE DEF w, x, m, n, D
      <3>6. ListsOK(x, Channels, n) BY <3>1, <3>2, <3>3, <3>4, <3>5, ListsJoin
      <3> QED BY <3>6, ListsAre DEF x, n
    <2> QED BY <1>2, <1>3, <2>1, <2>2, <2>3, <2>4, SubMid DEF t
  <1> QED BY <1>4, <1>5

\* PSUBSCRIBE
LEMMA PsubscribeMid ==
    ASSUME NEW s0, NEW s, NEW c \in Clients, Mid(s0, s), NEW p \in Patterns
    PROVE  Mid(s0, psubscribeCommand(s, c, p)) /\ psubscribeCommand(s, c, p).cl[c].multi = s.cl[c].multi
  <1> DEFINE t == psubscribeCommand(s, c, p)
             r == s.cl[c]
             new == r.patterns \cup {p}
             q == [[r EXCEPT !.patterns = new] EXCEPT !.pubsub = TRUE]
             z == Append(s.patterns, <<p, c>>)
  <1>1. Sound(s) /\ IsServer(s) /\ IsClient(r) /\ ClientOK(r)
    BY DEF Mid, Sound, Keyed, Good, IsServer
  <1>2. /\ q.patterns = new /\ q.pubsub = TRUE /\ q.channels = r.channels /\ SameTx(r, q)
        /\ SameWait(r, q)
    BY <1>1 DEF IsClient, SameTx, SameWait
  <1>3. SubsOK(q)
    <2>1. IsFiniteSet(new) /\ new \subseteq Patterns /\ new # {}
      BY <1>1, FS_AddElement DEF ClientOK, SetsOK
    <2> HIDE DEF q, r, new
    <2> QED BY <1>1, <1>2, <2>1 DEF SubsOK, ClientOK, SetsOK
  <1>4. CASE p \in r.patterns
    <2>1. new = r.patterns BY <1>4
    <2>2. q = [r EXCEPT !.pubsub = TRUE]
      <3>1. q = [r EXCEPT !.patterns = r.patterns, !.pubsub = TRUE] BY <2>1
      <3> QED BY <1>1, <3>1 DEF IsClient
    <2>3. OwnStep(s, t, c, q) /\ SameLists(s, t)
      <3>1. t = [s EXCEPT !.cl[c].pubsub = TRUE] BY <1>4 DEF psubscribeCommand
      <3>2. IsClient(q) BY <1>2 DEF SameTx
      <3> HIDE DEF q, t
      <3> QED BY <1>1, <2>2, <3>1, <3>2 DEF IsServer, OwnStep, SameLists
    <2> HIDE DEF q, t
    <2>4. Own(s, t, c) /\ t.cl[c] = q BY <1>1, <2>3, OwnStepOwn
    <2>5. ChannelsOK(t) /\ PatternsOK(t)
      BY <1>1, <1>2, <2>1, <2>3, <2>4, SameListsOK DEF SameLists
    <2> QED BY <1>2, <1>3, <2>3, <2>4, <2>5, SubMid DEF SameLists, t
  <1>5. CASE p \notin r.patterns
    <2>1. /\ OwnStep(s, t, c, q) /\ t.watching = s.watching /\ t.blocking = s.blocking
          /\ t.channels = s.channels /\ t.patterns = z
      <3>1. t = [s EXCEPT !.cl[c].patterns = new, !.patterns = z, !.cl[c].pubsub = TRUE]
        BY <1>5 DEF psubscribeCommand
      <3>2. IsClient(q) BY <1>2 DEF SameTx
      <3>3. t.cl = [s.cl EXCEPT ![c] = q]
        <4> DEFINE a == [s EXCEPT !.cl[c].patterns = new]
                   b == [a EXCEPT !.patterns = z]
        <4>1. t = [b EXCEPT !.cl[c].pubsub = TRUE] BY <3>1
        <4>2. DOMAIN a = DOMAIN s /\ a.cl = [s.cl EXCEPT ![c] = [r EXCEPT !.patterns = new]]
          BY <1>1 DEF IsServer
        <4> HIDE DEF a, new, z
        <4>3. DOMAIN b = DOMAIN s /\ b.cl = a.cl BY <1>1, <4>2 DEF IsServer
        <4> HIDE DEF b
        <4>4. t.cl = [b.cl EXCEPT ![c] = [b.cl[c] EXCEPT !.pubsub = TRUE]]
          BY <1>1, <4>1, <4>3 DEF IsServer
        <4>5. b.cl[c] = [r EXCEPT !.patterns = new] BY <1>1, <4>2, <4>3 DEF IsServer
        <4> DEFINE f == s.cl
                   y == [r EXCEPT !.patterns = new]
        <4>6. t.cl = [[f EXCEPT ![c] = y] EXCEPT ![c] = q] BY <4>2, <4>3, <4>4, <4>5
        <4> HIDE DEF t, y, q, f
        <4>7. t.cl = [f EXCEPT ![c] = q] BY <4>6, ExceptTwice
        <4> QED BY <4>7 DEF f
      <3> HIDE DEF q, t, new, z
      <3> QED BY <1>1, <3>1, <3>2, <3>3 DEF IsServer, OwnStep
    <2> HIDE DEF q, t
    <2>2. Own(s, t, c) /\ t.cl[c] = q BY <1>1, <2>1, OwnStepOwn
    <2>3. ChannelsOK(t) BY <1>1, <1>2, <2>1, <2>2, SameListsOK
    <2>4. PatternsOK(t)
      <3> DEFINE x == <<p, c>>
                 S == Patterns \X Clients
                 w == s.patterns
      <3>1. w \in Seq(S) /\ x \in S BY <1>1 DEF Sound, PatternsOK
      <3>2. Listed(w, x, FALSE)
        <4>1. Listed(w, x, p \in r.patterns) BY <1>1 DEF Sound, PatternsOK
        <4> QED BY <1>5, <4>1 DEF Listed
      <3>3. t.patterns = Append(w, x) BY <2>1
      <3>4. \A e \in Clients, o \in Patterns : Listed(w, <<o, e>>, o \in s.cl[e].patterns)
        BY <1>1, Zenon DEF Sound, PatternsOK
      <3>5. ASSUME NEW e \in Clients, NEW o \in Patterns
            PROVE  Listed(t.patterns, <<o, e>>, o \in t.cl[e].patterns)
        <4> DEFINE y == <<o, e>>
        <4>1. CASE y = x
          <5>1. o = p /\ e = c BY <4>1
          <5>2. o \in t.cl[e].patterns BY <1>2, <2>2, <5>1
          <5> HIDE DEF x, y, S, w
          <5>3. Listed(Append(w, x), x, TRUE) BY <3>1, <3>2, ListedAppend
          <5>4. Listed(t.patterns, y, TRUE) BY <3>3, <4>1, <5>3
          <5> QED BY <5>2, <5>4 DEF Listed, y
        <4>2. CASE y # x
          <5>1. o \in t.cl[e].patterns <=> o \in s.cl[e].patterns
            <6>1. CASE e # c BY <2>2, <6>1 DEF Own
            <6>2. CASE e = c /\ o # p BY <1>2, <2>2, <6>2
            <6> QED BY <4>2, <6>1, <6>2
          <5>2. Listed(w, y, o \in s.cl[e].patterns) BY <3>4
          <5> HIDE DEF x, y, S, w
          <5>3. CASE o \in s.cl[e].patterns
            <6>1. Listed(w, y, TRUE) /\ TRUE \in BOOLEAN BY <5>2, <5>3 DEF Listed
            <6>2. Listed(Append(w, x), y, TRUE) BY <3>1, <4>2, <6>1, ListedAppend
            <6>3. Listed(t.patterns, y, TRUE) BY <3>3, <6>2
            <6> QED BY <5>1, <5>3, <6>3 DEF Listed, y
          <5>4. CASE o \notin s.cl[e].patterns
            <6>1. Listed(w, y, FALSE) /\ FALSE \in BOOLEAN BY <5>2, <5>4 DEF Listed
            <6>2. Listed(Append(w, x), y, FALSE) BY <3>1, <4>2, <6>1, ListedAppend
            <6>3. Listed(t.patterns, y, FALSE) BY <3>3, <6>2
            <6> QED BY <5>1, <5>4, <6>3 DEF Listed, y
          <5> QED BY <5>3, <5>4
        <4> QED BY <4>1, <4>2
      <3>6. t.patterns \in Seq(S)
        <4> HIDE DEF x, S, w
        <4> QED BY <3>1, <3>3, ListedAppend
      <3> QED BY <3>5, <3>6 DEF PatternsOK
    <2> QED BY <1>2, <1>3, <2>1, <2>2, <2>3, <2>4, SubMid DEF t
  <1> QED BY <1>4, <1>5

\* What pubsubUnsubscribeAllChannels and pubsubUnsubscribeAllPatterns do.
ChannelsLeft(s, t, c) ==
    /\ Own(s, t, c) /\ t.cl[c] = [s.cl[c] EXCEPT !.channels = {}] /\ IsClient(t.cl[c])
    /\ t.watching = s.watching /\ t.blocking = s.blocking /\ t.patterns = s.patterns /\ ChannelsOK(t)
PatternsLeft(s, t, c) ==
    /\ Own(s, t, c) /\ t.cl[c] = [s.cl[c] EXCEPT !.patterns = {}] /\ IsClient(t.cl[c])
    /\ t.watching = s.watching /\ t.blocking = s.blocking /\ t.channels = s.channels /\ PatternsOK(t)

\* pubsubUnsubscribeAllChannels
LEMMA ChannelsLeftFacts ==
    ASSUME NEW s, IsServer(s), ChannelsOK(s), NEW c \in Clients
    PROVE  ChannelsLeft(s, pubsubUnsubscribeChannels(s, c, s.cl[c].channels), c)
  <1> DEFINE r == s.cl[c]
             D == r.channels
             t == pubsubUnsubscribeChannels(s, c, D)
             q == [r EXCEPT !.channels = {}]
  <1>1. IsClient(r) BY DEF IsServer
  <1>2. IsClient(q) /\ q.channels = {} BY <1>1 DEF IsClient
  <1>3. r.channels \ D = {} OBVIOUS
  <1>4. /\ DOMAIN t = DOMAIN s /\ t.slave = s.slave /\ t.val = s.val /\ t.ttl = s.ttl
        /\ t.ready = s.ready /\ t.gone = s.gone /\ t.blocking = s.blocking
        /\ t.watching = s.watching /\ t.patterns = s.patterns
        /\ t.channels = [k \in Channels |-> IF k \in D THEN RemoveFirst(s.channels[k], c)
                                            ELSE s.channels[k]]
        /\ t.cl = [s.cl EXCEPT ![c] = q]
    <2>1. t = [s EXCEPT !.channels = [k \in Channels |-> IF k \in D THEN RemoveFirst(s.channels[k], c)
                                            ELSE s.channels[k]], !.cl[c].channels = {}]
      BY <1>3 DEF pubsubUnsubscribeChannels, IsServer
    <2> HIDE DEF t, D
    <2> QED BY <1>1, <2>1 DEF IsServer
  <1>5. OwnStep(s, t, c, q)
    <2> HIDE DEF t, q, D
    <2> QED BY <1>2, <1>4 DEF OwnStep, IsServer
  <1> HIDE DEF t, q
  <1>6. Own(s, t, c) /\ t.cl[c] = q BY <1>5, OwnStepOwn
  <1>7. ChannelsOK(t)
    <2> DEFINE w == s.channels
               x == t.channels
               m == [d \in Clients |-> s.cl[d].channels]
               n == [d \in Clients |-> t.cl[d].channels]
    <2>1. ListsOK(w, Channels, m) BY ListsAre
    <2>2. \A k \in Channels : x[k] = IF k \in D THEN RemoveFirst(w[k], c) ELSE w[k] BY <1>4
    <2>3. m[c] = D /\ n[c] = {} BY <1>2, <1>6
    <2>4. \A d \in Clients : d # c => n[d] = m[d] BY <1>6 DEF Own
    <2> HIDE DEF w, x, m, n, D
    <2>5. \A k \in Channels : k \in D => k \in m[c] BY <2>3
    <2>6. \A k \in Channels : k \in n[c] <=> k \in m[c] /\ k \notin D BY <2>3
    <2>7. ListsOK(x, Channels, n) BY <2>1, <2>2, <2>4, <2>5, <2>6, ListsDrop
    <2> QED BY <2>7, ListsAre DEF x, n
  <1>8. ChannelsLeft(s, t, c) BY <1>2, <1>4, <1>6, <1>7 DEF ChannelsLeft, q
  <1> QED BY <1>8 DEF t

\* pubsubUnsubscribeAllPatterns
LEMMA PatternsLeftFacts ==
    ASSUME NEW s, IsServer(s), PatternsOK(s), NEW c \in Clients
    PROVE  PatternsLeft(s, pubsubUnsubscribePatterns(s, c, s.cl[c].patterns), c)
  <1> DEFINE r == s.cl[c]
             D == r.patterns
             S == D \X {c}
             w == s.patterns
             x == Without(w, S)
             t == pubsubUnsubscribePatterns(s, c, D)
             q == [r EXCEPT !.patterns = {}]
  <1>1. IsClient(r) BY DEF IsServer
  <1>2. IsClient(q) /\ q.patterns = {} BY <1>1 DEF IsClient
  <1>3. r.patterns \ D = {} OBVIOUS
  <1>4. /\ DOMAIN t = DOMAIN s /\ t.slave = s.slave /\ t.val = s.val /\ t.ttl = s.ttl
        /\ t.ready = s.ready /\ t.gone = s.gone /\ t.blocking = s.blocking
        /\ t.watching = s.watching /\ t.channels = s.channels
        /\ t.patterns = x
        /\ t.cl = [s.cl EXCEPT ![c] = q]
    <2>1. t = [s EXCEPT !.patterns = x, !.cl[c].patterns = {}]
      BY <1>3 DEF pubsubUnsubscribePatterns, IsServer
    <2> HIDE DEF t, x, D
    <2> QED BY <1>1, <2>1 DEF IsServer
  <1>5. OwnStep(s, t, c, q)
    <2> HIDE DEF t, q, x, D
    <2> QED BY <1>2, <1>4 DEF OwnStep, IsServer
  <1> HIDE DEF t, q
  <1>6. Own(s, t, c) /\ t.cl[c] = q BY <1>5, OwnStepOwn
  <1>7. PatternsOK(t)
    <2> DEFINE T == Patterns \X Clients
    <2>1. w \in Seq(T) BY DEF PatternsOK
    <2>2. /\ x \in Seq(T) /\ \A y \in S : Listed(x, y, FALSE)
          /\ \A y : \A b \in BOOLEAN : y \notin S /\ Listed(w, y, b) => Listed(x, y, b)
      <3> HIDE DEF S, T, w
      <3> QED BY <2>1, ListedWithout
    <2>3. ASSUME NEW e \in Clients, NEW o \in Patterns
          PROVE  Listed(x, <<o, e>>, o \in t.cl[e].patterns)
      <3> DEFINE y == <<o, e>>
      <3>1. Listed(w, y, o \in s.cl[e].patterns) BY DEF PatternsOK
      <3>2. CASE y \in S
        <4>1. e = c BY <3>2
        <4>2. o \notin t.cl[e].patterns BY <1>2, <1>6, <4>1
        <4>3. Listed(x, y, FALSE) BY <2>2, <3>2
        <4> HIDE DEF x, y
        <4> QED BY <4>2, <4>3 DEF Listed, y
      <3>3. CASE y \notin S
        <4>1. o \in t.cl[e].patterns <=> o \in s.cl[e].patterns
          <5>1. CASE e # c BY <1>6, <5>1 DEF Own
          <5>2. CASE e = c BY <1>2, <1>6, <3>3, <5>2
          <5> QED BY <5>1, <5>2
        <4> HIDE DEF x, y, S, w
        <4>2. CASE o \in s.cl[e].patterns
          <5>1. Listed(w, y, TRUE) /\ TRUE \in BOOLEAN BY <3>1, <4>2 DEF Listed
          <5>2. Listed(x, y, TRUE) BY <2>2, <3>3, <5>1
          <5> QED BY <4>1, <4>2, <5>2 DEF Listed, y
        <4>3. CASE o \notin s.cl[e].patterns
          <5>1. Listed(w, y, FALSE) /\ FALSE \in BOOLEAN BY <3>1, <4>3 DEF Listed
          <5>2. Listed(x, y, FALSE) BY <2>2, <3>3, <5>1
          <5> QED BY <4>1, <4>3, <5>2 DEF Listed, y
        <4> QED BY <4>2, <4>3
      <3> QED BY <3>2, <3>3
    <2> HIDE DEF x
    <2> QED BY <1>4, <2>2, <2>3 DEF PatternsOK
  <1> HIDE DEF x, S
  <1>8. PatternsLeft(s, t, c) BY <1>2, <1>4, <1>6, <1>7 DEF PatternsLeft, q
  <1> QED BY <1>8 DEF t

\* UNSUBSCRIBE and PUNSUBSCRIBE, before the flag of the client is cleared.
Unsubscribed(s, u, c) ==
    /\ Own(s, u, c) /\ u.watching = s.watching /\ u.blocking = s.blocking
    /\ SameTx(s.cl[c], u.cl[c]) /\ SameWait(s.cl[c], u.cl[c]) /\ ChannelsOK(u) /\ PatternsOK(u)
    /\ u.cl[c].channels \in {s.cl[c].channels, {}} /\ u.cl[c].patterns \in {s.cl[c].patterns, {}}
    /\ u.cl[c].pubsub = s.cl[c].pubsub

\* The flag of a client that has no subscription left is cleared.
LEMMA ClearPubsubMid ==
    ASSUME NEW s0, NEW s, NEW u, NEW c \in Clients, Mid(s0, s), Unsubscribed(s, u, c)
    PROVE  LET t == ClearPubsubFlag(u, c) IN Mid(s0, t) /\ t.cl[c].multi = s.cl[c].multi
  <1> USE DEF Unsubscribed
  <1> DEFINE t == ClearPubsubFlag(u, c)
             r == s.cl[c]
             p == u.cl[c]
             q == [p EXCEPT !.pubsub = FALSE]
             none == p.channels = {} /\ p.patterns = {}
  <1>1. IsServer(u) /\ IsClient(p) BY DEF Own, IsServer
  <1>2. ClientOK(r) BY DEF Mid, Sound
  <1>3. /\ p.channels \subseteq Channels /\ IsFiniteSet(p.channels)
        /\ p.patterns \subseteq Patterns /\ IsFiniteSet(p.patterns) /\ p.pubsub \in BOOLEAN
        /\ p.pubsub = FALSE => p.channels = {} /\ p.patterns = {}
    <2>1. IsFiniteSet({}) BY FS_EmptySet
    <2> QED BY <1>2, <2>1 DEF ClientOK, SetsOK, FlagsOK
  <1>4. clientSubscriptionsCount(u, c) = 0 <=> none
    <2> DEFINE A == p.channels
               B == p.patterns
    <2>1. IsFiniteSet(A) /\ IsFiniteSet(B) BY <1>3
    <2> HIDE DEF A, B
    <2>2. Cardinality(A) \in Nat /\ Cardinality(B) \in Nat BY <2>1, FS_CardinalityType
    <2>3. Cardinality(A) = 0 <=> A = {} BY <2>1, FS_EmptySet
    <2>4. Cardinality(B) = 0 <=> B = {} BY <2>1, FS_EmptySet
    <2>5. Cardinality(A) + Cardinality(B) = 0 <=> A = {} /\ B = {} BY <2>2, <2>3, <2>4
    <2> QED BY <2>5 DEF clientSubscriptionsCount, A, B
  <1>5. CASE ~ none
    <2>1. t = u BY <1>4, <1>5 DEF ClearPubsubFlag
    <2> HIDE DEF t
    <2>2. SubsOK(p) BY <1>3, <1>5 DEF SubsOK
    <2> QED BY <2>1, <2>2, SubMid DEF t
  <1>6. CASE none
    <2>1. t = [u EXCEPT !.cl[c].pubsub = FALSE] BY <1>4, <1>6 DEF ClearPubsubFlag
    <2>2. /\ IsClient(q) /\ SameTx(p, q) /\ SameWait(p, q) /\ q.pubsub = FALSE
          /\ q.channels = p.channels /\ q.patterns = p.patterns
      <3> HIDE DEF p
      <3> QED BY <1>1 DEF IsClient, SameTx, SameWait
    <2> HIDE DEF t
    <2>3. OwnStep(u, t, c, q) /\ SameLists(u, t)
      <3>1. IsClient(q) BY <2>2
      <3> QED BY <1>1, <2>1, <3>1 DEF IsServer, OwnStep, SameLists
    <2> HIDE DEF q
    <2>4. Own(u, t, c) /\ t.cl[c] = q BY <1>1, <2>3, OwnStepOwn
    <2>5. Own(s, t, c) BY <2>4, OwnTrans
    <2>6. ChannelsOK(t)
      <3>1. \A d \in Clients : t.cl[d].channels = u.cl[d].channels BY <2>2, <2>4 DEF Own
      <3> QED BY <2>3, <3>1 DEF ChannelsOK, SameLists
    <2>7. PatternsOK(t)
      <3>1. \A d \in Clients : t.cl[d].patterns = u.cl[d].patterns BY <2>2, <2>4 DEF Own
      <3> QED BY <2>3, <3>1 DEF PatternsOK, SameLists
    <2>8. SubsOK(t.cl[c]) BY <1>3, <1>6, <2>2, <2>4 DEF SubsOK
    <2>9. SameTx(r, t.cl[c]) /\ SameWait(r, t.cl[c]) BY <2>2, <2>4 DEF SameTx, SameWait
    <2>10. t.watching = s.watching /\ t.blocking = s.blocking BY <2>3 DEF SameLists
    <2> QED BY <2>5, <2>6, <2>7, <2>8, <2>9, <2>10, SubMid DEF t
  <1> QED BY <1>5, <1>6

\* UNSUBSCRIBE
LEMMA UnsubscribeMid ==
    ASSUME NEW s0, NEW s, NEW c \in Clients, Mid(s0, s)
    PROVE  LET t == unsubscribeCommand(s, c) IN Mid(s0, t) /\ t.cl[c].multi = s.cl[c].multi
  <1> DEFINE u == pubsubUnsubscribeChannels(s, c, s.cl[c].channels)
             r == s.cl[c]
  <1>1. Sound(s) /\ IsServer(s) /\ IsClient(r) /\ ChannelsOK(s)
    BY DEF Mid, Sound, Keyed, Good, IsServer
  <1>2. unsubscribeCommand(s, c) = ClearPubsubFlag(u, c) BY DEF unsubscribeCommand
  <1>3. ChannelsLeft(s, u, c) BY <1>1, ChannelsLeftFacts
  <1> HIDE DEF u
  <1>4. /\ Own(s, u, c) /\ u.watching = s.watching /\ u.blocking = s.blocking
        /\ u.patterns = s.patterns /\ ChannelsOK(u) /\ u.cl[c] = [r EXCEPT !.channels = {}]
    BY <1>3 DEF ChannelsLeft
  <1>5. /\ SameTx(r, u.cl[c]) /\ SameWait(r, u.cl[c]) /\ u.cl[c].patterns = r.patterns
        /\ u.cl[c].channels = {} /\ u.cl[c].pubsub = r.pubsub
    <2> HIDE DEF r
    <2> QED BY <1>1, <1>4 DEF IsClient, SameTx, SameWait
  <1>6. PatternsOK(u) BY <1>1, <1>4, <1>5, SameListsOK
  <1>7. Unsubscribed(s, u, c) BY <1>4, <1>5, <1>6 DEF Unsubscribed
  <1>8. LET t == ClearPubsubFlag(u, c) IN Mid(s0, t) /\ t.cl[c].multi = s.cl[c].multi
    BY <1>7, ClearPubsubMid
  <1> QED BY <1>2, <1>8

\* PUNSUBSCRIBE
LEMMA PunsubscribeMid ==
    ASSUME NEW s0, NEW s, NEW c \in Clients, Mid(s0, s)
    PROVE  LET t == punsubscribeCommand(s, c) IN Mid(s0, t) /\ t.cl[c].multi = s.cl[c].multi
  <1> DEFINE u == pubsubUnsubscribePatterns(s, c, s.cl[c].patterns)
             r == s.cl[c]
  <1>1. Sound(s) /\ IsServer(s) /\ IsClient(r) /\ PatternsOK(s)
    BY DEF Mid, Sound, Keyed, Good, IsServer
  <1>2. punsubscribeCommand(s, c) = ClearPubsubFlag(u, c) BY DEF punsubscribeCommand
  <1>3. PatternsLeft(s, u, c) BY <1>1, PatternsLeftFacts
  <1> HIDE DEF u
  <1>4. /\ Own(s, u, c) /\ u.watching = s.watching /\ u.blocking = s.blocking
        /\ u.channels = s.channels /\ PatternsOK(u) /\ u.cl[c] = [r EXCEPT !.patterns = {}]
    BY <1>3 DEF PatternsLeft
  <1>5. /\ SameTx(r, u.cl[c]) /\ SameWait(r, u.cl[c]) /\ u.cl[c].channels = r.channels
        /\ u.cl[c].patterns = {} /\ u.cl[c].pubsub = r.pubsub
    <2> HIDE DEF r
    <2> QED BY <1>1, <1>4 DEF IsClient, SameTx, SameWait
  <1>6. ChannelsOK(u) BY <1>1, <1>4, <1>5, SameListsOK
  <1>7. Unsubscribed(s, u, c) BY <1>4, <1>5, <1>6 DEF Unsubscribed
  <1>8. LET t == ClearPubsubFlag(u, c) IN Mid(s0, t) /\ t.cl[c].multi = s.cl[c].multi
    BY <1>7, ClearPubsubMid
  <1> QED BY <1>2, <1>8

(***************************************************************************)
(* Waiting for lists.                                                      *)
(***************************************************************************)

\* The transaction and the subscriptions of a client.
SameRest(r, q) ==
    SameTx(r, q) /\ q.channels = r.channels /\ q.patterns = r.patterns /\ q.pubsub = r.pubsub

\* blockForKeys, for keys that do not exist.
LEMMA BlockMid ==
    ASSUME NEW s0, NEW s, NEW c \in Clients, Mid(s0, s), ~ s.cl[c].blocked, ~ s.cl[c].multi,
           NEW D \in SUBSET Keys, D # {}, NEW dst \in Keys \cup {None}, NEW head \in BOOLEAN,
           \A k \in D : ~ Exists(s, k)
    PROVE  LET t == blockForKeys(s, c, D, dst, head) IN Mid(s0, t) /\ t.cl[c].multi = s.cl[c].multi
  <1> DEFINE t == blockForKeys(s, c, D, dst, head)
             r == s.cl[c]
             q == [[[[r EXCEPT !.keys = D] EXCEPT !.target = dst] EXCEPT !.head = head]
                      EXCEPT !.blocked = TRUE]
             x == [k \in Keys |-> IF k \in D THEN Append(s.blocking[k], c) ELSE s.blocking[k]]
  <1>1. Sound(s) /\ IsServer(s) /\ IsClient(r) /\ ClientOK(r)
    BY DEF Mid, Sound, Keyed, Good, IsServer
  <1>2. r.keys = {} BY <1>1 DEF ClientOK, FlagsOK, SetsOK
  <1>3. /\ IsClient(q) /\ SameRest(r, q) /\ q.keys = D /\ q.target = dst /\ q.head = head
        /\ q.blocked = TRUE
    <2> HIDE DEF r
    <2> QED BY <1>1 DEF IsClient, SameTx, SameRest
  <1>4. /\ DOMAIN t = DOMAIN s /\ t.slave = s.slave /\ t.val = s.val /\ t.ttl = s.ttl
        /\ t.ready = s.ready /\ t.gone = s.gone /\ t.watching = s.watching
        /\ t.channels = s.channels /\ t.patterns = s.patterns /\ t.blocking = x
        /\ t.cl = [s.cl EXCEPT ![c] = q]
    <2>1. t = [s EXCEPT !.blocking = x, !.cl[c].keys = D, !.cl[c].target = dst, !.cl[c].head = head,
                        !.cl[c].blocked = TRUE]
      BY <1>1 DEF blockForKeys, IsServer
    <2> HIDE DEF t, x
    <2> QED BY <1>1, <2>1 DEF IsServer
  <1>5. OwnStep(s, t, c, q)
    <2> HIDE DEF t, q
    <2> QED BY <1>1, <1>3, <1>4 DEF OwnStep, IsServer
  <1> HIDE DEF t, q
  <1>6. Own(s, t, c) /\ t.cl[c] = q BY <1>1, <1>5, OwnStepOwn
  <1>7. WaitersOK(t)
    <2> DEFINE w == s.blocking
               y == t.blocking
               m == [d \in Clients |-> s.cl[d].keys]
               n == [d \in Clients |-> t.cl[d].keys]
    <2>1. ListsOK(w, Keys, m) BY <1>1, ListsAre DEF Sound
    <2>2. \A k \in Keys : y[k] = IF k \in D THEN Append(w[k], c) ELSE w[k] BY <1>4
    <2>3. m[c] = {} /\ n[c] = D BY <1>2, <1>3, <1>6
    <2>4. \A d \in Clients : d # c => n[d] = m[d] BY <1>6 DEF Own
    <2> HIDE DEF w, y, m, n
    <2>5. \A k \in Keys : k \in D => k \notin m[c] BY <2>3
    <2>6. \A k \in Keys : k \in n[c] <=> k \in m[c] \/ k \in D BY <2>3
    <2>7. ListsOK(y, Keys, n) BY <2>1, <2>2, <2>4, <2>5, <2>6, ListsJoin
    <2> QED BY <2>7, ListsAre DEF y, n
  <1>8. WatchersOK(t) /\ ChannelsOK(t) /\ PatternsOK(t)
    BY <1>1, <1>3, <1>4, <1>6, SameListsOK DEF SameRest, SameTx
  <1>9. ClientOK(q)
    <2>1. r.multi = FALSE BY <1>1 DEF ClientOK, SetsOK
    <2> HIDE DEF r
    <2>2. SetsOK(q) BY <1>1, <1>3 DEF ClientOK, SetsOK, SameRest, SameTx
    <2>3. QueueOK(q) BY <1>1, <1>3 DEF ClientOK, QueueOK, SameRest, SameTx
    <2>4. FlagsOK(q) BY <1>1, <1>3, <2>1 DEF ClientOK, FlagsOK, SameRest, SameTx
    <2> QED BY <2>2, <2>3, <2>4 DEF ClientOK
  <1>10. \A k \in Keys : IsList(s, k) /\ s.blocking[k] = <<>> => t.blocking[k] = <<>>
    <2>1. \A k \in Keys : IsList(s, k) => Exists(s, k) BY <1>1, ListFacts DEF Sound, Keyed
    <2> QED BY <1>4, <2>1
  <1>11. q.watched = r.watched /\ q.cas = r.cas /\ q.multi = r.multi BY <1>3 DEF SameRest, SameTx
  <1>12. Mid(s0, t) BY <1>6, <1>7, <1>8, <1>9, <1>10, <1>11, OwnMid
  <1> QED BY <1>6, <1>11, <1>12 DEF t

\* A step of a command of client c, that does not begin or end its transaction.
Goes(s0, s, t, c) == Mid(s0, t) /\ t.cl[c].multi = s.cl[c].multi

\* Two of them make one.
LEMMA GoesTrans ==
    ASSUME NEW s0, NEW s, NEW t, NEW u, NEW c, Goes(s0, s, t, c), Goes(s0, t, u, c)
    PROVE  Goes(s0, s, u, c)
  BY DEF Goes

\* A command on keys is such a step, and blocks nobody.
LEMMA ChangesGoes ==
    ASSUME NEW s0, NEW s, NEW t, Mid(s0, s), Changes(s, t), NEW c \in Clients
    PROVE  Goes(s0, s, t, c) /\ t.cl[c].blocked = s.cl[c].blocked /\ Keyed(t) /\ Good(t)
  <1>1. Mid(s0, t) BY ChangesMid
  <1>2. SameClient(s.cl[c], t.cl[c]) /\ Keyed(t) BY DEF Changes, Edit
  <1> QED BY <1>1, <1>2 DEF Goes, SameClient, Keyed

\* So are the steps of the books.
LEMMA QuietGoes ==
    ASSUME NEW s0, NEW s, NEW t, Mid(s0, s), Quiet(s, t), NEW c \in Clients
    PROVE  Goes(s0, s, t, c) /\ t.cl[c].blocked = s.cl[c].blocked /\ Keyed(t) /\ Good(t)
  <1>1. Keyed(s) BY DEF Mid, Sound
  <1>2. Changes(s, t) BY <1>1, QuietChanges
  <1> QED BY <1>2, ChangesGoes

\* A lookup.
LEMMA LookupGoes ==
    ASSUME NEW s0, NEW s, Mid(s0, s), NEW c \in Clients, NEW k \in Keys
    PROVE  LET t == lookupKeyWrite(s, k)
           IN  /\ Goes(s0, s, t, c) /\ t.cl[c].blocked = s.cl[c].blocked /\ Keyed(t) /\ Good(t)
               /\ Looked(s, t, k)
  <1> DEFINE t == lookupKeyWrite(s, k)
  <1>1. Keyed(s) BY DEF Mid, Sound
  <1>2. t = expireIfNeeded(s, k) BY DEF lookupKeyWrite
  <1> HIDE DEF t
  <1>3. Looked(s, t, k) /\ Changes(s, t) BY <1>1, <1>2, LookedChanges
  <1>4. Goes(s0, s, t, c) /\ t.cl[c].blocked = s.cl[c].blocked /\ Keyed(t) /\ Good(t)
    BY <1>3, ChangesGoes
  <1> QED BY <1>3, <1>4 DEF t

\* A key that did not exist, after another lookup.
LEMMA StillAbsent ==
    ASSUME NEW s, NEW t, NEW k \in Keys, Looked(s, t, k), NEW j \in Keys, ~ Exists(s, j)
    PROVE  ~ Exists(t, j)
  BY DEF Looked, Elsewhere, IsAt, Exists

\* BLPOP and BRPOP
LEMMA BlockingPopGoes ==
    ASSUME NEW s0, NEW s, NEW c \in Clients, Mid(s0, s), ~ s.cl[c].blocked, NEW cmd,
           cmd.k \in Keys, cmd.k2 \in Keys \cup {None}, NEW head \in BOOLEAN
    PROVE  Goes(s0, s, blockingPopGenericCommand(s, c, cmd, head), c)
  <1> DEFINE a == lookupKeyWrite(s, cmd.k)
             next == ~ Exists(a, cmd.k) /\ cmd.k2 # None
             t == IF next THEN lookupKeyWrite(a, cmd.k2) ELSE a
             k == IF next THEN cmd.k2 ELSE cmd.k
             pop == Command(IF head THEN "lpop" ELSE "rpop", k, None, 0)
             D == {cmd.k, cmd.k2} \ {None}
             e == blockingPopGenericCommand(s, c, cmd, head)
  <1>1. e = IF WrongType(t, k) THEN t
            ELSE IF Exists(t, k) THEN [popGenericCommand(t, c, pop, head) EXCEPT !.argv = pop]
            ELSE IF s.cl[c].multi THEN t
            ELSE blockForKeys(t, c, D, None, head)
    BY DEF blockingPopGenericCommand
  <1>2. /\ Goes(s0, s, a, c) /\ a.cl[c].blocked = s.cl[c].blocked /\ Keyed(a) /\ Good(a)
        /\ Looked(s, a, cmd.k)
    BY LookupGoes
  <1> HIDE DEF a
  <1>3. k \in Keys OBVIOUS
  <1>4. /\ Goes(s0, a, t, c) /\ t.cl[c].blocked = a.cl[c].blocked /\ Keyed(t) /\ Good(t)
        /\ next => Looked(a, t, cmd.k2)
    <2>1. CASE ~ next BY <1>2, <2>1 DEF Goes
    <2>2. CASE next
      <3> DEFINE b == lookupKeyWrite(a, cmd.k2)
      <3>1. cmd.k2 \in Keys /\ Mid(s0, a) BY <1>2, <2>2 DEF Goes
      <3>2. /\ Goes(s0, a, b, c) /\ b.cl[c].blocked = a.cl[c].blocked /\ Keyed(b) /\ Good(b)
            /\ Looked(a, b, cmd.k2)
        BY <3>1, LookupGoes
      <3>3. t = b BY <2>2
      <3> HIDE DEF b, t, next
      <3> QED BY <3>2, <3>3
    <2> QED BY <2>1, <2>2
  <1>5. ~ Exists(t, k) => \A j \in D : ~ Exists(t, j)
    <2> SUFFICES ASSUME ~ Exists(t, k), NEW j \in D PROVE ~ Exists(t, j) OBVIOUS
    <2>1. CASE next
      <3>1. Looked(a, t, cmd.k2) /\ k = cmd.k2 /\ cmd.k2 \in Keys /\ ~ Exists(a, cmd.k) BY <1>4, <2>1
      <3> HIDE DEF t, next
      <3>2. ~ Exists(t, cmd.k) BY <3>1, StillAbsent
      <3> QED BY <3>1, <3>2
    <2>2. CASE ~ next
      <3>1. t = a /\ k = cmd.k BY <2>2
      <3>2. cmd.k2 = None BY <2>2, <3>1
      <3> HIDE DEF t, next
      <3> QED BY <3>1, <3>2
    <2> QED BY <2>1, <2>2
  <1>6. D \in SUBSET Keys /\ D # {} BY ServerAssumption
  <1> HIDE DEF t, next, k, D
  <1>7. Goes(s0, s, t, c) /\ Mid(s0, t) BY <1>2, <1>4, GoesTrans DEF Goes
  <1>8. CASE e = t BY <1>7, <1>8
  <1>9. CASE e = [popGenericCommand(t, c, pop, head) EXCEPT !.argv = pop]
    <2> DEFINE p == popGenericCommand(t, c, pop, head)
    <2>1. pop.k = k BY DEF Command
    <2> HIDE DEF pop
    <2>2. Changes(t, p) BY <1>3, <1>4, <2>1, PopChanges
    <2> HIDE DEF p
    <2>3. Goes(s0, t, p, c) /\ Good(p) BY <1>7, <2>2, ChangesGoes
    <2>4. Mid(s0, p) BY <2>3 DEF Goes
    <2>5. Quiet(p, [p EXCEPT !.argv = pop]) BY <2>3, BooksQuiet, Zenon
    <2>6. Goes(s0, p, [p EXCEPT !.argv = pop], c) BY <2>4, <2>5, QuietGoes
    <2>7. Goes(s0, p, e, c) BY <1>9, <2>6 DEF p
    <2> HIDE DEF e
    <2>8. Goes(s0, s, p, c) BY <1>7, <2>3, GoesTrans
    <2>9. Goes(s0, s, e, c) BY <2>7, <2>8, GoesTrans
    <2> QED BY <2>9 DEF e
  <1>10. CASE ~ Exists(t, k) /\ ~ s.cl[c].multi /\ e = blockForKeys(t, c, D, None, head)
    <2>1. ~ t.cl[c].blocked /\ ~ t.cl[c].multi BY <1>2, <1>4, <1>7, <1>10 DEF Goes
    <2>2. \A j \in D : ~ Exists(t, j) BY <1>5, <1>10
    <2>3. None \in Keys \cup {None} OBVIOUS
    <2> DEFINE b == blockForKeys(t, c, D, None, head)
    <2>4. Mid(s0, b) /\ b.cl[c].multi = t.cl[c].multi BY <1>6, <1>7, <2>1, <2>2, <2>3, BlockMid
    <2>5. Goes(s0, t, e, c) BY <1>10, <2>4 DEF Goes
    <2> QED BY <1>7, <2>5, GoesTrans
  <1>11. e = t \/ e = [popGenericCommand(t, c, pop, head) EXCEPT !.argv = pop]
           \/ (~ Exists(t, k) /\ ~ s.cl[c].multi /\ e = blockForKeys(t, c, D, None, head))
    <2> HIDE DEF e, pop
    <2> QED BY <1>1
  <1> QED BY <1>8, <1>9, <1>10, <1>11

\* BRPOPLPUSH
LEMMA BrpoplpushGoes ==
    ASSUME NEW s0, NEW s, NEW c \in Clients, Mid(s0, s), ~ s.cl[c].blocked, NEW cmd,
           cmd.k \in Keys, cmd.k2 \in Keys
    PROVE  Goes(s0, s, brpoplpushCommand(s, c, cmd), c)
  <1> DEFINE t == lookupKeyWrite(s, cmd.k)
             D == {cmd.k}
             e == brpoplpushCommand(s, c, cmd)
  <1>1. e = IF ~ Exists(t, cmd.k)
            THEN IF t.cl[c].multi THEN t ELSE blockForKeys(t, c, D, cmd.k2, FALSE)
            ELSE rpoplpushCommand(t, cmd)
    BY DEF brpoplpushCommand
  <1>2. /\ Goes(s0, s, t, c) /\ t.cl[c].blocked = s.cl[c].blocked /\ Keyed(t) /\ Good(t)
        /\ Looked(s, t, cmd.k)
    BY LookupGoes
  <1> HIDE DEF t
  <1>3. Mid(s0, t) /\ ~ t.cl[c].blocked BY <1>2 DEF Goes
  <1>4. CASE e = t BY <1>2, <1>4
  <1>5. CASE e = rpoplpushCommand(t, cmd)
    <2> DEFINE p == rpoplpushCommand(t, cmd)
    <2>1. Changes(t, p) BY <1>2, RpoplpushChanges
    <2> HIDE DEF p
    <2>2. Goes(s0, t, p, c) BY <1>3, <2>1, ChangesGoes
    <2>3. Goes(s0, s, p, c) BY <1>2, <2>2, GoesTrans
    <2> QED BY <1>5, <2>3 DEF p
  <1>6. CASE ~ Exists(t, cmd.k) /\ ~ t.cl[c].multi /\ e = blockForKeys(t, c, D, cmd.k2, FALSE)
    <2>1. \A j \in D : ~ Exists(t, j) BY <1>6
    <2>2. D \in SUBSET Keys /\ D # {} /\ cmd.k2 \in Keys \cup {None} /\ FALSE \in BOOLEAN OBVIOUS
    <2> HIDE DEF D
    <2> DEFINE b == blockForKeys(t, c, D, cmd.k2, FALSE)
    <2>a. ~ t.cl[c].multi BY <1>6
    <2>3. Mid(s0, b) /\ b.cl[c].multi = t.cl[c].multi BY <1>3, <2>a, <2>1, <2>2, BlockMid
    <2>4. Goes(s0, t, e, c) BY <1>6, <2>3 DEF Goes
    <2> QED BY <1>2, <2>4, GoesTrans
  <1> HIDE DEF e
  <1> QED BY <1>1, <1>4, <1>5, <1>6

(***************************************************************************)
(* call, and transactions.                                                 *)
(***************************************************************************)

\* A command that may be queued, and what the environment does to it.
Queueable(cmd) == Known(cmd) /\ cmd.op \notin NotQueued \cup {"bad"}
EnvOK(env) == env.evict \in Keys \cup {None} /\ env.inner \in Keys \cup {None}

\* The implementation of each command.
LEMMA CallProcGoes ==
    ASSUME NEW s0, NEW s, NEW c \in Clients, Mid(s0, s), ~ s.cl[c].blocked, NEW cmd, Queueable(cmd),
           NEW env, EnvOK(env)
    PROVE  Goes(s0, s, CallProc(s, c, cmd, env), c)
  <1> DEFINE t == CallProc(s, c, cmd, env)
  <1>1. Known(cmd) /\ IsCommand(cmd) /\ cmd.op \notin {"exec", "discard", "multi", "watch", "bad"}
    BY DEF Queueable, Known, NotQueued
  <1>2. Keyed(s) BY DEF Mid, Sound
  <1>3. CASE cmd.op \in {"eval", "evalsha"}
    <2>1. t = evalGenericCommand(s, c, cmd, env) BY <1>3 DEF CallProc
    <2> HIDE DEF t
    <2>2. env.inner \in Keys \cup {None} BY DEF EnvOK
    <2>3. Changes(s, t) BY <1>1, <1>2, <1>3, <2>1, <2>2, EvalChanges
    <2> QED BY <2>3, ChangesGoes DEF t
  <1>4. CASE cmd.op \in OnKeys
    <2>1. t = Proc(s, c, cmd) BY <1>4 DEF CallProc, OnKeys, InScripts
    <2> HIDE DEF t
    <2>2. Changes(s, t) BY <1>1, <1>2, <1>4, <2>1, ProcChanges
    <2> QED BY <2>2, ChangesGoes DEF t
  <1>5. CASE cmd.op = "blpop"
    <2>1. t = blockingPopGenericCommand(s, c, cmd, TRUE) BY <1>5 DEF CallProc, Proc
    <2> HIDE DEF t
    <2>2. cmd.k \in Keys /\ cmd.k2 \in Keys \cup {None} /\ TRUE \in BOOLEAN BY <1>1, <1>5 DEF IsCommand
    <2> QED BY <2>1, <2>2, BlockingPopGoes DEF t
  <1>6. CASE cmd.op = "brpop"
    <2>1. t = blockingPopGenericCommand(s, c, cmd, FALSE) BY <1>6 DEF CallProc, Proc
    <2> HIDE DEF t
    <2>2. cmd.k \in Keys /\ cmd.k2 \in Keys \cup {None} /\ FALSE \in BOOLEAN BY <1>1, <1>6 DEF IsCommand
    <2> QED BY <2>1, <2>2, BlockingPopGoes DEF t
  <1>7. CASE cmd.op = "brpoplpush"
    <2>1. t = brpoplpushCommand(s, c, cmd) BY <1>7 DEF CallProc, Proc
    <2> HIDE DEF t
    <2>2. cmd.k \in Keys /\ cmd.k2 \in Keys BY <1>1, <1>7 DEF IsCommand
    <2> QED BY <2>1, <2>2, BrpoplpushGoes DEF t
  <1>8. CASE cmd.op = "unwatch"
    <2>1. t = unwatchCommand(s, c) BY <1>8 DEF CallProc, Proc
    <2>2. Mid(s0, unwatchCommand(s, c)) /\ unwatchCommand(s, c).cl[c].multi = s.cl[c].multi
      BY UnwatchMid
    <2> QED BY <2>1, <2>2 DEF Goes
  <1>9. CASE cmd.op = "subscribe"
    <2>1. t = subscribeCommand(s, c, cmd.x) BY <1>9 DEF CallProc, Proc
    <2>2. cmd.x \in Channels BY <1>1, <1>9 DEF IsCommand
    <2>3. Mid(s0, subscribeCommand(s, c, cmd.x))
          /\ subscribeCommand(s, c, cmd.x).cl[c].multi = s.cl[c].multi
      BY <2>2, SubscribeMid
    <2> QED BY <2>1, <2>3 DEF Goes
  <1>10. CASE cmd.op = "psubscribe"
    <2>1. t = psubscribeCommand(s, c, cmd.x) BY <1>10 DEF CallProc, Proc
    <2>2. cmd.x \in Patterns BY <1>1, <1>10 DEF IsCommand
    <2>3. Mid(s0, psubscribeCommand(s, c, cmd.x))
          /\ psubscribeCommand(s, c, cmd.x).cl[c].multi = s.cl[c].multi
      BY <2>2, PsubscribeMid
    <2> QED BY <2>1, <2>3 DEF Goes
  <1>11. CASE cmd.op = "unsubscribe"
    <2>1. t = unsubscribeCommand(s, c) BY <1>11 DEF CallProc, Proc
    <2>2. Mid(s0, unsubscribeCommand(s, c)) /\ unsubscribeCommand(s, c).cl[c].multi = s.cl[c].multi
      BY UnsubscribeMid
    <2> QED BY <2>1, <2>2 DEF Goes
  <1>12. CASE cmd.op = "punsubscribe"
    <2>1. t = punsubscribeCommand(s, c) BY <1>12 DEF CallProc, Proc
    <2>2. Mid(s0, punsubscribeCommand(s, c)) /\ punsubscribeCommand(s, c).cl[c].multi = s.cl[c].multi
      BY PunsubscribeMid
    <2> QED BY <2>1, <2>2 DEF Goes
  <1> HIDE DEF t
  <1>13. \/ cmd.op \in {"eval", "evalsha"} \/ cmd.op \in OnKeys \/ cmd.op = "blpop" \/ cmd.op = "brpop"
         \/ cmd.op = "brpoplpush" \/ cmd.op = "unwatch" \/ cmd.op = "subscribe"
         \/ cmd.op = "psubscribe" \/ cmd.op = "unsubscribe" \/ cmd.op = "punsubscribe"
    BY <1>1 DEF IsCommand, OnKeys, InScripts
  <1> QED BY <1>3, <1>4, <1>5, <1>6, <1>7, <1>8, <1>9, <1>10, <1>11, <1>12, <1>13 DEF t

\* What call does before and after the command.
LEMMA PropagatedGoes ==
    ASSUME NEW s0, NEW s, NEW t, Mid(s0, t), NEW c \in Clients
    PROVE  Goes(s0, t, Propagated(s, t), c)
  <1> DEFINE u == IF t.dirty > s.dirty \/ t.force THEN propagate(t, t.argv) ELSE t
             x == s.argv
             y == s.force
             e == [u EXCEPT !.argv = x, !.force = y]
  <1>1. Good(t) BY DEF Mid, Sound, Keyed
  <1>2. Propagated(s, t) = e BY DEF Propagated
  <1>3. Quiet(t, u) BY <1>1, BooksQuiet, Zenon
  <1> HIDE DEF u, x, y
  <1>4. Goes(s0, t, u, c) /\ Good(u) /\ Mid(s0, u) BY <1>3, QuietGoes DEF Goes
  <1>5. Quiet(u, e) BY <1>4, BooksQuiet, Zenon
  <1> HIDE DEF e
  <1>6. Goes(s0, u, e, c) BY <1>4, <1>5, QuietGoes
  <1>7. Goes(s0, t, e, c) BY <1>4, <1>6, GoesTrans
  <1> QED BY <1>2, <1>7

\* call
LEMMA CallGoes ==
    ASSUME NEW s0, NEW s, NEW c \in Clients, Mid(s0, s), ~ s.cl[c].blocked, NEW cmd, Queueable(cmd),
           NEW env, EnvOK(env)
    PROVE  Goes(s0, s, call(s, c, cmd, env), c)
  <1> DEFINE a == [s EXCEPT !.argv = cmd, !.force = FALSE]
             p == CallProc(a, c, cmd, env)
             e == Propagated(s, p)
  <1>1. Good(s) BY DEF Mid, Sound, Keyed
  <1>2. Quiet(s, a) BY <1>1, BooksQuiet, Zenon
  <1>3. call(s, c, cmd, env) = e BY DEF call
  <1> HIDE DEF a
  <1>4. Goes(s0, s, a, c) /\ Mid(s0, a) /\ ~ a.cl[c].blocked BY <1>2, QuietGoes DEF Goes
  <1>5. Goes(s0, a, p, c) BY <1>4, CallProcGoes
  <1> HIDE DEF p
  <1>6. Mid(s0, p) BY <1>5 DEF Goes
  <1>7. Goes(s0, p, e, c) BY <1>6, PropagatedGoes
  <1> HIDE DEF e
  <1>8. Goes(s0, s, p, c) BY <1>4, <1>5, GoesTrans
  <1>9. Goes(s0, s, e, c) BY <1>7, <1>8, GoesTrans
  <1> QED BY <1>3, <1>9

\* One command of a transaction.
LEMMA ExecStepGoes ==
    ASSUME NEW s0, NEW a, NEW c \in Clients, Mid(s0, a.s), a.s.cl[c].multi = TRUE,
           NEW cmd, Queueable(cmd), NEW env, EnvOK(env)
    PROVE  LET b == ExecStep(a, c, cmd, env) IN Mid(s0, b.s) /\ b.s.cl[c].multi = TRUE
  <1> DEFINE s == a.s
             m == Command("multi", None, None, 0)
             multi == ~ a.must /\ cmd.op \notin ReadOnly
             t == IF multi THEN propagate(s, m) ELSE s
             u == call(t, c, cmd, env)
  <1>1. ExecStep(a, c, cmd, env).s = u BY DEF ExecStep
  <1>2. Good(s) BY DEF Mid, Sound, Keyed
  <1>3. Quiet(s, t)
    <2> HIDE DEF m
    <2> QED BY <1>2, BooksQuiet, Zenon
  <1> HIDE DEF t, s
  <1>4. Mid(s0, s) /\ s.cl[c].multi = TRUE BY DEF s
  <1>5. Mid(s0, t) /\ t.cl[c].multi = TRUE BY <1>3, <1>4, QuietGoes DEF Goes
  <1>6. ~ t.cl[c].blocked BY <1>5 DEF Mid, Sound, ClientOK, FlagsOK
  <1>7. Goes(s0, t, u, c) BY <1>5, <1>6, CallGoes
  <1> QED BY <1>1, <1>5, <1>7 DEF Goes

DoneFn(f, a, c, q, env, n) ==
    f = [i \in 0..n |-> IF i = 0 THEN a ELSE ExecStep(f[i - 1], c, q[i], env)]
DoneIs(f, a, c, q, env, n) ==
    f[0] = a /\ \A i \in 1..n : f[i] = ExecStep(f[i - 1], c, q[i], env)

\* The commands of a transaction, one after the other.
LEMMA DoneUnfold ==
    ASSUME NEW a, NEW c, NEW q, NEW env, NEW n \in Nat
    PROVE  DoneIs(CHOOSE g : DoneFn(g, a, c, q, env, n), a, c, q, env, n)
  <1> DEFINE Op(x, i) == ExecStep(x, c, q[i], env)
             Is(f, m) == f = [i \in 0..m |-> IF i = 0 THEN a ELSE Op(f[i - 1], i)]
             Has(m) == \E f : Is(f, m)
             T == {m \in Nat : Has(m)}
             h == CHOOSE g : DoneFn(g, a, c, q, env, n)
  <1> HIDE DEF Op
  <1>1. Has(0)
    <2> DEFINE g == [i \in 0..0 |-> a]
    <2>1. Is(g, 0) OBVIOUS
    <2> HIDE DEF g, Is
    <2> QED BY <2>1
  <1>2. ASSUME NEW m \in Nat, Has(m) PROVE Has(m + 1)
    <2>1. PICK f : Is(f, m) BY <1>2
    <2> DEFINE g == [i \in 0..(m + 1) |-> IF i = m + 1 THEN Op(f[m], m + 1) ELSE f[i]]
    <2>2. \A i \in 0..(m + 1) : g[i] = IF i = 0 THEN a ELSE Op(g[i - 1], i)
      <3> SUFFICES ASSUME NEW i \in 0..(m + 1) PROVE g[i] = IF i = 0 THEN a ELSE Op(g[i - 1], i)
        OBVIOUS
      <3>1. CASE i = m + 1 BY <3>1
      <3>2. CASE i \in 0..m
        <4>1. g[i] = f[i] /\ (i # 0 => g[i - 1] = f[i - 1]) BY <3>2
        <4>2. f[i] = IF i = 0 THEN a ELSE Op(f[i - 1], i) BY <2>1, <3>2
        <4> QED BY <4>1, <4>2
      <3> QED BY <3>1, <3>2
    <2>3. Is(g, m + 1) BY <2>2
    <2> HIDE DEF g, Is
    <2> QED BY <2>3
  <1> HIDE DEF Has
  <1>3. Nat \subseteq T
    <2>1. 0 \in T BY <1>1
    <2>2. \A m \in Nat : m \in T => m + 1 \in T BY <1>2
    <2> HIDE DEF T
    <2> QED BY <2>1, <2>2, NatSetInduction
  <1>4. \E g : DoneFn(g, a, c, q, env, n) BY <1>3 DEF Op, Has, DoneFn
  <1>5. DoneFn(h, a, c, q, env, n) BY <1>4
  <1> HIDE DEF h
  <1>6. Is(h, n) BY <1>5 DEF DoneFn, Op
  <1>7. h[0] = a BY <1>6
  <1>8. \A i \in 1..n : h[i] = Op(h[i - 1], i)
    <2> SUFFICES ASSUME NEW i \in 1..n PROVE h[i] = Op(h[i - 1], i) OBVIOUS
    <2>1. i \in 0..n /\ i # 0 OBVIOUS
    <2> QED BY <1>6, <2>1
  <1> QED BY <1>7, <1>8 DEF h, Op, DoneIs

\* All commands of a transaction.
LEMMA DoneGoes ==
    ASSUME NEW s0, NEW a, NEW c \in Clients, Mid(s0, a.s), a.s.cl[c].multi = TRUE, NEW q, NEW n \in Nat,
           \A i \in 1..n : Queueable(q[i]), NEW env, EnvOK(env)
    PROVE  Mid(s0, (CHOOSE g : DoneFn(g, a, c, q, env, n))[n].s)
  <1> DEFINE f == CHOOSE g : DoneFn(g, a, c, q, env, n)
             P(i) == i <= n => Mid(s0, f[i].s) /\ f[i].s.cl[c].multi = TRUE
             U == {i \in Nat : P(i)}
  <1>1. f[0] = a /\ \A i \in 1..n : f[i] = ExecStep(f[i - 1], c, q[i], env)
    <2>1. DoneIs(f, a, c, q, env, n) BY DoneUnfold
    <2> HIDE DEF f
    <2> QED BY <2>1 DEF DoneIs
  <1> HIDE DEF f
  <1>2. P(0) BY <1>1
  <1>3. ASSUME NEW i \in Nat, P(i) PROVE P(i + 1)
    <2> DEFINE k == i + 1
    <2>1. k \in Nat /\ k = i + 1 /\ k - 1 = i OBVIOUS
    <2> HIDE DEF k
    <2> SUFFICES ASSUME k <= n PROVE Mid(s0, f[k].s) /\ f[k].s.cl[c].multi = TRUE BY DEF k
    <2>2. k \in 1..n /\ Mid(s0, f[i].s) /\ f[i].s.cl[c].multi = TRUE BY <1>3, <2>1
    <2>3. f[k] = ExecStep(f[i], c, q[k], env) /\ Queueable(q[k]) BY <1>1, <2>1, <2>2
    <2> DEFINE b == ExecStep(f[i], c, q[k], env)
    <2>4. Mid(s0, b.s) /\ b.s.cl[c].multi = TRUE BY <2>2, <2>3, ExecStepGoes
    <2> QED BY <2>3, <2>4
  <1> HIDE DEF P
  <1>4. Nat \subseteq U
    <2>1. 0 \in U BY <1>2
    <2>2. \A i \in Nat : i \in U => i + 1 \in U BY <1>3
    <2> HIDE DEF U
    <2> QED BY <2>1, <2>2, NatSetInduction
  <1>5. P(n) BY <1>4
  <1> QED BY <1>5 DEF P, f

\* EXEC
LEMMA ExecMid ==
    ASSUME NEW s0, NEW s, NEW c \in Clients, Mid(s0, s), NEW env, EnvOK(env)
    PROVE  Mid(s0, execCommand(s, c, env))
  <1> DEFINE q == s.cl[c].queue
             n == Len(q)
             u == unwatchAllKeys(s, c)
             a == [s |-> u, must |-> FALSE]
             b == (CHOOSE g : DoneFn(g, a, c, q, env, n))[n]
             d == discardTransaction(b.s, c)
             e == execCommand(s, c, env)
  <1>1. e = IF ~ s.cl[c].multi THEN s
            ELSE IF s.cl[c].cas \/ s.cl[c].exec THEN discardTransaction(s, c)
            ELSE ExecDone(b, c)
    BY DEF execCommand, DoneFn
  <1>2. CASE ~ s.cl[c].multi BY <1>1, <1>2
  <1>3. CASE s.cl[c].multi /\ (s.cl[c].cas \/ s.cl[c].exec)
    <2>1. e = discardTransaction(s, c) BY <1>1, <1>3
    <2> QED BY <2>1, DiscardMid
  <1>4. CASE s.cl[c].multi /\ ~ s.cl[c].cas /\ ~ s.cl[c].exec
    <2>1. e = ExecDone(b, c) BY <1>1, <1>4
    <2>2. ClientOK(s.cl[c]) BY DEF Mid, Sound
    <2>3. s.cl[c].cas = FALSE /\ s.cl[c].multi = TRUE BY <1>4, <2>2 DEF ClientOK, SetsOK
    <2>4. n \in Nat /\ \A i \in 1..n : Queueable(q[i])
      BY <2>2, LenProperties DEF ClientOK, QueueOK, Queueable
    <2>5. Mid(s0, u) /\ u.cl[c].multi = s.cl[c].multi BY <2>3, ExecUnwatchMid
    <2> HIDE DEF u, q, n
    <2>6. Mid(s0, a.s) /\ a.s.cl[c].multi = TRUE BY <2>3, <2>5
    <2> HIDE DEF a
    <2>7. Mid(s0, b.s) BY <2>4, <2>6, DoneGoes
    <2> HIDE DEF b
    <2>8. Mid(s0, d) BY <2>7, DiscardMid
    <2>9. e = d \/ e = Dirty(d) BY <2>1 DEF ExecDone
    <2> HIDE DEF d, e
    <2>10. Good(d) BY <2>8 DEF Mid, Sound, Keyed
    <2>11. Quiet(d, Dirty(d)) BY <2>10, BooksQuiet, Zenon
    <2>12. Mid(s0, Dirty(d)) BY <2>8, <2>11, QuietGoes DEF Goes
    <2> QED BY <2>8, <2>9, <2>12 DEF e
  <1> QED BY <1>2, <1>3, <1>4

\* WATCH, of a client that watches the keys that it watched before the command.
LEMMA WatchMid ==
    ASSUME NEW s0, NEW s, NEW c \in Clients, Mid(s0, s), s.ready = <<>>, NEW k \in Keys,
           s.cl[c].watched = s0.cl[c].watched
    PROVE  Mid(s0, watchCommand(s, c, k))
  <1> DEFINE t == watchCommand(s, c, k)
             r == s.cl[c]
             new == r.watched \cup {k}
             q == [r EXCEPT !.watched = new]
  <1>1. CASE s.cl[c].multi \/ k \in s.cl[c].watched BY <1>1 DEF watchCommand
  <1>2. CASE ~ (s.cl[c].multi \/ k \in s.cl[c].watched)
    <2>1. Sound(s) /\ Keyed(s) /\ IsServer(s) /\ s.slave = FALSE /\ IsClient(r) /\ ClientOK(r)
      BY DEF Mid, Sound, Keyed, Good, IsServer
    <2>2. /\ IsClient(q) /\ q.watched = new /\ q.keys = r.keys /\ q.target = r.target
          /\ q.head = r.head /\ q.blocked = r.blocked /\ q.channels = r.channels
          /\ q.patterns = r.patterns /\ q.pubsub = r.pubsub /\ q.multi = r.multi /\ q.cas = r.cas
          /\ q.exec = r.exec /\ q.queue = r.queue /\ q.stale = r.stale
      <3> HIDE DEF r, new
      <3> QED BY <2>1 DEF IsClient
    <2>3. t = [s EXCEPT !.watching[k] = Append(s.watching[k], c), !.cl[c].watched = new]
      BY <1>2 DEF watchCommand
    <2>4. /\ OwnStep(s, t, c, q) /\ t.blocking = s.blocking /\ t.channels = s.channels
          /\ t.patterns = s.patterns
          /\ t.watching = [s.watching EXCEPT ![k] = Append(s.watching[k], c)]
      <3> HIDE DEF t, new
      <3> QED BY <2>1, <2>2, <2>3 DEF IsServer, OwnStep
    <2> HIDE DEF t, q
    <2>5. Own(s, t, c) /\ t.cl[c] = q BY <2>1, <2>4, OwnStepOwn
    <2>6. WatchersOK(t)
      <3> DEFINE w == s.watching
                 x == t.watching
                 m == [d \in Clients |-> s.cl[d].watched]
                 n == [d \in Clients |-> t.cl[d].watched]
                 D == {k}
      <3>1. ListsOK(w, Keys, m) BY <2>1, ListsAre DEF Sound
      <3>2. \A j \in Keys : x[j] = IF j \in D THEN Append(w[j], c) ELSE w[j]
        BY <2>1, <2>4 DEF IsServer
      <3>3. \A j \in Keys : j \in D => j \notin m[c] BY <1>2
      <3>4. \A j \in Keys : j \in n[c] <=> j \in m[c] \/ j \in D BY <2>2, <2>5
      <3>5. \A d \in Clients : d # c => n[d] = m[d] BY <2>5 DEF Own
      <3> HIDE DEF w, x, m, n, D
      <3>6. Joined(w, Keys, m, c, D, x, n) BY <3>1, <3>2, <3>3, <3>4, <3>5 DEF Joined
      <3>7. ListsOK(x, Keys, n) BY <3>6, ListsJoined
      <3> QED BY <3>7, ListsAre DEF x, n
    <2>7. WaitersOK(t) /\ ChannelsOK(t) /\ PatternsOK(t) BY <2>1, <2>2, <2>4, <2>5, SameListsOK
    <2>8. ClientOK(q)
      <3>1. new \subseteq Keys /\ new # {} BY <2>1 DEF ClientOK, SetsOK
      <3> HIDE DEF r, new
      <3>2. SetsOK(q) BY <2>1, <2>2, <3>1 DEF ClientOK, SetsOK
      <3>3. QueueOK(q) BY <2>1, <2>2 DEF ClientOK, QueueOK
      <3>4. FlagsOK(q) BY <2>1, <2>2, <3>1 DEF ClientOK, FlagsOK
      <3> QED BY <3>2, <3>3, <3>4 DEF ClientOK
    <2>9. Good(t) BY <2>1, <2>5, <2>6, WatchersList DEF Good, Own
    <2>10. Keyed(t) BY <2>1, <2>5, <2>9 DEF Keyed, ReadySeq, KeyOK, Exists, Own
    <2>11. \A d \in Clients : ClientOK(t.cl[d]) BY <2>1, <2>5, <2>8 DEF Sound, Own
    <2>12. Sound(t) BY <2>6, <2>7, <2>10, <2>11 DEF Sound
    <2>13. Told(s0, t)
      <3> SUFFICES ASSUME NEW d \in Clients, NEW j \in s0.cl[d].watched \cap t.cl[d].watched,
                          t.val[j] # s0.val[j]
                   PROVE  j \in t.gone \/ t.cl[d].cas = TRUE
        BY DEF Told
      <3>1. j \in s.cl[d].watched /\ t.cl[d].cas = s.cl[d].cas
        <4>1. CASE d = c BY <2>2, <2>5, <4>1
        <4>2. CASE d # c BY <2>5, <4>2 DEF Own
        <4> QED BY <4>1, <4>2
      <3>2. s.val[j] # s0.val[j] /\ s.gone = t.gone BY <2>5 DEF Own
      <3> QED BY <3>1, <3>2 DEF Mid, Told
    <2>14. ReadyTold(t)
      <3>1. t.ready = <<>> BY <2>5 DEF Own
      <3> QED BY <3>1 DEF ReadyTold, Contains
    <2>15. WaitedReady(t) BY <2>4, <2>5 DEF Mid, WaitedReady, Own, IsList
    <2>16. Mid(s0, t) BY <2>12, <2>13, <2>14, <2>15 DEF Mid
    <2> QED BY <2>16 DEF t
  <1> QED BY <1>1, <1>2

\* call for the commands that are never queued.
LEMMA CallTopMid ==
    ASSUME NEW s0, NEW s, NEW c \in Clients, Mid(s0, s), ~ s.cl[c].blocked, s.ready = <<>>,
           s.cl[c].watched = s0.cl[c].watched, NEW cmd, Known(cmd), cmd.op # "bad", NEW env, EnvOK(env)
    PROVE  Mid(s0, CallTop(s, c, cmd, env))
  <1> DEFINE t == [s EXCEPT !.argv = cmd, !.force = FALSE]
             e == CallTop(s, c, cmd, env)
  <1>1. Good(s) BY DEF Mid, Sound, Keyed
  <1>2. Quiet(s, t) BY <1>1, BooksQuiet, Zenon
  <1>3. cmd.op = "multi" => e = Propagated(s, multiCommand(t, c)) BY DEF CallTop
  <1>4. cmd.op = "exec" => e = Propagated(s, execCommand(t, c, env)) BY DEF CallTop
  <1>5. cmd.op = "discard" => e = Propagated(s, discardCommand(t, c)) BY DEF CallTop
  <1>6. cmd.op = "watch" => e = Propagated(s, watchCommand(t, c, cmd.k)) BY DEF CallTop
  <1>7. cmd.op \notin NotQueued => e = call(s, c, cmd, env) BY DEF CallTop, NotQueued
  <1> HIDE DEF t, e
  <1>8. Goes(s0, s, t, c) /\ t.cl[c].blocked = s.cl[c].blocked BY <1>2, QuietGoes
  <1>9. Mid(s0, t) /\ ~ t.cl[c].blocked BY <1>8 DEF Goes
  <1>10. t.ready = <<>> /\ t.cl[c].watched = s0.cl[c].watched
    BY <1>2 DEF Quiet, SameReady, Edit, SameClient
  <1>11. \A u : Mid(s0, u) => Mid(s0, Propagated(s, u)) BY PropagatedGoes DEF Goes
  <1>12. CASE cmd.op = "multi"
    <2>1. Mid(s0, multiCommand(t, c)) BY <1>9, MultiMid
    <2> QED BY <1>3, <1>11, <1>12, <2>1 DEF e
  <1>13. CASE cmd.op = "exec"
    <2>1. Mid(s0, execCommand(t, c, env)) BY <1>9, ExecMid
    <2> QED BY <1>4, <1>11, <1>13, <2>1 DEF e
  <1>14. CASE cmd.op = "discard"
    <2>1. Mid(s0, discardTransaction(t, c)) BY <1>9, DiscardMid
    <2>2. Mid(s0, discardCommand(t, c)) BY <1>9, <2>1 DEF discardCommand
    <2> QED BY <1>5, <1>11, <1>14, <2>2 DEF e
  <1>15. CASE cmd.op = "watch"
    <2>1. cmd.k \in Keys BY <1>15 DEF Known, IsCommand
    <2>2. Mid(s0, watchCommand(t, c, cmd.k)) BY <1>9, <1>10, <2>1, WatchMid
    <2> QED BY <1>6, <1>11, <1>15, <2>2 DEF e
  <1>16. CASE cmd.op \notin NotQueued
    <2>1. Queueable(cmd) BY <1>16 DEF Queueable
    <2>2. Goes(s0, s, call(s, c, cmd, env), c) BY <2>1, CallGoes
    <2> QED BY <1>7, <1>16, <2>2 DEF e, Goes
  <1> QED BY <1>12, <1>13, <1>14, <1>15, <1>16 DEF NotQueued

(***************************************************************************)
(* handleClientsBlockedOnLists.                                            *)
(***************************************************************************)

\* What unblockClient does.
Unblocked(s, t, c) ==
    /\ Own(s, t, c) /\ IsClient(t.cl[c])
    /\ t.cl[c] = [[[s.cl[c] EXCEPT !.keys = {}] EXCEPT !.target = None] EXCEPT !.blocked = FALSE]
    /\ t.watching = s.watching /\ t.channels = s.channels /\ t.patterns = s.patterns
    /\ WaitersOK(t) /\ \A k \in Keys : s.blocking[k] = <<>> => t.blocking[k] = <<>>

\* unblockClient
LEMMA UnblockFacts ==
    ASSUME NEW s, IsServer(s), WaitersOK(s), NEW c \in Clients
    PROVE  Unblocked(s, unblockClient(s, c), c)
  <1> DEFINE r == s.cl[c]
             D == r.keys
             t == unblockClient(s, c)
             q == [[[r EXCEPT !.keys = {}] EXCEPT !.target = None] EXCEPT !.blocked = FALSE]
             y == [k \in Keys |-> IF k \in D THEN RemoveFirst(s.blocking[k], c) ELSE s.blocking[k]]
  <1>1. IsClient(r) BY DEF IsServer
  <1>2. IsClient(q) /\ q.keys = {}
    <2> HIDE DEF r
    <2> QED BY <1>1 DEF IsClient
  <1>3. /\ DOMAIN t = DOMAIN s /\ t.slave = s.slave /\ t.val = s.val /\ t.ttl = s.ttl
        /\ t.ready = s.ready /\ t.gone = s.gone /\ t.watching = s.watching
        /\ t.channels = s.channels /\ t.patterns = s.patterns /\ t.blocking = y
        /\ t.cl = [s.cl EXCEPT ![c] = q]
    <2>1. t = [s EXCEPT !.blocking = y, !.cl[c].keys = {}, !.cl[c].target = None,
                        !.cl[c].blocked = FALSE]
      BY DEF unblockClient, IsServer
    <2> HIDE DEF t, y
    <2> QED BY <1>1, <2>1 DEF IsServer
  <1>4. OwnStep(s, t, c, q)
    <2> HIDE DEF t, q
    <2> QED BY <1>2, <1>3 DEF OwnStep, IsServer
  <1> HIDE DEF t, q
  <1>5. Own(s, t, c) /\ t.cl[c] = q BY <1>4, OwnStepOwn
  <1>6. WaitersOK(t)
    <2> DEFINE w == s.blocking
               x == t.blocking
               m == [d \in Clients |-> s.cl[d].keys]
               n == [d \in Clients |-> t.cl[d].keys]
    <2>1. ListsOK(w, Keys, m) BY ListsAre
    <2>2. \A k \in Keys : x[k] = IF k \in D THEN RemoveFirst(w[k], c) ELSE w[k] BY <1>3
    <2>3. m[c] = D /\ n[c] = {} BY <1>2, <1>5
    <2>4. \A d \in Clients : d # c => n[d] = m[d] BY <1>5 DEF Own
    <2> HIDE DEF w, x, m, n, D
    <2>5. \A k \in Keys : k \in D => k \in m[c] BY <2>3
    <2>6. \A k \in Keys : k \in n[c] <=> k \in m[c] /\ k \notin D BY <2>3
    <2>7. ListsOK(x, Keys, n) BY <2>1, <2>2, <2>4, <2>5, <2>6, ListsDrop
    <2> QED BY <2>7, ListsAre DEF x, n
  <1>7. \A k \in Keys : s.blocking[k] = <<>> => t.blocking[k] = <<>>
    <2> SUFFICES ASSUME NEW k \in Keys, s.blocking[k] = <<>> PROVE t.blocking[k] = <<>> OBVIOUS
    <2>1. Listed(<<>>, c, k \in D) BY DEF WaitersOK
    <2>2. k \notin D BY <2>1 DEF Listed
    <2> QED BY <1>3, <2>2
  <1>8. Unblocked(s, t, c) BY <1>2, <1>3, <1>5, <1>6, <1>7 DEF Unblocked, q
  <1> QED BY <1>8 DEF t

\* A list that somebody waits for is ready.
Waits(s, k) == IsList(s, k) /\ s.blocking[k] # <<>> /\ k \notin Stored => Contains(s.ready, k)

\* The clients that wait for the list k are being served; it may be empty.
Serving(s0, s, k) ==
    /\ Good(s) /\ ReadySeq(s) /\ AllOK(s)
    /\ ListAt(s, k) /\ s.ttl[k] \in TTLs /\ s.ttl[k] # "due"
    /\ \A j \in Keys : j # k => KeyOK(s, j) /\ Waits(s, j)
    /\ Told(s0, s) /\ ReadyTold(s) /\ Touched(s, k)

\* At most one key more is ready.
Grows(s, t, k) == t.ready = s.ready \/ (~ Contains(s.ready, k) /\ t.ready = Append(s.ready, k))

\* What that means.
LEMMA GrowsFacts ==
    ASSUME NEW s, NEW t, NEW k \in Keys, ReadySeq(s), Grows(s, t, k)
    PROVE  /\ ReadySeq(t) /\ \A j \in Keys : Contains(s.ready, j) => Contains(t.ready, j)
           /\ \A j \in Keys : Contains(t.ready, j) => Contains(s.ready, j) \/ j = k
           /\ Len(s.ready) \in Nat /\ Len(t.ready) \in Nat /\ Len(t.ready) <= Len(s.ready) + 1
  <1> DEFINE q == s.ready
  <1>1. q \in Seq(Keys) /\ (\A i, j \in 1..Len(q) : q[i] = q[j] => i = j) /\ Len(q) \in Nat
    BY LenProperties DEF ReadySeq
  <1>2. CASE t.ready = q BY <1>1, <1>2 DEF ReadySeq
  <1>3. CASE ~ Contains(q, k) /\ t.ready = Append(q, k)
    <2> HIDE DEF q
    <2>1. /\ Append(q, k) \in Seq(Keys) /\ Len(Append(q, k)) = Len(q) + 1
          /\ \A i, j \in 1..Len(Append(q, k)) : Append(q, k)[i] = Append(q, k)[j] => i = j
          /\ \A x : Contains(Append(q, k), x) <=> Contains(q, x) \/ x = k
      BY <1>1, <1>3, ReadyAppend
    <2> DEFINE e == Append(q, k)
    <2>2. t.ready = e BY <1>3
    <2> HIDE DEF e
    <2>3. e \in Seq(Keys) /\ Len(e) = Len(q) + 1 /\ (\A i, j \in 1..Len(e) : e[i] = e[j] => i = j)
          /\ \A x : Contains(e, x) <=> Contains(q, x) \/ x = k
      BY <2>1 DEF e
    <2>4. ReadySeq(t) BY <2>2, <2>3 DEF ReadySeq
    <2>5. Len(t.ready) \in Nat /\ Len(t.ready) <= Len(q) + 1 BY <1>1, <2>2, <2>3
    <2> QED BY <1>1, <2>2, <2>3, <2>4, <2>5 DEF q
  <1> QED BY <1>2, <1>3 DEF Grows

\* A step on the keys, while k is served.
LEMMA ServingEdit ==
    ASSUME NEW s0, NEW s, NEW t, NEW k \in Keys, Serving(s0, s, k), Edit(s, t), ListAt(t, k),
           t.ttl[k] = s.ttl[k], NEW i \in Keys, Grows(s, t, i), t.ready = s.ready \/ Touched(t, i),
           \A j \in Keys : j # k => /\ KeyOK(t, j) /\ NewList(s, t, j)
                                    /\ t.val[j] = s.val[j] \/ j \in t.gone \/ Touched(t, j)
    PROVE  Serving(s0, t, k)
  <1>1. Good(t) /\ AllOK(t)
    <2>1. AllOK(s) BY DEF Serving
    <2> QED BY <2>1, EditOK DEF Edit
  <1>2. /\ ReadySeq(t) /\ \A j \in Keys : Contains(s.ready, j) => Contains(t.ready, j)
        /\ \A j \in Keys : Contains(t.ready, j) => Contains(s.ready, j) \/ j = i
    <2>1. ReadySeq(s) BY DEF Serving
    <2> QED BY <2>1, GrowsFacts
  <1>3. Touched(t, k)
    <2>1. Touched(s, k) BY DEF Serving
    <2> QED BY <2>1, TouchedStays
  <1>4. t.blocking = s.blocking /\ s.gone \subseteq t.gone
        /\ \A c \in Clients : SameClient(s.cl[c], t.cl[c])
    BY DEF Edit
  <1>5. ASSUME NEW j \in Keys, j # k PROVE Waits(t, j)
    <2>1. Waits(s, j) BY <1>5 DEF Serving
    <2> QED BY <1>2, <1>4, <1>5, <2>1 DEF NewList, Waits
  <1>6. ReadyTold(t)
    <2> SUFFICES ASSUME NEW j \in Keys, Contains(t.ready, j) PROVE Touched(t, j) BY DEF ReadyTold
    <2>1. Contains(s.ready, j) \/ Touched(t, j) BY <1>2
    <2>2. Contains(s.ready, j) => Touched(s, j) BY DEF Serving, ReadyTold
    <2> QED BY <2>1, <2>2, TouchedStays
  <1>7. Told(s0, t)
    <2> SUFFICES ASSUME NEW c \in Clients, NEW j \in s0.cl[c].watched \cap t.cl[c].watched,
                        t.val[j] # s0.val[j]
                 PROVE  j \in t.gone \/ t.cl[c].cas = TRUE
      BY DEF Told
    <2>1. t.cl[c].watched = s.cl[c].watched /\ (s.cl[c].cas = TRUE => t.cl[c].cas = TRUE)
      BY <1>4 DEF SameClient
    <2>2. j \in Keys BY <1>1 DEF AllOK, ClientOK, SetsOK
    <2>3. CASE j = k BY <1>3, <2>3 DEF Touched
    <2>4. CASE j # k /\ t.val[j] = s.val[j]
      <3>1. j \in s.gone \/ s.cl[c].cas = TRUE BY <2>1, <2>4 DEF Serving, Told
      <3> QED BY <1>4, <2>1, <3>1
    <2>5. CASE j # k /\ t.val[j] # s.val[j]
      <3>1. j \in t.gone \/ Touched(t, j) BY <2>2, <2>5
      <3> QED BY <3>1 DEF Touched
    <2> QED BY <2>3, <2>4, <2>5
  <1>8. \A j \in Keys : j # k => KeyOK(t, j) /\ Waits(t, j) BY <1>5
  <1>9. t.ttl[k] \in TTLs /\ t.ttl[k] # "due" BY DEF Serving
  <1> QED BY <1>1, <1>2, <1>3, <1>6, <1>7, <1>8, <1>9 DEF Serving

\* A key that is as before.
LEMMA SameKeyOK ==
    ASSUME NEW s, NEW t, Edit(s, t), NEW j, t.val[j] = s.val[j], t.ttl[j] = s.ttl[j]
    PROVE  (KeyOK(s, j) => KeyOK(t, j)) /\ NewList(s, t, j)
  BY DEF KeyOK, NewList, Exists, IsList

\* A step at the key that is served.
LEMMA ServingHere ==
    ASSUME NEW s0, NEW s, NEW t, NEW k \in Keys, Serving(s0, s, k), At(s, t, k), t.ready = s.ready,
           ListAt(t, k), t.ttl[k] = s.ttl[k]
    PROVE  Serving(s0, t, k)
  <1>1. Edit(s, t) /\ Grows(s, t, k) BY DEF At, Grows
  <1>2. ASSUME NEW j \in Keys, j # k
        PROVE  KeyOK(t, j) /\ NewList(s, t, j) /\ t.val[j] = s.val[j]
    <2>1. t.val[j] = s.val[j] /\ t.ttl[j] = s.ttl[j] BY <1>2 DEF At, Elsewhere
    <2>2. KeyOK(s, j) BY <1>2 DEF Serving
    <2> QED BY <1>1, <2>1, <2>2, SameKeyOK
  <1>3. \A j \in Keys : j # k => /\ KeyOK(t, j) /\ NewList(s, t, j)
                                 /\ t.val[j] = s.val[j] \/ j \in t.gone \/ Touched(t, j)
    BY <1>2
  <1>4. t.ready = s.ready \/ Touched(t, k) OBVIOUS
  <1> QED BY <1>1, <1>3, <1>4, ServingEdit

\* A step of the books.
LEMMA ServingQuiet ==
    ASSUME NEW s0, NEW s, NEW t, NEW k \in Keys, Serving(s0, s, k), Quiet(s, t)
    PROVE  Serving(s0, t, k) /\ Edit(s, t) /\ t.ready = s.ready /\ Good(t)
  <1>1. /\ At(s, t, k) /\ Good(t) /\ IsAt(t, k, s.val[k], s.ttl[k]) /\ t.ready = s.ready
    BY QuietAt
  <1>2. ListAt(t, k) /\ t.ttl[k] = s.ttl[k] BY <1>1 DEF Serving, ListAt, IsAt
  <1> QED BY <1>1, <1>2, ServingHere DEF At

\* The lookup of a destination.
LEMMA ServingLookup ==
    ASSUME NEW s0, NEW s, NEW k \in Keys, Serving(s0, s, k), NEW dst \in Keys
    PROVE  LET t == lookupKeyWrite(s, dst)
           IN  Serving(s0, t, k) /\ Edit(s, t) /\ t.ready = s.ready /\ Good(t)
  <1> DEFINE t == lookupKeyWrite(s, dst)
  <1>1. Good(s) BY DEF Serving
  <1>2. Looked(s, t, dst) BY <1>1, LookupFacts
  <1> HIDE DEF t
  <1>3. CASE t = s
    <2>1. Quiet(s, s) BY <1>1, BooksQuiet, Zenon
    <2> QED BY <1>3, <2>1, ServingQuiet DEF t
  <1>4. CASE t # s
    <2>1. /\ IsAt(t, dst, Absent, "none") /\ dst \in t.gone /\ Edit(s, t) /\ t.ready = s.ready
          /\ Elsewhere(s, t, dst) /\ s.ttl[dst] = "due"
      BY <1>2, <1>4 DEF Looked, SameReady
    <2>2. dst # k BY <2>1 DEF Serving
    <2>3. ListAt(t, k) /\ t.ttl[k] = s.ttl[k]
      <3>1. t.val[k] = s.val[k] /\ t.ttl[k] = s.ttl[k] BY <2>1, <2>2 DEF Elsewhere
      <3> QED BY <3>1 DEF Serving, ListAt
    <2>4. ASSUME NEW j \in Keys, j # k
          PROVE  /\ KeyOK(t, j) /\ NewList(s, t, j)
                 /\ t.val[j] = s.val[j] \/ j \in t.gone \/ Touched(t, j)
      <3>1. CASE j = dst
        <4>1. KeyOK(t, dst) BY <2>1, ValueFacts DEF IsAt, KeyOK, TTLs
        <4>2. ~ IsList(t, dst) BY <2>1, ValueFacts DEF IsAt, IsList
        <4> QED BY <2>1, <3>1, <4>1, <4>2 DEF NewList
      <3>2. CASE j # dst
        <4>1. t.val[j] = s.val[j] /\ t.ttl[j] = s.ttl[j] BY <2>1, <3>2 DEF Elsewhere
        <4>2. KeyOK(s, j) BY <2>4 DEF Serving
        <4> QED BY <2>1, <4>1, <4>2, SameKeyOK
      <3> QED BY <3>1, <3>2
    <2>5. Grows(s, t, k) /\ (t.ready = s.ready \/ Touched(t, k)) BY <2>1 DEF Grows
    <2>6. \A j \in Keys : j # k => /\ KeyOK(t, j) /\ NewList(s, t, j)
                                   /\ t.val[j] = s.val[j] \/ j \in t.gone \/ Touched(t, j)
      BY <2>4
    <2>7. Serving(s0, t, k) BY <2>1, <2>3, <2>5, <2>6, ServingEdit
    <2> QED BY <2>1, <2>7 DEF t, Serving
  <1> QED BY <1>3, <1>4

\* The push to a destination.
LEMMA ServingPush ==
    ASSUME NEW s0, NEW s, NEW k \in Keys, Serving(s0, s, k), NEW dst \in Keys, NEW x,
           ~ WrongType(s, dst)
    PROVE  LET t == rpoplpushHandlePush(s, dst, x)
           IN  Serving(s0, t, k) /\ Edit(s, t) /\ Grows(s, t, dst)
  <1> DEFINE t == rpoplpushHandlePush(s, dst, x)
  <1>1. Good(s) /\ ReadySeq(s) /\ ListAt(s, k) BY DEF Serving
  <1>2. Exists(s, dst) => ListAt(s, dst) /\ IsList(s, dst)
    <2>1. CASE dst = k BY <1>1, <2>1, ValueFacts DEF ListAt, IsList
    <2>2. CASE dst # k
      <3>1. KeyOK(s, dst) BY <2>2 DEF Serving
      <3> QED BY <3>1, ListFacts DEF WrongType
    <2> QED BY <2>1, <2>2
  <1>3. /\ At(s, t, dst) /\ t.gone = s.gone /\ Touched(t, dst)
        /\ ListAt(t, dst) /\ t.val[dst].v # <<>> /\ t.ttl[dst] = s.ttl[dst]
        /\ (Exists(s, dst) /\ t.ready = s.ready) \/ Signalled(s, t, dst)
    BY <1>1, <1>2, HandlePushFacts
  <1> HIDE DEF t
  <1>4. Edit(s, t) /\ Elsewhere(s, t, dst) BY <1>3 DEF At
  <1>5. Grows(s, t, dst) /\ (IsList(s, dst) \/ s.blocking[dst] = <<>> \/ Contains(t.ready, dst))
    <2>1. CASE Exists(s, dst) /\ t.ready = s.ready BY <1>2, <2>1 DEF Grows
    <2>2. CASE Signalled(s, t, dst) BY <1>1, <2>2, SignalledReady DEF Grows
    <2> QED BY <1>3, <2>1, <2>2
  <1>6. ListAt(t, k) /\ t.ttl[k] = s.ttl[k]
    <2>1. CASE dst = k BY <1>3, <2>1
    <2>2. CASE dst # k
      <3>1. t.val[k] = s.val[k] /\ t.ttl[k] = s.ttl[k] BY <1>4, <2>2 DEF Elsewhere
      <3> QED BY <1>1, <3>1 DEF ListAt
    <2> QED BY <2>1, <2>2
  <1>7. ASSUME NEW j \in Keys, j # k
        PROVE  /\ KeyOK(t, j) /\ NewList(s, t, j)
               /\ t.val[j] = s.val[j] \/ j \in t.gone \/ Touched(t, j)
    <2>1. CASE j = dst
      <3>1. KeyOK(s, dst) BY <1>7, <2>1 DEF Serving
      <3>2. KeyOK(t, dst) BY <1>3, <3>1, ListIsValue DEF KeyOK
      <3>3. NewList(s, t, dst) BY <1>4, <1>5 DEF NewList, Edit
      <3> QED BY <1>3, <2>1, <3>2, <3>3
    <2>2. CASE j # dst
      <3>1. t.val[j] = s.val[j] /\ t.ttl[j] = s.ttl[j] BY <1>4, <2>2 DEF Elsewhere
      <3>2. KeyOK(s, j) BY <1>7 DEF Serving
      <3> QED BY <1>4, <3>1, <3>2, SameKeyOK
    <2> QED BY <2>1, <2>2
  <1>8. \A j \in Keys : j # k => /\ KeyOK(t, j) /\ NewList(s, t, j)
                                 /\ t.val[j] = s.val[j] \/ j \in t.gone \/ Touched(t, j)
    BY <1>7
  <1>9. t.ready = s.ready \/ Touched(t, dst) BY <1>3
  <1>10. Serving(s0, t, k) BY <1>4, <1>5, <1>6, <1>8, <1>9, ServingEdit
  <1> QED BY <1>4, <1>5, <1>10 DEF t

\* A client that was served has left the lists.
LEMMA ServingUnblock ==
    ASSUME NEW s0, NEW s, NEW k \in Keys, Serving(s0, s, k), NEW c \in Clients
    PROVE  LET t == unblockClient(s, c) IN Serving(s0, t, k) /\ Unblocked(s, t, c)
  <1> DEFINE t == unblockClient(s, c)
             r == s.cl[c]
             q == t.cl[c]
  <1>1. IsServer(s) /\ s.slave = FALSE /\ WaitersOK(s) /\ IsClient(r) /\ ClientOK(r) /\ AllOK(s)
    BY DEF Serving, Good, AllOK, IsServer
  <1>2. Unblocked(s, t, c) BY <1>1, UnblockFacts
  <1> HIDE DEF t
  <1>3. /\ Own(s, t, c) /\ IsClient(q) /\ WaitersOK(t)
        /\ q = [[[r EXCEPT !.keys = {}] EXCEPT !.target = None] EXCEPT !.blocked = FALSE]
        /\ t.watching = s.watching /\ t.channels = s.channels /\ t.patterns = s.patterns
        /\ \A j \in Keys : s.blocking[j] = <<>> => t.blocking[j] = <<>>
    BY <1>2 DEF Unblocked
  <1>4. /\ SameRest(r, q) /\ q.keys = {} /\ q.target = None /\ q.head = r.head /\ q.blocked = FALSE
    <2> HIDE DEF q, r
    <2> QED BY <1>1, <1>3 DEF IsClient, SameRest, SameTx
  <1>5. q.watched = r.watched /\ q.cas = r.cas /\ q.channels = r.channels /\ q.patterns = r.patterns
    BY <1>4 DEF SameRest, SameTx
  <1>6. \A d \in Clients : d # c => t.cl[d] = s.cl[d] BY <1>3 DEF Own
  <1>7. \A d \in Clients : /\ t.cl[d].watched = s.cl[d].watched /\ t.cl[d].cas = s.cl[d].cas
                           /\ t.cl[d].channels = s.cl[d].channels /\ t.cl[d].patterns = s.cl[d].patterns
    BY <1>5, <1>6
  <1>8. ClientOK(q)
    <2> HIDE DEF q, r
    <2>1. SetsOK(q) BY <1>1, <1>4 DEF ClientOK, SetsOK, SameRest, SameTx
    <2>2. QueueOK(q) BY <1>1, <1>4 DEF ClientOK, QueueOK, SameRest, SameTx
    <2>3. FlagsOK(q) BY <1>1, <1>4 DEF ClientOK, FlagsOK, SameRest, SameTx
    <2> QED BY <2>1, <2>2, <2>3 DEF ClientOK
  <1>9. AllOK(t)
    <2>1. WatchersOK(t) BY <1>1, <1>3, <1>7 DEF AllOK, WatchersOK
    <2>2. ChannelsOK(t) BY <1>1, <1>3, <1>7 DEF AllOK, ChannelsOK
    <2>3. PatternsOK(t) BY <1>1, <1>3, <1>7 DEF AllOK, PatternsOK
    <2>4. \A d \in Clients : ClientOK(t.cl[d]) BY <1>1, <1>6, <1>8 DEF AllOK
    <2> QED BY <1>3, <2>1, <2>2, <2>3, <2>4 DEF AllOK
  <1>10. Good(t) BY <1>1, <1>3, <1>9, WatchersList DEF Good, Own, AllOK
  <1>11. t.val = s.val /\ t.ttl = s.ttl /\ t.ready = s.ready /\ t.gone = s.gone BY <1>3 DEF Own
  <1>12. ReadySeq(t) /\ ListAt(t, k) /\ t.ttl[k] \in TTLs /\ t.ttl[k] # "due"
    BY <1>11 DEF Serving, ReadySeq, ListAt
  <1>13. \A j \in Keys : j # k => KeyOK(t, j) /\ Waits(t, j)
    BY <1>3, <1>11 DEF Serving, KeyOK, Exists, Waits, IsList
  <1>14. Told(s0, t) BY <1>7, <1>11 DEF Serving, Told
  <1>15. \A j : Touched(s, j) => Touched(t, j) BY <1>7 DEF Touched
  <1>16. ReadyTold(t) /\ Touched(t, k) BY <1>11, <1>15 DEF Serving, ReadyTold
  <1>17. Serving(s0, t, k) BY <1>9, <1>10, <1>12, <1>13, <1>14, <1>16 DEF Serving
  <1> QED BY <1>2, <1>17 DEF t

\* While k is served: t is s after a step on keys that makes at most one key ready.
ServeStep(s0, s, t, k) ==
    /\ Serving(s0, t, k) /\ Edit(s, t)
    /\ (t.ready = s.ready \/ \E j \in Keys : Grows(s, t, j))

\* serveClientBlockedOnList
LEMMA ServeClient ==
    ASSUME NEW s0, NEW s, NEW k \in Keys, Serving(s0, s, k), NEW c \in Clients,
           NEW dst \in Keys \cup {None}, NEW x, NEW head \in BOOLEAN
    PROVE  ServeStep(s0, s, serveClientBlockedOnList(s, c, k, dst, x, head), k)
  <1> DEFINE t == lookupKeyWrite(s, dst)
             e == serveClientBlockedOnList(s, c, k, dst, x, head)
  <1>1. Good(s) BY DEF Serving
  <1>2. CASE dst = None
    <2> DEFINE y == Command(IF head THEN "lpop" ELSE "rpop", k, None, 0)
               a == propagate(s, y)
    <2>1. e = Got(a, c, x) BY <1>2 DEF serveClientBlockedOnList
    <2> HIDE DEF y, e
    <2>2. Quiet(s, a) BY <1>1, BooksQuiet, Zenon
    <2> HIDE DEF a
    <2>3. Serving(s0, a, k) /\ Edit(s, a) /\ a.ready = s.ready /\ Good(a) BY <2>2, ServingQuiet
    <2>4. Quiet(a, e) BY <2>1, <2>3, GotQuiet
    <2>5. Serving(s0, e, k) /\ Edit(a, e) /\ e.ready = a.ready BY <2>3, <2>4, ServingQuiet
    <2>6. Edit(s, e) BY <2>3, <2>5, EditTrans
    <2> QED BY <2>3, <2>5, <2>6 DEF ServeStep, e
  <1>3. CASE dst # None /\ WrongType(t, dst)
    <2>1. e = Pushed(t, k, x, head) BY <1>3 DEF serveClientBlockedOnList
    <2>2. Serving(s0, t, k) /\ Edit(s, t) /\ t.ready = s.ready /\ Good(t) BY <1>3, ServingLookup
    <2> HIDE DEF t, e
    <2>3. ListAt(t, k) BY <2>2 DEF Serving
    <2>4. /\ Edit(t, e) /\ Elsewhere(t, e, k) /\ SameReady(t, e) /\ ListAt(e, k)
          /\ e.ttl[k] = t.ttl[k]
      BY <2>1, <2>2, <2>3, PushedFacts
    <2>5. Serving(s0, e, k) BY <2>2, <2>4, ServingHere DEF At, SameReady
    <2>6. Edit(s, e) BY <2>2, <2>4, EditTrans
    <2> QED BY <2>2, <2>4, <2>5, <2>6 DEF ServeStep, SameReady, e
  <1>4. CASE dst # None /\ ~ WrongType(t, dst)
    <2> DEFINE y == Command("rpop", k, None, 0)
               z == Command("lpush", dst, None, x)
               a == propagate(t, y)
               b == rpoplpushHandlePush(a, dst, x)
    <2>1. e = propagate(b, z) BY <1>4 DEF serveClientBlockedOnList
    <2>2. Serving(s0, t, k) /\ Edit(s, t) /\ t.ready = s.ready /\ Good(t) BY <1>4, ServingLookup
    <2> HIDE DEF t, e, y, z
    <2>3. Quiet(t, a) BY <2>2, BooksQuiet, Zenon
    <2> HIDE DEF a
    <2>4. Serving(s0, a, k) /\ Edit(t, a) /\ a.ready = t.ready BY <2>2, <2>3, ServingQuiet
    <2>5. ~ WrongType(a, dst) BY <1>4, <2>3 DEF Quiet, SameKeys, WrongType, Exists, IsList
    <2>6. Serving(s0, b, k) /\ Edit(a, b) /\ Grows(a, b, dst) BY <1>4, <2>4, <2>5, ServingPush
    <2> HIDE DEF b
    <2>7. Good(b) BY <2>6 DEF Serving
    <2>8. Quiet(b, e) BY <2>1, <2>7, BooksQuiet, Zenon
    <2>9. Serving(s0, e, k) /\ Edit(b, e) /\ e.ready = b.ready BY <2>6, <2>8, ServingQuiet
    <2>10. Edit(s, a) BY <2>2, <2>4, EditTrans
    <2>11. Edit(s, b) BY <2>6, <2>10, EditTrans
    <2>12. Edit(s, e) BY <2>9, <2>11, EditTrans
    <2>13. Grows(s, e, dst) BY <2>2, <2>4, <2>6, <2>9 DEF Grows
    <2> QED BY <1>4, <2>9, <2>12, <2>13 DEF ServeStep, e
  <1> QED BY <1>2, <1>3, <1>4

\* The clients that are blocked, and what bounds the steps that are left: each
\* step takes a key off the list of ready keys, and each key that gets ready
\* meanwhile is there because a client is not blocked any more.
Blocked(s) == {c \in Clients : s.cl[c].blocked = TRUE}
Count(s) == Len(s.ready) + Cardinality(Blocked(s))

\* What one iteration does.
Served(s0, s, t, k, c) ==
    /\ Serving(s0, t, k) /\ t.cl[c].keys = {} /\ Count(t) <= Count(s) /\ Count(t) \in Nat
    /\ \A d \in Clients : d # c => t.cl[d].keys = s.cl[d].keys

\* The blocked clients are finitely many.
LEMMA CountType ==
    ASSUME NEW s, ReadySeq(s)
    PROVE  /\ Count(s) \in Nat /\ Len(s.ready) \in Nat /\ Cardinality(Blocked(s)) \in Nat
           /\ IsFiniteSet(Blocked(s)) /\ Cardinality(Blocked(s)) <= Cardinality(Clients)
  <1>1. IsFiniteSet(Clients) /\ Blocked(s) \in SUBSET Clients BY ServerAssumption DEF Blocked
  <1>2. IsFiniteSet(Blocked(s)) /\ Cardinality(Blocked(s)) <= Cardinality(Clients)
    BY <1>1, FS_Subset
  <1>3. Cardinality(Blocked(s)) \in Nat BY <1>2, FS_CardinalityType
  <1>4. Len(s.ready) \in Nat BY LenProperties DEF ReadySeq
  <1> QED BY <1>2, <1>3, <1>4 DEF Count

\* One iteration for a client that waits for k, when the list is not empty.
LEMMA ServeOneFacts ==
    ASSUME NEW s0, NEW s, NEW k \in Keys, Serving(s0, s, k), NEW c \in Clients, k \in s.cl[c].keys,
           s.val[k].v # <<>>
    PROVE  Served(s0, s, ServeOne(s, k, c), k, c)
  <1> DEFINE r == s.cl[c]
             head == r.head
             dst == r.target
             x == FirstOf(s.val[k].v, head)
             p == Popped(s, k, head)
             u == unblockClient(p, c)
             e == serveClientBlockedOnList(u, c, k, dst, x, head)
  <1>1. ServeOne(s, k, c) = e BY DEF ServeOne
  <1>2. Good(s) /\ ListAt(s, k) /\ ReadySeq(s) /\ ClientOK(r) BY DEF Serving, AllOK
  <1>3. head \in BOOLEAN /\ dst \in Keys \cup {None} /\ r.blocked = TRUE
    BY <1>2 DEF ClientOK, SetsOK, FlagsOK
  <1> HIDE DEF x, head, dst
  <1>4. /\ Edit(s, p) /\ Elsewhere(s, p, k) /\ SameReady(s, p) /\ ListAt(p, k)
        /\ p.ttl[k] = s.ttl[k]
    BY <1>2, <1>3, PoppedFacts
  <1> HIDE DEF p
  <1>5. Serving(s0, p, k) BY <1>4, ServingHere DEF At, SameReady
  <1>6. Serving(s0, u, k) /\ Unblocked(p, u, c) BY <1>5, ServingUnblock
  <1> HIDE DEF u
  <1>7. ServeStep(s0, u, e, k) BY <1>3, <1>6, ServeClient
  <1> HIDE DEF e
  <1>8. Serving(s0, e, k) /\ Edit(u, e) BY <1>7 DEF ServeStep
  <1>9. \A d \in Clients : /\ p.cl[d].keys = s.cl[d].keys /\ p.cl[d].blocked = s.cl[d].blocked
                           /\ e.cl[d].keys = u.cl[d].keys /\ e.cl[d].blocked = u.cl[d].blocked
    BY <1>4, <1>8 DEF Edit, SameClient
  <1>10. /\ u.cl[c].keys = {} /\ u.cl[c].blocked = FALSE /\ u.ready = p.ready
         /\ \A d \in Clients : d # c => u.cl[d] = p.cl[d]
    <2>1. IsClient(p.cl[c]) BY <1>5 DEF Serving, Good, IsServer
    <2>2. u.cl[c] = [[[p.cl[c] EXCEPT !.keys = {}] EXCEPT !.target = None] EXCEPT !.blocked = FALSE]
      BY <1>6 DEF Unblocked
    <2> DEFINE a == p.cl[c]
    <2> HIDE DEF a
    <2>3. IsClient(a) /\ u.cl[c] = [[[a EXCEPT !.keys = {}] EXCEPT !.target = None] EXCEPT !.blocked = FALSE]
      BY <2>1, <2>2 DEF a
    <2>4. u.cl[c].keys = {} /\ u.cl[c].blocked = FALSE BY <2>3 DEF IsClient
    <2> QED BY <1>6, <2>4 DEF Unblocked, Own
  <1>11. e.cl[c].keys = {} /\ \A d \in Clients : d # c => e.cl[d].keys = s.cl[d].keys
    BY <1>9, <1>10
  <1>12. Blocked(e) = Blocked(s) \ {c} /\ c \in Blocked(s) BY <1>3, <1>9, <1>10 DEF Blocked
  <1>13. Len(e.ready) <= Len(s.ready) + 1 /\ Len(s.ready) \in Nat /\ Len(e.ready) \in Nat
    <2>1. u.ready = s.ready BY <1>4, <1>10 DEF SameReady
    <2>2. Len(s.ready) \in Nat BY <1>2, CountType
    <2>3. CASE e.ready = u.ready BY <2>1, <2>2, <2>3
    <2>4. CASE \E j \in Keys : Grows(u, e, j)
      <3>1. PICK j \in Keys : Grows(u, e, j) BY <2>4
      <3>2. ReadySeq(u) BY <1>6 DEF Serving
      <3>3. Len(e.ready) \in Nat /\ Len(e.ready) <= Len(u.ready) + 1 BY <3>1, <3>2, GrowsFacts
      <3> QED BY <2>1, <2>2, <3>3
    <2> QED BY <1>7, <2>3, <2>4 DEF ServeStep
  <1>14. Count(e) <= Count(s) /\ Count(e) \in Nat
    <2> DEFINE B == Blocked(s)
    <2>1. IsFiniteSet(B) /\ Cardinality(B) \in Nat BY <1>2, CountType
    <2>2. Blocked(e) = B \ {c} /\ c \in B BY <1>12
    <2> HIDE DEF B
    <2>3. Cardinality(B \ {c}) = Cardinality(B) - 1 BY <2>1, <2>2, FS_RemoveElement
    <2>4. IsFiniteSet(B \ {c}) BY <2>1, FS_RemoveElement
    <2>5. Cardinality(B \ {c}) \in Nat BY <2>4, FS_CardinalityType
    <2>6. Count(e) = Len(e.ready) + Cardinality(B \ {c}) BY <2>2 DEF Count
    <2>7. Count(s) = Len(s.ready) + Cardinality(B) BY DEF Count, B
    <2> QED BY <1>13, <2>1, <2>3, <2>5, <2>6, <2>7
  <1>15. Served(s0, s, e, k, c) BY <1>8, <1>11, <1>14 DEF Served
  <1> QED BY <1>1, <1>15

\* A step on keys that makes no key ready.
LEMMA CountSame ==
    ASSUME NEW s, NEW t, Edit(s, t), t.ready = s.ready
    PROVE  Count(t) = Count(s)
  <1>1. \A c \in Clients : t.cl[c].blocked = s.cl[c].blocked BY DEF Edit, SameClient
  <1>2. Blocked(t) = Blocked(s) BY <1>1 DEF Blocked
  <1> QED BY <1>2 DEF Count

ServedFn(f, t, k, q, n) ==
    f = [i \in 0..n |-> IF i = 0 THEN t ELSE ServeOne(f[i - 1], k, q[i])]

\* The clients that wait for a key, one after the other.
LEMMA ServedUnfold ==
    ASSUME NEW t, NEW k, NEW q, NEW n \in Nat
    PROVE  LET f == CHOOSE g : ServedFn(g, t, k, q, n)
           IN  f[0] = t /\ \A i \in 1..n : f[i] = ServeOne(f[i - 1], k, q[i])
  <1> DEFINE Op(x, i) == ServeOne(x, k, q[i])
             Is(f, m) == f = [i \in 0..m |-> IF i = 0 THEN t ELSE Op(f[i - 1], i)]
             Has(m) == \E f : Is(f, m)
             T == {m \in Nat : Has(m)}
             h == CHOOSE g : ServedFn(g, t, k, q, n)
  <1> HIDE DEF Op
  <1>1. Has(0)
    <2> DEFINE g == [i \in 0..0 |-> t]
    <2>1. Is(g, 0) OBVIOUS
    <2> HIDE DEF g, Is
    <2> QED BY <2>1
  <1>2. ASSUME NEW m \in Nat, Has(m) PROVE Has(m + 1)
    <2>1. PICK f : Is(f, m) BY <1>2
    <2> DEFINE g == [i \in 0..(m + 1) |-> IF i = m + 1 THEN Op(f[m], m + 1) ELSE f[i]]
    <2>2. \A i \in 0..(m + 1) : g[i] = IF i = 0 THEN t ELSE Op(g[i - 1], i)
      <3> SUFFICES ASSUME NEW i \in 0..(m + 1) PROVE g[i] = IF i = 0 THEN t ELSE Op(g[i - 1], i)
        OBVIOUS
      <3>1. CASE i = m + 1 BY <3>1
      <3>2. CASE i \in 0..m
        <4>1. g[i] = f[i] /\ (i # 0 => g[i - 1] = f[i - 1]) BY <3>2
        <4>2. f[i] = IF i = 0 THEN t ELSE Op(f[i - 1], i) BY <2>1, <3>2
        <4> QED BY <4>1, <4>2
      <3> QED BY <3>1, <3>2
    <2>3. Is(g, m + 1) BY <2>2
    <2> HIDE DEF g, Is
    <2> QED BY <2>3
  <1> HIDE DEF Has
  <1>3. Nat \subseteq T
    <2>1. 0 \in T BY <1>1
    <2>2. \A m \in Nat : m \in T => m + 1 \in T BY <1>2
    <2> HIDE DEF T
    <2> QED BY <2>1, <2>2, NatSetInduction
  <1>4. \E g : ServedFn(g, t, k, q, n) BY <1>3 DEF Op, Has, ServedFn
  <1>5. ServedFn(h, t, k, q, n) BY <1>4
  <1> HIDE DEF h
  <1>6. Is(h, n) BY <1>5 DEF ServedFn, Op
  <1>7. h[0] = t BY <1>6
  <1>8. \A i \in 1..n : h[i] = Op(h[i - 1], i)
    <2> SUFFICES ASSUME NEW i \in 1..n PROVE h[i] = Op(h[i - 1], i) OBVIOUS
    <2>1. i \in 0..n /\ i # 0 OBVIOUS
    <2> QED BY <1>6, <2>1
  <1> QED BY <1>7, <1>8 DEF h, Op

\* The client comes after the first i of the n clients in q.
Behind(q, i, n, d) == \E j \in 1..n : j > i /\ q[j] = d

\* The first i of the clients in q were served, or the list was empty before.
ServedUpTo(s0, t, s, k, q, i, n) ==
    /\ Serving(s0, s, k) /\ Count(t) \in Nat /\ Count(s) \in Nat /\ Count(s) <= Count(t)
    /\ (s.val[k].v = <<>> \/ \A d \in Clients : k \in s.cl[d].keys <=> Behind(q, i, n, d))

\* One client more.
LEMMA ServedNext ==
    ASSUME NEW s0, NEW t, NEW s, NEW k \in Keys, NEW q, NEW n \in Nat, NEW i \in Nat, NEW m \in 1..n,
           m = i + 1, \A j \in 1..n : q[j] \in Clients,
           \A a, b \in 1..n : q[a] = q[b] => a = b, ServedUpTo(s0, t, s, k, q, i, n)
    PROVE  ServedUpTo(s0, t, ServeOne(s, k, q[m]), k, q, m, n)
  <1> DEFINE c == q[m]
             e == ServeOne(s, k, c)
  <1>1. CASE s.val[k].v = <<>>
    <2>1. e = s BY <1>1 DEF ServeOne
    <2> QED BY <1>1, <2>1 DEF ServedUpTo
  <1>2. CASE s.val[k].v # <<>>
    <2>1. /\ Serving(s0, s, k) /\ c \in Clients
          /\ \A d \in Clients : k \in s.cl[d].keys <=> Behind(q, i, n, d)
      BY <1>2 DEF ServedUpTo
    <2>2. Behind(q, i, n, c) BY DEF Behind
    <2>3. k \in s.cl[c].keys BY <2>1, <2>2
    <2> HIDE DEF c
    <2>4. Served(s0, s, e, k, c) BY <1>2, <2>1, <2>3, ServeOneFacts
    <2> HIDE DEF e
    <2>5. Count(e) \in Nat /\ Count(e) <= Count(t) /\ Count(t) \in Nat /\ Serving(s0, e, k)
      BY <2>4 DEF Served, ServedUpTo
    <2>6. ASSUME NEW d \in Clients PROVE k \in e.cl[d].keys <=> Behind(q, m, n, d)
      <3>1. CASE d = c
        <4>1. e.cl[d].keys = {} BY <2>4, <3>1 DEF Served
        <4>2. ~ Behind(q, m, n, d) BY <3>1 DEF Behind, c
        <4> QED BY <4>1, <4>2
      <3>2. CASE d # c
        <4>1. e.cl[d].keys = s.cl[d].keys BY <2>4, <3>2 DEF Served
        <4>2. Behind(q, m, n, d) <=> Behind(q, i, n, d)
          <5>1. \A j \in 1..n : q[j] = d => (j > m <=> j > i) BY <3>2 DEF c
          <5> QED BY <5>1 DEF Behind
        <4> QED BY <2>1, <4>1, <4>2
      <3> QED BY <3>1, <3>2
    <2>7. ServedUpTo(s0, t, e, k, q, m, n) BY <2>5, <2>6 DEF ServedUpTo
    <2> QED BY <2>7 DEF e, c
  <1> QED BY <1>1, <1>2

\* All of them.
LEMMA ServedAll ==
    ASSUME NEW s0, NEW t, NEW k \in Keys, NEW q, NEW n \in Nat, \A j \in 1..n : q[j] \in Clients,
           \A a, b \in 1..n : q[a] = q[b] => a = b, ServedUpTo(s0, t, t, k, q, 0, n)
    PROVE  ServedUpTo(s0, t, (CHOOSE g : ServedFn(g, t, k, q, n))[n], k, q, n, n)
  <1> DEFINE f == CHOOSE g : ServedFn(g, t, k, q, n)
             P(i) == i <= n => ServedUpTo(s0, t, f[i], k, q, i, n)
             U == {i \in Nat : P(i)}
  <1>1. f[0] = t /\ \A i \in 1..n : f[i] = ServeOne(f[i - 1], k, q[i]) BY ServedUnfold
  <1> HIDE DEF f
  <1>2. P(0) BY <1>1
  <1>3. ASSUME NEW i \in Nat, P(i) PROVE P(i + 1)
    <2> DEFINE m == i + 1
    <2>1. m \in Nat /\ m = i + 1 /\ m - 1 = i OBVIOUS
    <2> HIDE DEF m
    <2> SUFFICES ASSUME m <= n PROVE ServedUpTo(s0, t, f[m], k, q, m, n) BY DEF m
    <2>2. m \in 1..n /\ ServedUpTo(s0, t, f[i], k, q, i, n) BY <1>3, <2>1
    <2>3. f[m] = ServeOne(f[i], k, q[m]) BY <1>1, <2>1, <2>2
    <2> DEFINE s == f[i]
    <2>4. ServedUpTo(s0, t, s, k, q, i, n) BY <2>2
    <2> HIDE DEF s
    <2>5. ServedUpTo(s0, t, ServeOne(s, k, q[m]), k, q, m, n) BY <2>1, <2>2, <2>4, ServedNext
    <2> QED BY <2>3, <2>5 DEF s
  <1> HIDE DEF P
  <1>4. Nat \subseteq U
    <2>1. 0 \in U BY <1>2
    <2>2. \A i \in Nat : i \in U => i + 1 \in U BY <1>3
    <2> HIDE DEF U
    <2> QED BY <2>1, <2>2, NatSetInduction
  <1>5. P(n) BY <1>4
  <1>6. ServedUpTo(s0, t, f[n], k, q, n, n) BY <1>5 DEF P
  <1> QED BY <1>6 DEF f

\* The clients that wait for a key are in its list once.
LEMMA WaitersDistinct ==
    ASSUME NEW s, WaitersOK(s), NEW k \in Keys
    PROVE  LET q == s.blocking[k]
           IN  /\ q \in Seq(Clients) /\ Len(q) \in Nat /\ \A j \in 1..Len(q) : q[j] \in Clients
               /\ \A a, b \in 1..Len(q) : q[a] = q[b] => a = b
               /\ \A d \in Clients : k \in s.cl[d].keys <=> Behind(q, 0, Len(q), d)
               /\ (\A d \in Clients : k \notin s.cl[d].keys) => q = <<>>
  <1> DEFINE q == s.blocking[k]
  <1>1. q \in Seq(Clients) /\ \A d \in Clients : Listed(q, d, k \in s.cl[d].keys)
    BY DEF WaitersOK
  <1> HIDE DEF q
  <1>2. Len(q) \in Nat /\ \A j \in 1..Len(q) : q[j] \in Clients
    BY <1>1, LenProperties, ElementOfSeq
  <1>3. \A d \in Clients : k \in s.cl[d].keys <=> \E j \in 1..Len(q) : q[j] = d
    BY <1>1 DEF Listed
  <1>4. \A d \in Clients : k \in s.cl[d].keys <=> Behind(q, 0, Len(q), d)
    <2>1. \A j \in 1..Len(q) : j > 0 BY <1>2
    <2> QED BY <1>3, <2>1 DEF Behind
  <1>5. ASSUME NEW a \in 1..Len(q), NEW b \in 1..Len(q), q[a] = q[b] PROVE a = b
    <2> DEFINE d == q[a]
    <2>1. d \in Clients /\ q[a] = d /\ q[b] = d BY <1>2, <1>5
    <2> HIDE DEF d
    <2>2. Listed(q, d, TRUE) BY <1>1, <1>3, <2>1 DEF Listed
    <2>3. PICK i \in 1..Len(q) : \A j \in 1..Len(q) : q[j] = d <=> j = i BY <2>2 DEF Listed
    <2> QED BY <2>1, <2>3
  <1>6. ASSUME \A d \in Clients : k \notin s.cl[d].keys PROVE q = <<>>
    <2>1. ~ \E j \in 1..Len(q) : TRUE BY <1>2, <1>3, <1>6
    <2>2. Len(q) = 0 BY <1>2, <2>1
    <2> QED BY <1>1, <2>2, EmptySeq
  <1> QED BY <1>1, <1>2, <1>4, <1>5, <1>6 DEF q

\* The list of ready keys without the first one.
LEMMA ReadyTail ==
    ASSUME NEW q \in Seq(Keys), q # <<>>, \A i, j \in 1..Len(q) : q[i] = q[j] => i = j
    PROVE  /\ Head(q) \in Keys /\ Contains(q, Head(q)) /\ Len(q) \in Nat
           /\ Tail(q) \in Seq(Keys) /\ Len(Tail(q)) = Len(q) - 1 /\ Len(Tail(q)) \in Nat
           /\ \A i, j \in 1..Len(Tail(q)) : Tail(q)[i] = Tail(q)[j] => i = j
           /\ \A x : Contains(Tail(q), x) => Contains(q, x)
           /\ \A x : Contains(q, x) => x = Head(q) \/ Contains(Tail(q), x)
  <1> DEFINE n == Len(q)
             r == Tail(q)
  <1>1. /\ n \in Nat /\ n >= 1 /\ r \in Seq(Keys) /\ Len(r) = n - 1
        /\ \A i \in 1..(n - 1) : r[i] = q[i + 1]
        /\ Head(q) = q[1] /\ q[1] \in Keys
    <2>1. n \in Nat /\ (n = 0 => q = <<>>) BY LenProperties, EmptySeq
    <2>2. Head(q) = q[1] /\ Head(q) \in Keys /\ r \in Seq(Keys) /\ Len(r) = n - 1
          /\ \A i \in 1..(n - 1) : r[i] = q[i + 1]
      BY <2>1, HeadTailProperties
    <2> QED BY <2>1, <2>2
  <1> HIDE DEF n, r
  <1>2. \A i, j \in 1..n : q[i] = q[j] => i = j BY DEF n
  <1>3. \A i, j \in 1..(n - 1) : r[i] = r[j] => i = j
    <2> SUFFICES ASSUME NEW i \in 1..(n - 1), NEW j \in 1..(n - 1), r[i] = r[j] PROVE i = j OBVIOUS
    <2>1. i + 1 \in 1..n /\ j + 1 \in 1..n /\ q[i + 1] = q[j + 1] BY <1>1
    <2>2. i + 1 = j + 1 BY <1>2, <2>1
    <2> QED BY <2>2
  <1>4. ASSUME NEW x, Contains(r, x) PROVE Contains(q, x)
    <2>1. PICK i \in 1..Len(r) : r[i] = x BY <1>4 DEF Contains
    <2>2. i + 1 \in 1..n /\ q[i + 1] = x BY <1>1, <2>1
    <2> QED BY <2>2 DEF Contains, n
  <1>5. ASSUME NEW x, Contains(q, x) PROVE x = Head(q) \/ Contains(r, x)
    <2>1. PICK i \in 1..n : q[i] = x BY <1>5 DEF Contains, n
    <2>2. CASE i = 1 BY <1>1, <2>1, <2>2
    <2>3. CASE i # 1
      <3> DEFINE j == i - 1
      <3>1. j \in 1..(n - 1) /\ j + 1 = i BY <1>1, <2>1, <2>3
      <3> HIDE DEF j
      <3>2. r[j] = x BY <1>1, <2>1, <3>1
      <3> QED BY <1>1, <3>1, <3>2 DEF Contains
    <2> QED BY <2>2, <2>3
  <1>6. 1 \in 1..n /\ Contains(q, Head(q)) BY <1>1 DEF Contains, n
  <1> QED BY <1>1, <1>3, <1>4, <1>5, <1>6 DEF n, r

\* The key k was taken off the list of ready keys; its watchers were told.
Taken(s0, s, k) ==
    /\ Sound(s) /\ Told(s0, s) /\ ReadyTold(s) /\ Touched(s, k)
    /\ \A j \in Keys : j # k => Waits(s, j)

\* The first of the ready keys is taken.
LEMMA TakeFacts ==
    ASSUME NEW s0, NEW s, Mid(s0, s), s.ready # <<>>
    PROVE  LET t == [s EXCEPT !.ready = Tail(@)]
           IN  /\ Head(s.ready) \in Keys /\ Taken(s0, t, Head(s.ready))
               /\ Count(t) \in Nat /\ Count(s) \in Nat /\ Count(t) = Count(s) - 1
  <1> DEFINE t == [s EXCEPT !.ready = Tail(@)]
             q == s.ready
             k == Head(q)
  <1>1. Sound(s) /\ Good(s) /\ IsServer(s) /\ ReadySeq(s) BY DEF Mid, Sound, Keyed, Good
  <1>2. /\ k \in Keys /\ Contains(q, k) /\ Len(q) \in Nat
        /\ Tail(q) \in Seq(Keys) /\ Len(Tail(q)) = Len(q) - 1 /\ Len(Tail(q)) \in Nat
        /\ \A i, j \in 1..Len(Tail(q)) : Tail(q)[i] = Tail(q)[j] => i = j
        /\ \A x : Contains(Tail(q), x) => Contains(q, x)
        /\ \A x : Contains(q, x) => x = k \/ Contains(Tail(q), x)
    <2>1. q \in Seq(Keys) /\ q # <<>> /\ \A i, j \in 1..Len(q) : q[i] = q[j] => i = j
      BY <1>1 DEF ReadySeq
    <2> HIDE DEF q
    <2> QED BY <2>1, ReadyTail
  <1>3. /\ DOMAIN t = DOMAIN s /\ t.slave = s.slave /\ t.cl = s.cl /\ t.val = s.val /\ t.ttl = s.ttl
        /\ t.watching = s.watching /\ t.blocking = s.blocking /\ t.channels = s.channels
        /\ t.patterns = s.patterns /\ t.gone = s.gone /\ t.ready = Tail(q)
    BY <1>1 DEF IsServer
  <1> HIDE DEF t
  <1>4. Edit(s, t)
    <2>1. DOMAIN t.val = Keys /\ DOMAIN t.ttl = Keys /\ s.gone \subseteq t.gone BY <1>1, <1>3 DEF IsServer
    <2> QED BY <1>1, <1>3, <2>1, EditKeys
  <1>5. ReadySeq(t) BY <1>2, <1>3 DEF ReadySeq
  <1>6. Keyed(t)
    <2>1. \A j \in Keys : KeyOK(s, j) BY <1>1 DEF Sound, Keyed
    <2>2. \A j \in Keys : KeyOK(t, j) BY <1>3, <2>1 DEF KeyOK, Exists
    <2> QED BY <1>4, <1>5, <2>2 DEF Keyed, Edit
  <1>7. AllOK(t)
    <2>1. AllOK(s) BY <1>1 DEF Sound, AllOK
    <2> QED BY <1>4, <2>1, EditOK
  <1>8. Sound(t) BY <1>6, <1>7 DEF Sound, AllOK
  <1>9. Told(s0, t) BY <1>3 DEF Mid, Told
  <1>10. ReadyTold(t) /\ Touched(t, k)
    <2>1. \A j \in Keys : Contains(q, j) => Touched(s, j) BY DEF Mid, ReadyTold
    <2>2. \A j \in Keys : Contains(q, j) => Touched(t, j) BY <1>3, <2>1 DEF Touched
    <2> QED BY <1>2, <1>3, <2>2 DEF ReadyTold
  <1>11. ASSUME NEW j \in Keys, j # k PROVE Waits(t, j)
    <2>1. IsList(s, j) /\ s.blocking[j] # <<>> /\ j \notin Stored => Contains(q, j)
      BY DEF Mid, WaitedReady
    <2> QED BY <1>2, <1>3, <1>11, <2>1 DEF Waits, IsList
  <1>12. Taken(s0, t, k) BY <1>8, <1>9, <1>10, <1>11 DEF Taken
  <1>13. Count(t) = Count(s) - 1 /\ Count(t) \in Nat /\ Count(s) \in Nat
    <2>1. Blocked(t) = Blocked(s) BY <1>3 DEF Blocked
    <2>2. Cardinality(Blocked(s)) \in Nat BY <1>1, CountType
    <2> QED BY <1>2, <1>3, <2>1, <2>2 DEF Count
  <1> QED BY <1>2, <1>12, <1>13 DEF t

\* The clients that wait for the key k have been served.
LEMMA ServedMid ==
    ASSUME NEW s0, NEW s, NEW k \in Keys, Serving(s0, s, k),
           s.val[k].v = <<>> \/ s.blocking[k] = <<>>
    PROVE  LET t == DeleteIfEmpty(s, k) IN Mid(s0, t) /\ Count(t) = Count(s)
  <1> DEFINE t == DeleteIfEmpty(s, k)
  <1>1. Good(s) /\ ListAt(s, k) /\ s.ttl[k] \in TTLs /\ ReadySeq(s) /\ AllOK(s) BY DEF Serving
  <1>2. /\ Edit(s, t) /\ Elsewhere(s, t, k) /\ SameReady(s, t) /\ t.gone = s.gone
        /\ KeyOK(t, k) /\ (s.val[k].v # <<>> => t = s)
        /\ (s.val[k].v = <<>> => ~ IsList(t, k))
    BY <1>1, DeleteIfEmptyFacts
  <1> HIDE DEF t
  <1>3. t.ready = s.ready /\ t.blocking = s.blocking BY <1>2 DEF SameReady, Edit
  <1>4. \A j \in Keys : j # k => t.val[j] = s.val[j] /\ t.ttl[j] = s.ttl[j] BY <1>2 DEF Elsewhere
  <1>5. Keyed(t)
    <2>1. ASSUME NEW j \in Keys, j # k PROVE KeyOK(t, j)
      <3>1. KeyOK(s, j) BY <2>1 DEF Serving
      <3> QED BY <1>2, <1>4, <2>1, <3>1, SameKeyOK
    <2>2. \A j \in Keys : KeyOK(t, j) BY <1>2, <2>1
    <2> QED BY <1>1, <1>2, <1>3, <2>2 DEF Keyed, Edit, ReadySeq
  <1>6. AllOK(t) BY <1>1, <1>2, EditOK
  <1>7. Sound(t) BY <1>5, <1>6 DEF Sound, AllOK
  <1>8. \A j : Touched(s, j) => Touched(t, j) BY <1>2, TouchedStays
  <1>9. Told(s0, t)
    <2> SUFFICES ASSUME NEW c \in Clients, NEW j \in s0.cl[c].watched \cap t.cl[c].watched,
                        t.val[j] # s0.val[j]
                 PROVE  j \in t.gone \/ t.cl[c].cas = TRUE
      BY DEF Told
    <2>1. t.cl[c].watched = s.cl[c].watched /\ (s.cl[c].cas = TRUE => t.cl[c].cas = TRUE)
      BY <1>2 DEF Edit, SameClient
    <2>2. j \in Keys BY <1>6 DEF AllOK, ClientOK, SetsOK
    <2>3. CASE j = k
      <3>1. Touched(t, k) BY <1>8 DEF Serving
      <3> QED BY <2>3, <3>1 DEF Touched
    <2>4. CASE j # k
      <3>1. t.val[j] = s.val[j] BY <1>4, <2>2, <2>4
      <3>2. j \in s.gone \/ s.cl[c].cas = TRUE BY <2>1, <3>1 DEF Serving, Told
      <3> QED BY <1>2, <2>1, <3>2
    <2> QED BY <2>3, <2>4
  <1>10. ReadyTold(t) BY <1>3, <1>8 DEF Serving, ReadyTold
  <1>11. WaitedReady(t)
    <2> SUFFICES ASSUME NEW j \in Keys, IsList(t, j), t.blocking[j] # <<>>, j \notin Stored
                 PROVE  Contains(t.ready, j)
      BY DEF WaitedReady
    <2>1. CASE j = k BY <1>2, <1>3, <2>1
    <2>2. CASE j # k
      <3>1. Waits(s, j) BY <2>2 DEF Serving
      <3> QED BY <1>3, <1>4, <2>2, <3>1 DEF Waits, IsList
    <2> QED BY <2>1, <2>2
  <1>12. Mid(s0, t) BY <1>7, <1>9, <1>10, <1>11 DEF Mid
  <1>13. Count(t) = Count(s) BY <1>2, <1>3, CountSame
  <1> QED BY <1>12, <1>13 DEF t

\* The key has been looked up.
LEMMA TakenLookup ==
    ASSUME NEW s0, NEW s, NEW k \in Keys, Taken(s0, s, k)
    PROVE  LET t == lookupKeyWrite(s, k)
           IN  /\ IsList(t, k) => t = s /\ Serving(s0, t, k)
               /\ ~ IsList(t, k) => Mid(s0, t) /\ Count(t) = Count(s)
  <1> DEFINE t == lookupKeyWrite(s, k)
  <1>1. /\ Sound(s) /\ Keyed(s) /\ Good(s) /\ ReadySeq(s) /\ Told(s0, s) /\ ReadyTold(s)
        /\ Touched(s, k) /\ \A j \in Keys : KeyOK(s, j) /\ (j # k => Waits(s, j))
    BY DEF Taken, Sound, Keyed
  <1>2. t = expireIfNeeded(s, k) BY <1>1, LookupFacts
  <1> HIDE DEF t
  <1>3. Looked(s, t, k) /\ Changes(s, t) BY <1>1, <1>2, LookedChanges
  <1>4. ASSUME IsList(t, k) PROVE t = s /\ Serving(s0, t, k)
    <2>1. ~ IsAt(t, k, Absent, "none") BY <1>4, ValueFacts DEF IsAt, IsList
    <2>2. t = s BY <1>3, <2>1 DEF Looked
    <2>3. s.ttl[k] # "due" BY <1>3, <2>2 DEF Looked
    <2>4. ListAt(s, k) BY <1>1, <1>4, <2>2, ListFacts
    <2>5. s.ttl[k] \in TTLs BY <1>1 DEF KeyOK
    <2>6. AllOK(s) BY <1>1 DEF Sound, AllOK
    <2>7. Serving(s0, s, k) BY <1>1, <2>3, <2>4, <2>5, <2>6 DEF Serving
    <2> QED BY <2>2, <2>7
  <1>5. ASSUME ~ IsList(t, k) PROVE Mid(s0, t) /\ Count(t) = Count(s)
    <2>1. Sound(t) /\ Told(s0, t) /\ ReadyTold(t) BY <1>1, <1>3, ChangesTold
    <2>2. WaitedReady(t)
      <3> SUFFICES ASSUME NEW j \in Keys, IsList(t, j), t.blocking[j] # <<>>, j \notin Stored
                   PROVE  Contains(t.ready, j)
        BY DEF WaitedReady
      <3>1. j # k /\ Waits(s, j) BY <1>1, <1>5
      <3>2. IsList(s, j) \/ Contains(t.ready, j) BY <1>3 DEF Changes, NewList
      <3>3. t.blocking = s.blocking /\ (Contains(s.ready, j) => Contains(t.ready, j))
        BY <1>3 DEF Changes, Edit
      <3> QED BY <3>1, <3>2, <3>3 DEF Waits
    <2>3. Count(t) = Count(s) BY <1>3, CountSame DEF Looked, SameReady
    <2> QED BY <2>1, <2>2, <2>3 DEF Mid
  <1> QED BY <1>4, <1>5 DEF t

\* What ServeKey does.
KeyServed(s0, s, t) ==
    Mid(s0, t) /\ Count(t) \in Nat /\ Count(s) \in Nat /\ Count(t) <= Count(s) - 1

\* The first of the ready keys.
LEMMA ServeKeyFacts ==
    ASSUME NEW s0, NEW s, Mid(s0, s), s.ready # <<>>
    PROVE  KeyServed(s0, s, ServeKey(s))
  <1> DEFINE k == Head(s.ready)
             u == [s EXCEPT !.ready = Tail(@)]
             t == lookupKeyWrite(u, k)
             q == t.blocking[k]
             n == Len(q)
             f == (CHOOSE g : ServedFn(g, t, k, q, n))[n]
             e == ServeKey(s)
  <1>1. e = IF ~ IsList(t, k) THEN t ELSE DeleteIfEmpty(f, k) BY DEF ServeKey, ServedFn
  <1>2. k \in Keys /\ Taken(s0, u, k) /\ Count(u) \in Nat /\ Count(s) \in Nat /\ Count(u) = Count(s) - 1
    BY TakeFacts
  <1> HIDE DEF k, u, e
  <1>3. /\ IsList(t, k) => t = u /\ Serving(s0, t, k)
        /\ ~ IsList(t, k) => Mid(s0, t) /\ Count(t) = Count(u)
    BY <1>2, TakenLookup
  <1> HIDE DEF t
  <1>4. CASE ~ IsList(t, k)
    <2>1. e = t /\ Mid(s0, t) /\ Count(t) = Count(u) BY <1>1, <1>3, <1>4
    <2>2. KeyServed(s0, s, e) BY <1>2, <2>1 DEF KeyServed
    <2> QED BY <2>2 DEF e
  <1>5. CASE IsList(t, k)
    <2>1. t = u /\ Serving(s0, t, k) /\ WaitersOK(t) BY <1>3, <1>5 DEF Serving, AllOK
    <2>2. /\ n \in Nat /\ \A j \in 1..n : q[j] \in Clients
          /\ \A a, b \in 1..n : q[a] = q[b] => a = b
          /\ \A d \in Clients : k \in t.cl[d].keys <=> Behind(q, 0, n, d)
      BY <1>2, <2>1, WaitersDistinct
    <2> HIDE DEF q, n
    <2>3. ServedUpTo(s0, t, t, k, q, 0, n) BY <1>2, <2>1, <2>2 DEF ServedUpTo
    <2>4. ServedUpTo(s0, t, f, k, q, n, n) BY <1>2, <2>2, <2>3, ServedAll
    <2> HIDE DEF f
    <2>5. Serving(s0, f, k) /\ Count(f) \in Nat /\ Count(f) <= Count(t) BY <2>4 DEF ServedUpTo
    <2>6. f.val[k].v = <<>> \/ f.blocking[k] = <<>>
      <3>1. CASE f.val[k].v = <<>> BY <3>1
      <3>2. CASE \A d \in Clients : k \in f.cl[d].keys <=> Behind(q, n, n, d)
        <4>1. \A d \in Clients : ~ Behind(q, n, n, d) BY <2>2 DEF Behind
        <4>2. \A d \in Clients : k \notin f.cl[d].keys BY <3>2, <4>1
        <4>3. WaitersOK(f) BY <2>5 DEF Serving, AllOK
        <4> QED BY <1>2, <4>2, <4>3, WaitersDistinct
      <3> QED BY <2>4, <3>1, <3>2 DEF ServedUpTo
    <2> DEFINE x == DeleteIfEmpty(f, k)
    <2>7. Mid(s0, x) /\ Count(x) = Count(f) BY <1>2, <2>5, <2>6, ServedMid
    <2>8. e = x BY <1>1, <1>5
    <2> HIDE DEF x
    <2>9. Count(e) \in Nat /\ Count(e) <= Count(s) - 1 BY <1>2, <2>1, <2>5, <2>7, <2>8
    <2>10. KeyServed(s0, s, e) BY <1>2, <2>7, <2>8, <2>9 DEF KeyServed
    <2> QED BY <2>10 DEF e
  <1> QED BY <1>4, <1>5

\* One round of handleClientsBlockedOnLists.
RoundStep(s) == IF s.ready = <<>> THEN s ELSE ServeKey(s)

RoundFn(f, s, n) ==
    f = [i \in 0..n |-> IF i = 0 THEN s ELSE RoundStep(f[i - 1])]

\* The ready keys, one after the other.
LEMMA RoundUnfold ==
    ASSUME NEW s, NEW n \in Nat
    PROVE  LET f == CHOOSE g : RoundFn(g, s, n)
           IN  f[0] = s /\ \A i \in 1..n : f[i] = RoundStep(f[i - 1])
  <1> DEFINE Op(x, i) == RoundStep(x)
             Is(f, m) == f = [i \in 0..m |-> IF i = 0 THEN s ELSE Op(f[i - 1], i)]
             Has(m) == \E f : Is(f, m)
             T == {m \in Nat : Has(m)}
             h == CHOOSE g : RoundFn(g, s, n)
  <1> HIDE DEF Op
  <1>1. Has(0)
    <2> DEFINE g == [i \in 0..0 |-> s]
    <2>1. Is(g, 0) OBVIOUS
    <2> HIDE DEF g, Is
    <2> QED BY <2>1
  <1>2. ASSUME NEW m \in Nat, Has(m) PROVE Has(m + 1)
    <2>1. PICK f : Is(f, m) BY <1>2
    <2> DEFINE g == [i \in 0..(m + 1) |-> IF i = m + 1 THEN Op(f[m], m + 1) ELSE f[i]]
    <2>2. \A i \in 0..(m + 1) : g[i] = IF i = 0 THEN s ELSE Op(g[i - 1], i)
      <3> SUFFICES ASSUME NEW i \in 0..(m + 1) PROVE g[i] = IF i = 0 THEN s ELSE Op(g[i - 1], i)
        OBVIOUS
      <3>1. CASE i = m + 1 BY <3>1
      <3>2. CASE i \in 0..m
        <4>1. g[i] = f[i] /\ (i # 0 => g[i - 1] = f[i - 1]) BY <3>2
        <4>2. f[i] = IF i = 0 THEN s ELSE Op(f[i - 1], i) BY <2>1, <3>2
        <4> QED BY <4>1, <4>2
      <3> QED BY <3>1, <3>2
    <2>3. Is(g, m + 1) BY <2>2
    <2> HIDE DEF g, Is
    <2> QED BY <2>3
  <1> HIDE DEF Has
  <1>3. Nat \subseteq T
    <2>1. 0 \in T BY <1>1
    <2>2. \A m \in Nat : m \in T => m + 1 \in T BY <1>2
    <2> HIDE DEF T
    <2> QED BY <2>1, <2>2, NatSetInduction
  <1>4. \E g : RoundFn(g, s, n) BY <1>3 DEF Op, Has, RoundFn
  <1>5. RoundFn(h, s, n) BY <1>4
  <1> HIDE DEF h
  <1>6. Is(h, n) BY <1>5 DEF RoundFn, Op
  <1>7. h[0] = s BY <1>6
  <1>8. \A i \in 1..n : h[i] = Op(h[i - 1], i)
    <2> SUFFICES ASSUME NEW i \in 1..n PROVE h[i] = Op(h[i - 1], i) OBVIOUS
    <2>1. i \in 0..n /\ i # 0 OBVIOUS
    <2> QED BY <1>6, <2>1
  <1> QED BY <1>7, <1>8 DEF h, Op

\* At most as many keys are ready as there are keys.
LEMMA CountBound ==
    ASSUME NEW s, ReadySeq(s)
    PROVE  /\ Cardinality(Keys) + Cardinality(Clients) \in Nat
           /\ Count(s) <= Cardinality(Keys) + Cardinality(Clients)
  <1> DEFINE q == s.ready
             n == Len(q)
  <1>1. IsFiniteSet(Keys) /\ IsFiniteSet(Clients) BY ServerAssumption
  <1>2. Cardinality(Keys) \in Nat /\ Cardinality(Clients) \in Nat BY <1>1, FS_CardinalityType
  <1>3. /\ Count(s) \in Nat /\ n \in Nat /\ Cardinality(Blocked(s)) \in Nat
        /\ Cardinality(Blocked(s)) <= Cardinality(Clients)
    BY CountType
  <1>4. q \in [1..n -> Keys] /\ \A i, j \in 1..n : q[i] = q[j] => i = j
    BY LenProperties DEF ReadySeq
  <1>5. IsFiniteSet(1..n) /\ Cardinality(1..n) = n
    <2> DEFINE a == 1
    <2>1. a \in Int /\ n \in Int BY <1>3
    <2> HIDE DEF a, n
    <2>2. IsFiniteSet(a..n) /\ Cardinality(a..n) = IF a > n THEN 0 ELSE n - a + 1
      BY <2>1, FS_Interval
    <2> QED BY <1>3, <2>2 DEF a
  <1> HIDE DEF q, n
  <1>6. n <= Cardinality(Keys)
    <2> SUFFICES ASSUME n > Cardinality(Keys) PROVE FALSE BY <1>2, <1>3
    <2>1. \E x, y \in 1..n : x # y /\ q[x] = q[y]
      <3>1. Cardinality(Keys) < Cardinality(1..n) BY <1>2, <1>3, <1>5
      <3> QED BY <1>1, <1>4, <1>5, <3>1, FS_PigeonHole
    <2> QED BY <1>4, <2>1
  <1> QED BY <1>2, <1>3, <1>6 DEF Count, n, q

\* i rounds are over.
RoundAt(s0, s, i, n) ==
    Mid(s0, s) /\ Count(s) \in Nat /\ (s.ready = <<>> \/ Count(s) + i <= n)

\* One round more.
LEMMA RoundNext ==
    ASSUME NEW s0, NEW s, NEW i \in Nat, NEW n \in Nat, RoundAt(s0, s, i, n), NEW m, m = i + 1
    PROVE  RoundAt(s0, RoundStep(s), m, n)
  <1>1. CASE s.ready = <<>> BY <1>1 DEF RoundAt, RoundStep
  <1>2. CASE s.ready # <<>>
    <2> DEFINE t == ServeKey(s)
    <2>1. RoundStep(s) = t BY <1>2 DEF RoundStep
    <2>2. Mid(s0, s) /\ Count(s) + i <= n BY <1>2 DEF RoundAt
    <2>3. KeyServed(s0, s, t) BY <1>2, <2>2, ServeKeyFacts
    <2> HIDE DEF t
    <2>4. Mid(s0, t) /\ Count(t) \in Nat /\ Count(s) \in Nat /\ Count(t) <= Count(s) - 1
      BY <2>3 DEF KeyServed
    <2>5. Count(t) + m <= n BY <2>2, <2>4
    <2>6. RoundAt(s0, t, m, n) BY <2>4, <2>5 DEF RoundAt
    <2> QED BY <2>1, <2>6
  <1> QED BY <1>1, <1>2

\* handleClientsBlockedOnLists leaves no key ready.
LEMMA HandleMid ==
    ASSUME NEW s0, NEW s, Mid(s0, s)
    PROVE  LET t == handleClientsBlockedOnLists(s) IN Mid(s0, t) /\ t.ready = <<>>
  <1> DEFINE n == Cardinality(Keys) + Cardinality(Clients)
             f == CHOOSE g : RoundFn(g, s, n)
             P(i) == i <= n => RoundAt(s0, f[i], i, n)
             U == {i \in Nat : P(i)}
  <1>1. handleClientsBlockedOnLists(s) = f[n] BY DEF handleClientsBlockedOnLists, RoundFn, RoundStep
  <1>2. ReadySeq(s) BY DEF Mid, Sound, Keyed
  <1>3. n \in Nat /\ Count(s) <= n /\ Count(s) \in Nat BY <1>2, CountBound, CountType
  <1> HIDE DEF n
  <1>4. f[0] = s /\ \A i \in 1..n : f[i] = RoundStep(f[i - 1]) BY <1>3, RoundUnfold
  <1> HIDE DEF f
  <1>5. P(0) BY <1>3, <1>4 DEF RoundAt
  <1>6. ASSUME NEW i \in Nat, P(i) PROVE P(i + 1)
    <2> DEFINE m == i + 1
    <2>1. m \in Nat /\ m = i + 1 /\ m - 1 = i OBVIOUS
    <2> HIDE DEF m
    <2> SUFFICES ASSUME m <= n PROVE RoundAt(s0, f[m], m, n) BY DEF m
    <2>2. m \in 1..n /\ RoundAt(s0, f[i], i, n) BY <1>3, <1>6, <2>1
    <2>3. f[m] = RoundStep(f[i]) BY <1>4, <2>1, <2>2
    <2> DEFINE u == f[i]
    <2>4. RoundAt(s0, u, i, n) BY <2>2
    <2> HIDE DEF u
    <2>5. RoundAt(s0, RoundStep(u), m, n) BY <1>3, <2>1, <2>4, RoundNext
    <2> QED BY <2>3, <2>5 DEF u
  <1> HIDE DEF P
  <1>7. Nat \subseteq U
    <2>1. 0 \in U BY <1>5
    <2>2. \A i \in Nat : i \in U => i + 1 \in U BY <1>6
    <2> HIDE DEF U
    <2> QED BY <2>1, <2>2, NatSetInduction
  <1>8. P(n) BY <1>3, <1>7
  <1> DEFINE t == f[n]
  <1>9. RoundAt(s0, t, n, n) BY <1>3, <1>8 DEF P
  <1> HIDE DEF t
  <1>10. Mid(s0, t) /\ t.ready = <<>>
    <2>1. CASE t.ready = <<>> BY <1>9, <2>1 DEF RoundAt
    <2>2. CASE Count(t) + n <= n
      <3>1. Mid(s0, t) /\ ReadySeq(t) BY <1>9 DEF RoundAt, Mid, Sound, Keyed
      <3>2. Count(t) = Len(t.ready) + Cardinality(Blocked(t)) BY DEF Count
      <3>3. Len(t.ready) \in Nat /\ Cardinality(Blocked(t)) \in Nat BY <3>1, CountType
      <3>4. Len(t.ready) = 0 BY <1>3, <2>2, <3>2, <3>3
      <3>5. t.ready \in Seq(Keys) BY <3>1 DEF ReadySeq
      <3> QED BY <3>1, <3>4, <3>5, EmptySeq
    <2> QED BY <1>9, <2>1, <2>2 DEF RoundAt
  <1> QED BY <1>1, <1>10 DEF t

(***************************************************************************)
(* processCommand, freeClient and the timers.                              *)
(***************************************************************************)

\* A command or a timer is over.
Over(s0, t) == Mid(s0, t) /\ t.ready = <<>>

\* A key that expired or was evicted.
LEMMA GoneOver ==
    ASSUME NEW s0, NEW s, Over(s0, s), NEW k \in Keys, NEW c \in Clients
    PROVE  LET t == dbDelete(propagateExpire(s, k), k)
           IN  /\ Over(s0, t) /\ t.cl[c].watched = s.cl[c].watched
               /\ t.cl[c].blocked = s.cl[c].blocked
  <1> DEFINE t == dbDelete(propagateExpire(s, k), k)
  <1>1. Mid(s0, s) /\ Keyed(s) /\ Good(s) /\ s.ready = <<>> BY DEF Over, Mid, Sound, Keyed
  <1>2. Changes(s, t) BY <1>1, GoneChanges
  <1>3. Edit(s, t) /\ t.ready = s.ready
    <2>1. Edit(s, t) /\ SameReady(s, t) BY <1>1, GoneFacts
    <2> QED BY <2>1 DEF SameReady
  <1> HIDE DEF t
  <1>4. Mid(s0, t) BY <1>1, <1>2, ChangesMid
  <1>5. t.cl[c].watched = s.cl[c].watched /\ t.cl[c].blocked = s.cl[c].blocked
    BY <1>3 DEF Edit, SameClient
  <1> QED BY <1>1, <1>3, <1>4, <1>5 DEF Over, t

\* processCommand
LEMMA ProcessOver ==
    ASSUME NEW s0, NEW s, NEW c \in Clients, Over(s0, s), ~ s.cl[c].blocked,
           s.cl[c].watched = s0.cl[c].watched, NEW cmd, Known(cmd), NEW env, EnvOK(env)
    PROVE  Over(s0, processCommand(s, c, cmd, env))
  <1> DEFINE evict == env.evict # None /\ Exists(s, env.evict) /\ cmd.op # "bad"
             t == IF evict THEN freeMemoryIfNeeded(s, env.evict) ELSE s
             e == processCommand(s, c, cmd, env)
             refused == \/ cmd.op = "bad"
                        \/ cmd.op \in DenyOom /\ env.oom
                        \/ cmd.op \notin NotWrite /\ env.deny
             h == handleClientsBlockedOnLists(CallTop(t, c, cmd, env))
  <1>1. e = IF refused THEN flagTransaction(t, c)
            ELSE IF t.cl[c].pubsub /\ cmd.op \notin InPubsub THEN t
            ELSE IF t.cl[c].multi /\ cmd.op \notin NotQueued THEN queueMultiCommand(t, c, cmd)
            ELSE h
    BY DEF processCommand
  <1>2. refused \/ cmd.op # "bad" OBVIOUS
  <1> HIDE DEF e, refused
  <1>3. Over(s0, t) /\ t.cl[c].watched = s.cl[c].watched /\ t.cl[c].blocked = s.cl[c].blocked
    <2>1. CASE ~ evict BY <2>1
    <2>2. CASE evict
      <3>1. env.evict \in Keys BY <2>2 DEF EnvOK
      <3>2. t = dbDelete(propagateExpire(s, env.evict), env.evict) BY <2>2 DEF freeMemoryIfNeeded
      <3> QED BY <3>1, <3>2, GoneOver
    <2> QED BY <2>1, <2>2
  <1> HIDE DEF t
  <1>4. Mid(s0, t) /\ t.ready = <<>> /\ IsServer(t) BY <1>3 DEF Over, Mid, Sound, Keyed, Good
  <1>5. CASE refused
    <2>1. Mid(s0, flagTransaction(t, c)) BY <1>4, FlagTransactionMid
    <2>2. flagTransaction(t, c).ready = t.ready BY <1>4 DEF flagTransaction, IsServer
    <2> QED BY <1>1, <1>4, <1>5, <2>1, <2>2 DEF Over, e
  <1>6. CASE ~ refused /\ t.cl[c].pubsub /\ cmd.op \notin InPubsub
    BY <1>1, <1>3, <1>6 DEF e
  <1>7. CASE /\ ~ refused /\ ~ (t.cl[c].pubsub /\ cmd.op \notin InPubsub)
             /\ t.cl[c].multi /\ cmd.op \notin NotQueued
    <2>1. cmd.op \notin NotQueued \cup {"bad"} BY <1>2, <1>7
    <2>2. Mid(s0, queueMultiCommand(t, c, cmd)) BY <1>4, <1>7, <2>1, QueueMid
    <2>3. queueMultiCommand(t, c, cmd).ready = t.ready BY <1>4 DEF queueMultiCommand, IsServer
    <2> QED BY <1>1, <1>4, <1>7, <2>2, <2>3 DEF Over, e
  <1>8. CASE /\ ~ refused /\ ~ (t.cl[c].pubsub /\ cmd.op \notin InPubsub)
             /\ ~ (t.cl[c].multi /\ cmd.op \notin NotQueued)
    <2> DEFINE u == CallTop(t, c, cmd, env)
    <2>1. ~ t.cl[c].blocked /\ t.cl[c].watched = s0.cl[c].watched /\ cmd.op # "bad" BY <1>2, <1>3, <1>8
    <2>2. Mid(s0, u) BY <1>4, <2>1, CallTopMid
    <2> HIDE DEF u
    <2>3. Mid(s0, h) /\ h.ready = <<>> BY <2>2, HandleMid DEF u
    <2> QED BY <1>1, <1>8, <2>3 DEF Over, e
  <1> QED BY <1>5, <1>6, <1>7, <1>8

\* What a client has left alone.
LEMMA ListsSame ==
    ASSUME NEW s, NEW t, NEW c \in Clients, Own(s, t, c)
    PROVE  /\ WatchersOK(s) /\ t.watching = s.watching /\ t.cl[c].watched = s.cl[c].watched
              => WatchersOK(t)
           /\ WaitersOK(s) /\ t.blocking = s.blocking /\ t.cl[c].keys = s.cl[c].keys => WaitersOK(t)
           /\ ChannelsOK(s) /\ t.channels = s.channels /\ t.cl[c].channels = s.cl[c].channels
              => ChannelsOK(t)
           /\ PatternsOK(s) /\ t.patterns = s.patterns /\ t.cl[c].patterns = s.cl[c].patterns
              => PatternsOK(t)
  <1>1. \A d \in Clients : d # c => t.cl[d] = s.cl[d] BY DEF Own
  <1>2. t.cl[c].watched = s.cl[c].watched => \A d \in Clients : t.cl[d].watched = s.cl[d].watched
    BY <1>1
  <1>3. t.cl[c].keys = s.cl[c].keys => \A d \in Clients : t.cl[d].keys = s.cl[d].keys BY <1>1
  <1>4. t.cl[c].channels = s.cl[c].channels => \A d \in Clients : t.cl[d].channels = s.cl[d].channels
    BY <1>1
  <1>5. t.cl[c].patterns = s.cl[c].patterns => \A d \in Clients : t.cl[d].patterns = s.cl[d].patterns
    BY <1>1
  <1>6. WatchersOK(s) /\ t.watching = s.watching /\ t.cl[c].watched = s.cl[c].watched => WatchersOK(t)
    BY <1>2 DEF WatchersOK
  <1>7. WaitersOK(s) /\ t.blocking = s.blocking /\ t.cl[c].keys = s.cl[c].keys => WaitersOK(t)
    BY <1>3 DEF WaitersOK
  <1>8. ChannelsOK(s) /\ t.channels = s.channels /\ t.cl[c].channels = s.cl[c].channels => ChannelsOK(t)
    BY <1>4 DEF ChannelsOK
  <1>9. PatternsOK(s) /\ t.patterns = s.patterns /\ t.cl[c].patterns = s.cl[c].patterns => PatternsOK(t)
    BY <1>5 DEF PatternsOK
  <1> QED BY <1>6, <1>7, <1>8, <1>9

\* The timeout of a blocked client.
LEMMA TimeoutOver ==
    ASSUME NEW s0, NEW s, NEW c \in Clients, Over(s0, s)
    PROVE  Over(s0, unblockClient(s, c)) /\ Unblocked(s, unblockClient(s, c), c)
  <1> DEFINE t == unblockClient(s, c)
             r == s.cl[c]
             q == t.cl[c]
  <1>1. /\ Mid(s0, s) /\ IsServer(s) /\ AllOK(s) /\ IsClient(r) /\ ClientOK(r) /\ s.ready = <<>>
    BY DEF Over, Mid, Sound, Keyed, Good, AllOK, IsServer
  <1>2. WatchersOK(s) /\ WaitersOK(s) /\ ChannelsOK(s) /\ PatternsOK(s) BY <1>1 DEF AllOK
  <1>3. Unblocked(s, t, c) BY <1>1, <1>2, UnblockFacts
  <1> HIDE DEF t
  <1>4. /\ Own(s, t, c) /\ WaitersOK(t)
        /\ q = [[[r EXCEPT !.keys = {}] EXCEPT !.target = None] EXCEPT !.blocked = FALSE]
        /\ t.watching = s.watching /\ t.channels = s.channels /\ t.patterns = s.patterns
        /\ \A j \in Keys : s.blocking[j] = <<>> => t.blocking[j] = <<>>
    BY <1>3 DEF Unblocked
  <1>5. SameRest(r, q) /\ q.keys = {} /\ q.target = None /\ q.head = r.head /\ q.blocked = FALSE
    <2> HIDE DEF q, r
    <2> QED BY <1>1, <1>4 DEF IsClient, SameRest, SameTx
  <1>6. q.watched = r.watched /\ q.cas = r.cas /\ q.channels = r.channels /\ q.patterns = r.patterns
    BY <1>5 DEF SameRest, SameTx
  <1>7. ClientOK(q)
    <2> HIDE DEF q, r
    <2>1. SetsOK(q) BY <1>1, <1>5 DEF ClientOK, SetsOK, SameRest, SameTx
    <2>2. QueueOK(q) BY <1>1, <1>5 DEF ClientOK, QueueOK, SameRest, SameTx
    <2>3. FlagsOK(q) BY <1>1, <1>5 DEF ClientOK, FlagsOK, SameRest, SameTx
    <2> QED BY <2>1, <2>2, <2>3 DEF ClientOK
  <1>8. WatchersOK(t) /\ ChannelsOK(t) /\ PatternsOK(t) BY <1>2, <1>4, <1>6, ListsSame
  <1>9. Mid(s0, t)
    <2>1. t.cl[c].watched = s.cl[c].watched /\ t.cl[c].cas = s.cl[c].cas BY <1>6
    <2>2. \A j \in Keys : IsList(s, j) /\ s.blocking[j] = <<>> => t.blocking[j] = <<>> BY <1>4
    <2>3. ClientOK(t.cl[c]) BY <1>7
    <2> QED BY <1>1, <1>4, <1>8, <2>1, <2>2, <2>3, OwnMid
  <1>10. t.ready = <<>> BY <1>1, <1>4 DEF Own
  <1> QED BY <1>3, <1>9, <1>10 DEF Over, t

\* A client that has left every list.
Alone(s, t, c) ==
    /\ Own(s, t, c) /\ WatchersOK(t) /\ WaitersOK(t) /\ ChannelsOK(t) /\ PatternsOK(t)
    /\ t.cl[c].watched = {} /\ t.cl[c].keys = {} /\ t.cl[c].channels = {} /\ t.cl[c].patterns = {}
    /\ \A k \in Keys : s.blocking[k] = <<>> => t.blocking[k] = <<>>

\* Out of the lists of watchers, channels and patterns.
LEMMA LeaveFacts ==
    ASSUME NEW s, IsServer(s), WatchersOK(s), WaitersOK(s), ChannelsOK(s), PatternsOK(s),
           NEW c \in Clients, s.cl[c].watched \subseteq Keys, s.cl[c].keys = {}
    PROVE  LET u == pubsubUnsubscribePatterns(
                        pubsubUnsubscribeChannels(unwatchAllKeys(s, c), c, s.cl[c].channels),
                        c, s.cl[c].patterns)
           IN  Alone(s, u, c)
  <1> DEFINE r == s.cl[c]
             a == unwatchAllKeys(s, c)
             b == pubsubUnsubscribeChannels(a, c, s.cl[c].channels)
             d == pubsubUnsubscribePatterns(b, c, s.cl[c].patterns)
  <1>1. Unwatched(s, a, c) BY UnwatchFacts
  <1> HIDE DEF a
  <1>2. /\ Own(s, a, c) /\ IsServer(a) /\ WatchersOK(a) /\ a.blocking = s.blocking
        /\ a.channels = s.channels /\ a.patterns = s.patterns /\ IsClient(a.cl[c])
        /\ a.cl[c].watched = {} /\ a.cl[c].keys = {} /\ a.cl[c].channels = r.channels
        /\ a.cl[c].patterns = r.patterns
    BY <1>1 DEF Unwatched, Own
  <1>3. WaitersOK(a) /\ ChannelsOK(a) /\ PatternsOK(a) BY <1>2, ListsSame
  <1>4. ChannelsLeft(a, b, c)
    <2>1. b = pubsubUnsubscribeChannels(a, c, a.cl[c].channels) BY <1>2
    <2> QED BY <1>2, <1>3, <2>1, ChannelsLeftFacts
  <1> HIDE DEF b
  <1>5. /\ Own(a, b, c) /\ IsServer(b) /\ b.cl[c] = [a.cl[c] EXCEPT !.channels = {}]
        /\ b.watching = a.watching /\ b.blocking = a.blocking /\ b.patterns = a.patterns
        /\ ChannelsOK(b) /\ IsClient(b.cl[c])
    BY <1>4 DEF ChannelsLeft, Own
  <1>6. /\ b.cl[c].watched = {} /\ b.cl[c].keys = {} /\ b.cl[c].channels = {}
        /\ b.cl[c].patterns = r.patterns
    <2> DEFINE x == a.cl[c]
               y == b.cl[c]
    <2>1. IsClient(x) /\ y = [x EXCEPT !.channels = {}] BY <1>2, <1>5
    <2>2. x.watched = {} /\ x.keys = {} /\ x.patterns = r.patterns BY <1>2
    <2> HIDE DEF x, y, r
    <2>3. y.watched = {} /\ y.keys = {} /\ y.channels = {} /\ y.patterns = r.patterns
      BY <2>1, <2>2 DEF IsClient
    <2> QED BY <2>3 DEF y
  <1>7. WatchersOK(b) /\ WaitersOK(b) /\ PatternsOK(b)
    <2>1. /\ b.cl[c].watched = a.cl[c].watched /\ b.cl[c].keys = a.cl[c].keys
          /\ b.cl[c].patterns = a.cl[c].patterns
      BY <1>2, <1>6
    <2>2. /\ Own(a, b, c) /\ b.watching = a.watching /\ b.blocking = a.blocking
          /\ b.patterns = a.patterns /\ WatchersOK(a) /\ WaitersOK(a) /\ PatternsOK(a)
      BY <1>2, <1>3, <1>5
    <2> QED BY ONLY <2>1, <2>2, c \in Clients, ListsSame
  <1>8. PatternsLeft(b, d, c)
    <2>1. d = pubsubUnsubscribePatterns(b, c, b.cl[c].patterns) BY <1>6
    <2> QED BY <1>5, <1>7, <2>1, PatternsLeftFacts
  <1> HIDE DEF d
  <1>9. /\ Own(b, d, c) /\ d.cl[c] = [b.cl[c] EXCEPT !.patterns = {}]
        /\ d.watching = b.watching /\ d.blocking = b.blocking /\ d.channels = b.channels
        /\ PatternsOK(d)
    BY <1>8 DEF PatternsLeft
  <1>10. /\ d.cl[c].watched = {} /\ d.cl[c].keys = {} /\ d.cl[c].channels = {}
         /\ d.cl[c].patterns = {}
    <2> DEFINE x == b.cl[c]
               y == d.cl[c]
    <2>1. IsClient(x) /\ y = [x EXCEPT !.patterns = {}] BY <1>5, <1>9
    <2>2. x.watched = {} /\ x.keys = {} /\ x.channels = {} BY <1>6
    <2> HIDE DEF x, y
    <2>3. y.watched = {} /\ y.keys = {} /\ y.channels = {} /\ y.patterns = {}
      BY <2>1, <2>2 DEF IsClient
    <2> QED BY <2>3 DEF y
  <1>11. WatchersOK(d) /\ WaitersOK(d) /\ ChannelsOK(d)
    <2>1. Own(b, d, c) BY <1>9
    <2>2. d.cl[c].watched = b.cl[c].watched /\ d.cl[c].keys = b.cl[c].keys
          /\ d.cl[c].channels = b.cl[c].channels
      BY <1>6, <1>10
    <2>3. d.watching = b.watching /\ d.blocking = b.blocking /\ d.channels = b.channels BY <1>9
    <2>4. WatchersOK(b) /\ WaitersOK(b) /\ ChannelsOK(b) BY <1>5, <1>7
    <2> QED BY <2>1, <2>2, <2>3, <2>4, ListsSame
  <1>12. Own(s, b, c) BY <1>2, <1>5, OwnTrans
  <1>13. Own(s, d, c) BY <1>9, <1>12, OwnTrans
  <1>14. d.blocking = s.blocking BY <1>2, <1>5, <1>9
  <1>15. Alone(s, d, c) BY <1>9, <1>10, <1>11, <1>13, <1>14 DEF Alone
  <1> QED BY <1>15 DEF d, b, a

\* A client that has just come.
Fresh(q) ==
    /\ IsClient(q) /\ q.multi = FALSE /\ q.cas = FALSE /\ q.exec = FALSE /\ q.queue = <<>>
    /\ q.watched = {} /\ q.keys = {} /\ q.target = None /\ q.head = FALSE /\ q.blocked = FALSE
    /\ q.channels = {} /\ q.patterns = {} /\ q.pubsub = FALSE /\ q.stale = FALSE

\* Its flags and sets are right.
LEMMA FreshOK == ASSUME NEW q, Fresh(q) PROVE ClientOK(q)
  <1>1. SetsOK(q)
    <2>1. IsFiniteSet({}) BY FS_EmptySet
    <2> QED BY <2>1 DEF SetsOK, Fresh
  <1>2. QueueOK(q) BY DEF QueueOK, Fresh
  <1>3. FlagsOK(q) BY DEF FlagsOK, Fresh
  <1> QED BY <1>1, <1>2, <1>3 DEF ClientOK

\* A client that has just come, but for what it got.
LEMMA NewClientOK ==
    ASSUME NEW x
    PROVE  LET q == [NoClient EXCEPT !.got = x]
           IN  /\ IsClient(q) /\ ClientOK(q) /\ q.watched = {} /\ q.keys = {}
               /\ q.channels = {} /\ q.patterns = {}
  <1> DEFINE q == [NoClient EXCEPT !.got = x]
  <1>1. Fresh(q) BY DEF NoClient, IsClient, Fresh
  <1> HIDE DEF q
  <1>2. ClientOK(q) BY <1>1, FreshOK
  <1> QED BY <1>1, <1>2 DEF Fresh, q

\* freeClient
LEMMA FreeOver ==
    ASSUME NEW s0, NEW s, NEW c \in Clients, Over(s0, s)
    PROVE  Over(s0, freeClient(s, c))
  <1> DEFINE t == IF s.cl[c].blocked THEN unblockClient(s, c) ELSE s
             u == pubsubUnsubscribePatterns(
                      pubsubUnsubscribeChannels(unwatchAllKeys(t, c), c, t.cl[c].channels),
                      c, t.cl[c].patterns)
             q == [NoClient EXCEPT !.got = s.cl[c].got]
             e == freeClient(s, c)
  <1>1. e = [u EXCEPT !.cl[c] = q] BY DEF freeClient
  <1>2. /\ Mid(s0, s) /\ IsServer(s) /\ ClientOK(s.cl[c]) /\ s.ready = <<>>
        /\ WatchersOK(s) /\ WaitersOK(s) /\ ChannelsOK(s) /\ PatternsOK(s)
    BY DEF Over, Mid, Sound, Keyed, Good
  <1>3. /\ Mid(s0, t) /\ Own(s, t, c) /\ t.cl[c].keys = {}
        /\ \A k \in Keys : s.blocking[k] = <<>> => t.blocking[k] = <<>>
    <2>1. CASE s.cl[c].blocked = TRUE
      <3>1. t = unblockClient(s, c) BY <2>1
      <3>2. Over(s0, t) /\ Unblocked(s, t, c) BY <3>1, TimeoutOver
      <3> HIDE DEF t
      <3>3. t.cl[c].keys = {}
        <4>1. t.cl[c] = [[[s.cl[c] EXCEPT !.keys = {}] EXCEPT !.target = None] EXCEPT !.blocked = FALSE]
          BY <3>2 DEF Unblocked
        <4>2. IsClient(s.cl[c]) BY <1>2 DEF IsServer
        <4> DEFINE x == s.cl[c]
                   y == t.cl[c]
        <4>3. IsClient(x) /\ y = [[[x EXCEPT !.keys = {}] EXCEPT !.target = None] EXCEPT !.blocked = FALSE]
          BY <4>1, <4>2
        <4> HIDE DEF x, y
        <4>4. y.keys = {} BY <4>3 DEF IsClient
        <4> QED BY <4>4 DEF y
      <3> QED BY <3>2, <3>3 DEF Over, Unblocked
    <2>2. CASE s.cl[c].blocked = FALSE
      <3>1. t = s BY <2>2
      <3>2. s.cl[c].keys = {} BY <1>2, <2>2 DEF ClientOK, FlagsOK
      <3>3. Own(s, s, c) BY <1>2 DEF Own
      <3> QED BY <1>2, <3>1, <3>2, <3>3
    <2>3. s.cl[c].blocked \in BOOLEAN BY <1>2 DEF ClientOK, SetsOK
    <2> QED BY <2>1, <2>2, <2>3
  <1> HIDE DEF t
  <1>4. /\ IsServer(t) /\ WatchersOK(t) /\ WaitersOK(t) /\ ChannelsOK(t) /\ PatternsOK(t)
        /\ t.cl[c].watched \subseteq Keys
    BY <1>3 DEF Mid, Sound, Keyed, Good, ClientOK, SetsOK
  <1>5. Alone(t, u, c) BY <1>3, <1>4, LeaveFacts
  <1> HIDE DEF u
  <1>6. /\ Own(t, u, c) /\ IsServer(u) /\ WatchersOK(u) /\ WaitersOK(u) /\ ChannelsOK(u) /\ PatternsOK(u)
        /\ u.cl[c].watched = {} /\ u.cl[c].keys = {} /\ u.cl[c].channels = {} /\ u.cl[c].patterns = {}
        /\ \A k \in Keys : t.blocking[k] = <<>> => u.blocking[k] = <<>>
    BY <1>5 DEF Alone, Own
  <1>7. /\ IsClient(q) /\ ClientOK(q) /\ q.watched = {} /\ q.keys = {}
        /\ q.channels = {} /\ q.patterns = {}
    BY NewClientOK
  <1> HIDE DEF q, e
  <1>8. OwnStep(u, e, c, q) BY <1>1, <1>6, <1>7 DEF OwnStep, IsServer
  <1>9. Own(u, e, c) /\ e.cl[c] = q BY <1>6, <1>8, OwnStepOwn
  <1>10. /\ e.watching = u.watching /\ e.blocking = u.blocking /\ e.channels = u.channels
         /\ e.patterns = u.patterns
    BY <1>1, <1>6 DEF IsServer
  <1>11. WatchersOK(e) /\ WaitersOK(e) /\ ChannelsOK(e) /\ PatternsOK(e)
    BY <1>6, <1>7, <1>9, <1>10, ListsSame
  <1>12. Own(s, u, c) BY <1>3, <1>6, OwnTrans
  <1>13. Own(s, e, c) BY <1>9, <1>12, OwnTrans
  <1>14. e.cl[c].watched = {} /\ ClientOK(e.cl[c]) BY <1>7, <1>9
  <1>15. \A k \in Keys : IsList(s, k) /\ s.blocking[k] = <<>> => e.blocking[k] = <<>>
    BY <1>3, <1>6, <1>10
  <1>16. Mid(s0, e) BY <1>2, <1>11, <1>13, <1>14, <1>15, OwnMid
  <1>17. e.ready = <<>> BY <1>2, <1>13 DEF Own
  <1> QED BY <1>16, <1>17 DEF Over, e

(***************************************************************************)
(* The steps of the system.                                                *)
(***************************************************************************)

\* Between two commands.
Rests(s) == Sound(s) /\ WaitedReady(s) /\ s.ready = <<>> /\ s.gone = {}

\* At the start of a step.
LEMMA RestsOver ==
    ASSUME NEW s, Rests(s)
    PROVE  Over(s, s)
  <1>1. Told(s, s) BY DEF Told
  <1>2. ReadyTold(s) BY DEF Rests, ReadyTold, Contains
  <1> QED BY <1>1, <1>2 DEF Rests, Over, Mid

\* The server after a step, as Local has it.
Settled(s, t) ==
    [t EXCEPT !.out = <<>>, !.gone = {}, !.argv = None,
              !.dirty = IF @ > MaxDirty THEN MaxDirty ELSE @,
              !.cl = [c \in Clients |->
                         [t.cl[c] EXCEPT !.stale = t.cl[c].stale \/ Stale(s, t, c)]]]

\* What a step has done to a client whose watched key changed.
LEMMA StaleOK ==
    ASSUME NEW r, IsClient(r), ClientOK(r), NEW b \in BOOLEAN, b => r.cas = TRUE
    PROVE  LET q == [r EXCEPT !.stale = @ \/ b]
           IN  /\ IsClient(q) /\ ClientOK(q) /\ SamePlaces(r, q)
  <1> DEFINE q == [r EXCEPT !.stale = @ \/ b]
  <1>1. /\ IsClient(q) /\ q.multi = r.multi /\ q.cas = r.cas /\ q.exec = r.exec /\ q.queue = r.queue
        /\ q.watched = r.watched /\ q.keys = r.keys /\ q.target = r.target /\ q.head = r.head
        /\ q.blocked = r.blocked /\ q.channels = r.channels /\ q.patterns = r.patterns
        /\ q.pubsub = r.pubsub /\ q.stale = (r.stale \/ b)
    BY DEF IsClient
  <1> HIDE DEF q
  <1>2. SetsOK(q)
    <2>1. SetsOK(r) BY DEF ClientOK
    <2>2. q.stale \in BOOLEAN BY <1>1
    <2> QED BY <1>1, <2>1, <2>2 DEF SetsOK
  <1>3. QueueOK(q) BY <1>1 DEF ClientOK, QueueOK
  <1>4. FlagsOK(q)
    <2>1. FlagsOK(r) BY DEF ClientOK
    <2>2. q.stale => q.cas BY <1>1, <2>1 DEF FlagsOK
    <2> QED BY <1>1, <2>1, <2>2 DEF FlagsOK
  <1> QED BY <1>1, <1>2, <1>3, <1>4 DEF ClientOK, SamePlaces, q

\* The end of a step.
LEMMA SettledRests ==
    ASSUME NEW s, NEW t, Over(s, t)
    PROVE  Rests(Settled(s, t))
  <1> DEFINE u == Settled(s, t)
             x == [c \in Clients |-> [t.cl[c] EXCEPT !.stale = t.cl[c].stale \/ Stale(s, t, c)]]
  <1>1. /\ Sound(t) /\ Told(s, t) /\ WaitedReady(t) /\ t.ready = <<>> /\ IsServer(t) /\ t.slave = FALSE
        /\ \A c \in Clients : IsClient(t.cl[c]) /\ ClientOK(t.cl[c])
    BY DEF Over, Mid, Sound, Keyed, Good, IsServer
  <1>2. /\ DOMAIN u = DOMAIN t /\ u.slave = t.slave /\ u.val = t.val /\ u.ttl = t.ttl /\ u.cl = x
        /\ u.watching = t.watching /\ u.blocking = t.blocking /\ u.ready = t.ready
        /\ u.channels = t.channels /\ u.patterns = t.patterns /\ u.gone = {}
    <2> HIDE DEF x
    <2>1. u = [t EXCEPT !.out = <<>>, !.gone = {}, !.argv = None,
                        !.dirty = IF @ > MaxDirty THEN MaxDirty ELSE @, !.cl = x]
      BY <1>1 DEF Settled, IsServer, x
    <2> HIDE DEF u
    <2> QED BY <1>1, <2>1 DEF IsServer
  <1>3. ASSUME NEW c \in Clients
        PROVE  IsClient(x[c]) /\ ClientOK(x[c]) /\ SamePlaces(t.cl[c], x[c])
    <2> DEFINE r == t.cl[c]
               b == Stale(s, t, c)
    <2>1. b \in BOOLEAN BY DEF Stale
    <2>2. b => r.cas = TRUE BY <1>1 DEF Told, Stale
    <2>3. IsClient(r) /\ ClientOK(r) BY <1>1
    <2>4. x[c] = [r EXCEPT !.stale = @ \/ b] OBVIOUS
    <2> HIDE DEF r, b, x
    <2>5. LET q == [r EXCEPT !.stale = @ \/ b]
          IN  IsClient(q) /\ ClientOK(q) /\ SamePlaces(r, q)
      BY <2>1, <2>2, <2>3, StaleOK
    <2> QED BY <2>4, <2>5 DEF r
  <1>4. DOMAIN x = Clients OBVIOUS
  <1> HIDE DEF u, x
  <1>5. \A c \in Clients : /\ u.cl[c].watched = t.cl[c].watched /\ u.cl[c].keys = t.cl[c].keys
                           /\ u.cl[c].channels = t.cl[c].channels /\ u.cl[c].patterns = t.cl[c].patterns
    BY <1>2, <1>3 DEF SamePlaces
  <1>6. WatchersOK(u) BY <1>1, <1>2, <1>5 DEF Sound, WatchersOK
  <1>7. WaitersOK(u) BY <1>1, <1>2, <1>5 DEF Sound, WaitersOK
  <1>8. ChannelsOK(u) BY <1>1, <1>2, <1>5 DEF Sound, ChannelsOK
  <1>9. PatternsOK(u) BY <1>1, <1>2, <1>5 DEF Sound, PatternsOK
  <1>10. IsServer(u)
    <2>1. \A c \in Clients : IsClient(u.cl[c]) BY <1>2, <1>3
    <2> QED BY <1>1, <1>2, <1>4, <2>1 DEF IsServer
  <1>11. Keyed(u)
    <2>1. WatchOK(u) BY <1>6, WatchersList
    <2>2. ReadySeq(u) BY <1>1, <1>2 DEF Sound, Keyed, ReadySeq
    <2>3. \A k \in Keys : KeyOK(u, k) BY <1>1, <1>2 DEF Sound, Keyed, KeyOK, Exists
    <2> QED BY <1>1, <1>2, <1>10, <2>1, <2>2, <2>3 DEF Keyed, Good
  <1>12. Sound(u) BY <1>2, <1>3, <1>6, <1>7, <1>8, <1>9, <1>11 DEF Sound
  <1>13. WaitedReady(u) BY <1>1, <1>2 DEF WaitedReady, IsList
  <1> QED BY <1>1, <1>2, <1>12, <1>13 DEF Rests, u

\* A command of a workload, as the client sends it.
LEMMA SentKnown ==
    ASSUME NEW w \in Workloads, NEW c \in Clients, NEW cmd \in w.commands[c]
    PROVE  Known(Written(cmd))
  <1>1. IsCommand(cmd) BY WorkloadAssumption
  <1>2. Known(cmd)
    <2> SUFFICES ASSUME cmd.op = "sort" PROVE cmd.k2 \in Stored BY <1>1 DEF Known
    <2>1. cmd.k2 \in Keys BY <1>1 DEF IsCommand
    <2> QED BY <2>1 DEF Stored
  <1>3. CASE cmd.op \notin {"set", "lpush", "rpush"} BY <1>2, <1>3 DEF Written
  <1>4. CASE cmd.op \in {"set", "lpush", "rpush"}
    <2> DEFINE d == Written(cmd)
               y == writes + 1
    <2>1. d = [cmd EXCEPT !.x = y] BY <1>4 DEF Written
    <2>2. cmd = Command(cmd.op, cmd.k, cmd.k2, cmd.x) BY <1>1 DEF IsCommand
    <2> HIDE DEF d, y
    <2>3. d.op = cmd.op /\ d.k = cmd.k /\ d.k2 = cmd.k2 /\ d = Command(d.op, d.k, d.k2, d.x)
      BY <2>1, <2>2 DEF Command
    <2>4. cmd.k \in Keys /\ cmd.k2 \in Keys \cup {None} BY <1>1, <1>4 DEF IsCommand
    <2>5. IsCommand(d) BY <1>4, <2>3, <2>4 DEF IsCommand
    <2>6. d.op # "sort" BY <1>4, <2>3
    <2>7. Known(d) BY <2>5, <2>6 DEF Known
    <2> QED BY <2>7 DEF d
  <1> QED BY <1>3, <1>4

\* The initial states.
LEMMA InitRests ==
    ASSUME NEW w \in Workloads
    PROVE  Rests([NewServer(FALSE, Clients) EXCEPT !.val = w.val])
  <1> DEFINE s == [NewServer(FALSE, Clients) EXCEPT !.val = w.val]
  <1>1. /\ IsServer(s) /\ s.slave = FALSE /\ s.val = w.val /\ s.ttl = [k \in Keys |-> "none"]
        /\ s.cl = [c \in Clients |-> NoClient] /\ s.ready = <<>> /\ s.gone = {}
        /\ s.watching = [k \in Keys |-> <<>>] /\ s.blocking = [k \in Keys |-> <<>>]
        /\ s.channels = [ch \in Channels |-> <<>>] /\ s.patterns = <<>>
    <2> DEFINE v == w.val
    <2>1. v = [k \in Keys |-> v[k]] BY WorkloadAssumption
    <2>2. DOMAIN v = Keys
      <3> HIDE DEF v
      <3> QED BY <2>1
    <2> HIDE DEF v
    <2>3. s = [NewServer(FALSE, Clients) EXCEPT !.val = v] BY DEF v
    <2> HIDE DEF s
    <2>4. IsClient(NoClient) BY DEF IsClient, NoClient
    <2> QED BY <2>2, <2>3, <2>4 DEF NewServer, IsServer, v
  <1>2. \A k \in Keys : IsValue(s.val[k])
    <2>1. \A k \in Keys : IsValue(w.val[k]) BY WorkloadAssumption
    <2> QED BY <1>1, <2>1
  <1> HIDE DEF s
  <1>3. Len(<<>>) = 0 /\ \A S : <<>> \in Seq(S) OBVIOUS
  <1>4. \A x, y : Listed(<<>>, x, y \in {}) BY <1>3 DEF Listed
  <1>5. \A c \in Clients : /\ s.cl[c].watched = {} /\ s.cl[c].keys = {} /\ s.cl[c].channels = {}
                           /\ s.cl[c].patterns = {}
    BY <1>1 DEF NoClient
  <1>6. WatchersOK(s) BY <1>1, <1>3, <1>4, <1>5 DEF WatchersOK
  <1>7. WaitersOK(s) BY <1>1, <1>3, <1>4, <1>5 DEF WaitersOK
  <1>8. ChannelsOK(s) BY <1>1, <1>3, <1>4, <1>5 DEF ChannelsOK
  <1>9. PatternsOK(s) BY <1>1, <1>3, <1>4, <1>5 DEF PatternsOK
  <1>10. \A c \in Clients : ClientOK(s.cl[c])
    <2>1. Fresh(NoClient) BY DEF NoClient, IsClient, Fresh
    <2>2. ClientOK(NoClient) BY <2>1, FreshOK
    <2> QED BY <1>1, <2>2
  <1>11. Keyed(s)
    <2>1. WatchOK(s) BY <1>6, WatchersList
    <2>2. ReadySeq(s) BY <1>1, <1>3 DEF ReadySeq
    <2>3. \A k \in Keys : KeyOK(s, k) BY <1>1, <1>2 DEF KeyOK, TTLs
    <2> QED BY <1>1, <2>1, <2>2, <2>3 DEF Keyed, Good
  <1>12. Sound(s) BY <1>6, <1>7, <1>8, <1>9, <1>10, <1>11 DEF Sound
  <1>13. WaitedReady(s) BY <1>1 DEF WaitedReady
  <1> QED BY <1>1, <1>12, <1>13 DEF Rests, s

\* The time of a key comes.
LEMMA TickRests ==
    ASSUME NEW s, Rests(s), NEW k \in Keys, s.ttl[k] = "later"
    PROVE  Rests([s EXCEPT !.ttl[k] = "due"])
  <1> DEFINE t == [s EXCEPT !.ttl[k] = "due"]
  <1>1. Over(s, s) /\ Keyed(s) /\ Good(s) /\ KeyOK(s, k) /\ s.ready = <<>> /\ s.gone = {}
    BY RestsOver DEF Rests, Sound, Keyed
  <1>2. t = setExpire(s, k, "due") BY DEF setExpire
  <1>3. /\ Edit(s, t) /\ IsAt(t, k, s.val[k], "due") /\ Elsewhere(s, t, k)
        /\ SameReady(s, t) /\ t.gone = s.gone
    BY <1>1, <1>2, SetExpireFacts
  <1> HIDE DEF t
  <1>4. At(s, t, k) /\ t.ready = s.ready /\ t.val[k] = s.val[k] BY <1>3 DEF At, SameReady, IsAt
  <1>5. KeyOK(t, k) BY <1>1, <1>3 DEF KeyOK, IsAt, Exists, TTLs
  <1>6. NewList(s, t, k) BY <1>4 DEF NewList, IsList
  <1>7. Changes(s, t) BY <1>1, <1>4, <1>5, <1>6, ChangesOne
  <1>8. Mid(s, t) BY <1>1, <1>7, ChangesMid DEF Over
  <1> QED BY <1>1, <1>3, <1>4, <1>8 DEF Rests, Mid, t

\* The scripts that the slaves have are forgotten.
LEMMA ResyncRests ==
    ASSUME NEW s, Rests(s)
    PROVE  Rests([s EXCEPT !.cache = <<>>])
  <1> DEFINE t == [s EXCEPT !.cache = <<>>]
  <1>1. Over(s, s) /\ Keyed(s) /\ Good(s) /\ IsServer(s) /\ s.ready = <<>> /\ s.gone = {}
    BY RestsOver DEF Rests, Sound, Keyed, Good
  <1>2. /\ DOMAIN t = DOMAIN s /\ t.slave = s.slave /\ t.cl = s.cl
        /\ t.watching = s.watching /\ t.blocking = s.blocking /\ t.channels = s.channels
        /\ t.patterns = s.patterns /\ t.gone = s.gone /\ t.val = s.val /\ t.ttl = s.ttl
        /\ t.ready = s.ready
    BY <1>1 DEF IsServer
  <1> HIDE DEF t
  <1>3. Quiet(s, t) BY <1>1, <1>2, QuietStep
  <1>4. Changes(s, t) BY <1>1, <1>3, QuietChanges
  <1>5. Mid(s, t) BY <1>1, <1>4, ChangesMid DEF Over
  <1> QED BY <1>1, <1>2, <1>5 DEF Rests, Mid, t

(***************************************************************************)
(* The theorems.                                                           *)
(***************************************************************************)

Inv == workload \in Workloads /\ Rests(sv)

\* A step preserves the invariant.
LEMMA InvStep == Inv /\ [Next]_vars => Inv'
  <1> SUFFICES ASSUME Inv, [Next]_vars PROVE Inv' OBVIOUS
  <1>1. workload \in Workloads /\ Rests(sv) /\ Over(sv, sv) BY RestsOver DEF Inv
  <1>2. ASSUME NEW t, Local(t), Over(sv, t) PROVE Inv'
    <2>1. sv' = Settled(sv, t) /\ workload' = workload BY <1>2 DEF Local, Settled
    <2>2. Rests(Settled(sv, t)) BY <1>2, SettledRests
    <2> QED BY <1>1, <2>1, <2>2 DEF Inv, Rests
  <1>3. ASSUME NEW c \in Clients, Request(c) PROVE Inv'
    <2>1. PICK cmd \in workload.commands[c], env \in workload.envs :
             After(processCommand(sv, c, Written(cmd), env))
      BY <1>3 DEF Request
    <2>2. ~ sv.cl[c].blocked BY <1>3 DEF Request
    <2>3. Known(Written(cmd)) BY <1>1, SentKnown
    <2>4. EnvOK(env) BY <1>1, WorkloadAssumption DEF EnvOK
    <2> DEFINE t == processCommand(sv, c, Written(cmd), env)
    <2>5. Over(sv, t) BY <1>1, <2>2, <2>3, <2>4, ProcessOver
    <2>6. Local(t) BY <2>1 DEF After
    <2> HIDE DEF t
    <2> QED BY <1>2, <2>5, <2>6
  <1>4. ASSUME NEW c \in Clients, BlockedTimeout(c) PROVE Inv'
    <2>1. Over(sv, unblockClient(sv, c)) BY <1>1, TimeoutOver
    <2>2. Local(unblockClient(sv, c)) BY <1>4 DEF BlockedTimeout
    <2> QED BY <1>2, <2>1, <2>2
  <1>5. ASSUME NEW c \in Clients, Disconnect(c) PROVE Inv'
    <2>1. Over(sv, freeClient(sv, c)) BY <1>1, FreeOver
    <2>2. Local(freeClient(sv, c)) BY <1>5 DEF Disconnect
    <2> QED BY <1>2, <2>1, <2>2
  <1>6. ASSUME NEW k \in Keys, Tick(k) PROVE Inv'
    <2>1. sv.ttl[k] = "later" /\ sv' = [sv EXCEPT !.ttl[k] = "due"] /\ workload' = workload
      BY <1>6 DEF Tick
    <2>2. Rests([sv EXCEPT !.ttl[k] = "due"]) BY <1>1, <2>1, TickRests
    <2>3. Rests(sv') BY <2>1, <2>2
    <2> QED BY <1>1, <2>1, <2>3 DEF Inv, Rests
  <1>7. ASSUME NEW k \in Keys, ExpireCycle(k) PROVE Inv'
    <2> DEFINE t == activeExpireCycleTryExpire(sv, k)
    <2>1. Local(t) BY <1>7 DEF ExpireCycle, After
    <2>2. t = dbDelete(propagateExpire(sv, k), k) BY DEF activeExpireCycleTryExpire
    <2>3. Over(sv, t)
      <3>1. Mid(sv, sv) /\ Keyed(sv) /\ Good(sv) /\ sv.ready = <<>> BY <1>1 DEF Over, Mid, Sound, Keyed
      <3>2. Changes(sv, t) BY <2>2, <3>1, GoneChanges
      <3>3. SameReady(sv, t) BY <2>2, <3>1, GoneFacts
      <3>4. Mid(sv, t) BY <3>1, <3>2, ChangesMid
      <3> QED BY <3>1, <3>3, <3>4 DEF Over, SameReady
    <2> HIDE DEF t
    <2> QED BY <1>2, <2>1, <2>3
  <1>8. ASSUME Resync PROVE Inv'
    <2>1. sv' = [sv EXCEPT !.cache = <<>>] /\ workload' = workload BY <1>8 DEF Resync
    <2>2. Rests([sv EXCEPT !.cache = <<>>]) BY <1>1, ResyncRests
    <2>3. Rests(sv') BY <2>1, <2>2
    <2> QED BY <1>1, <2>1, <2>3 DEF Inv, Rests
  <1>9. CASE UNCHANGED vars
    <2>1. sv' = sv /\ workload' = workload BY <1>9 DEF vars
    <2> QED BY <1>1, <2>1 DEF Inv, Rests
  <1> QED BY <1>3, <1>4, <1>5, <1>6, <1>7, <1>8, <1>9 DEF Next

\* The invariant holds in every state.
LEMMA Invariant == Spec => []Inv
  <1>1. Init => Inv
    <2> SUFFICES ASSUME Init PROVE Inv OBVIOUS
    <2>1. workload \in Workloads /\ sv = [NewServer(FALSE, Clients) EXCEPT !.val = workload.val]
      BY DEF Init
    <2>2. Rests([NewServer(FALSE, Clients) EXCEPT !.val = workload.val]) BY <2>1, InitRests
    <2>3. Rests(sv) BY <2>1, <2>2
    <2> QED BY <2>1, <2>3 DEF Inv
  <1> QED BY <1>1, InvStep, PTL DEF Spec

\* Between two commands the lists of a key, a channel or the patterns hold a
\* client exactly once if the client has the key or the channel, and not at all
\* otherwise; no key is left ready, no list is empty, and no flag of a
\* transaction, of a subscription or of a blocked client outlives it (watchCommand,
\* unwatchAllKeys, blockForKeys, unblockClient, the (un)subscriptions, freeClient,
\* handleClientsBlockedOnLists): whatever the clients send, in transactions and
\* scripts too, and whatever expires or is evicted.
THEOREM IndexesAgree == Spec => []Indexes
  <1>1. Inv => Indexes
    <2> SUFFICES ASSUME Inv PROVE Indexes OBVIOUS
    <2>1. /\ Sound(sv) /\ sv.ready = <<>> /\ \A k \in Keys : KeyOK(sv, k)
          /\ WatchersOK(sv) /\ WaitersOK(sv) /\ ChannelsOK(sv) /\ PatternsOK(sv)
          /\ \A c \in Clients : FlagsOK(sv.cl[c])
      BY DEF Inv, Rests, Sound, Keyed, ClientOK
    <2>2. \A k \in Keys : IsList(sv, k) => sv.val[k].v # <<>> BY <2>1, ListFacts
    <2>3. \A k \in Keys : sv.ttl[k] \in TTLs /\ (sv.ttl[k] = "none" \/ Exists(sv, k))
      BY <2>1 DEF KeyOK
    <2>4. ASSUME NEW c \in Clients
          PROVE  /\ \A k \in Keys : /\ Listed(sv.watching[k], c, k \in sv.cl[c].watched)
                                    /\ Listed(sv.blocking[k], c, k \in sv.cl[c].keys)
                 /\ \A ch \in Channels : Listed(sv.channels[ch], c, ch \in sv.cl[c].channels)
                 /\ \A p \in Patterns : Listed(sv.patterns, <<p, c>>, p \in sv.cl[c].patterns)
      BY <2>1 DEF WatchersOK, WaitersOK, ChannelsOK, PatternsOK
    <2>5. \A c \in Clients : FlagsOK(sv.cl[c]) BY <2>1
    <2> QED BY <2>1, <2>2, <2>3, <2>4, <2>5 DEF Indexes, FlagsOK
  <1> QED BY <1>1, Invariant, PTL

\* A client one of whose watched keys got another value, by a command, by a
\* command of a transaction or a script, or by a client that was served, has the
\* flag that makes EXEC fail (touchWatchedKey, touchWatchedKeysOnFlush, WATCH,
\* execCommand, discardTransaction).
THEOREM WatchedUnchangedHolds == Spec => []WatchedUnchanged
  <1>1. Inv => WatchedUnchanged
    BY DEF Inv, Rests, Sound, ClientOK, FlagsOK, WatchedUnchanged
  <1> QED BY <1>1, Invariant, PTL

\* When a command is over nobody waits for a list that has an element, unless the
\* list can come from SORT ... STORE, which stores it over a value of another type
\* without a signal (setKey, dbOverwrite, dbAdd, signalListAsReady,
\* handleClientsBlockedOnLists).
THEOREM WaitersServed ==
    Spec => [](\A k \in Keys \ Stored : IsList(sv, k) => sv.blocking[k] = <<>>)
  <1>1. Inv => \A k \in Keys \ Stored : IsList(sv, k) => sv.blocking[k] = <<>>
    BY DEF Inv, Rests, WaitedReady, Contains
  <1> QED BY <1>1, Invariant, PTL

\* Where no client and no script stores the result of a SORT, nobody waits for a
\* list that has an element when a command is over (handleClientsBlockedOnLists).
THEOREM BlockedServedHolds == ASSUME Stored = {} PROVE Spec => []BlockedServed
  <1>1. Inv => BlockedServed BY DEF Inv, Rests, WaitedReady, Contains, BlockedServed
  <1> QED BY <1>1, Invariant, PTL

(***************************************************************************)
(* Elements of lists.  L is the list of each key, G what each client got,  *)
(* P the elements that are on their way: queued in a transaction, or in    *)
(* the hand of the loop that serves the blocked clients.                   *)
(***************************************************************************)

\* Each of the first n elements is in exactly one place.
Once(L, G, P, n) ==
    /\ \A k \in Keys : L[k] \in Seq(1..n)
    /\ P \subseteq 1..n /\ \A c \in Clients : G[c] \subseteq 1..n
    /\ \A k, l \in Keys : \A i \in 1..Len(L[k]), j \in 1..Len(L[l]) :
         L[k][i] = L[l][j] => k = l /\ i = j
    /\ \A c, d \in Clients : \A x \in G[c] : x \in G[d] => c = d
    /\ \A c \in Clients : \A x \in G[c] : x \notin P
    /\ \A k \in Keys : \A i \in 1..Len(L[k]) : L[k][i] \notin P
    /\ \A k \in Keys : \A i \in 1..Len(L[k]) : \A c \in Clients : L[k][i] \notin G[c]
    /\ \A x \in 1..n : \/ x \in P \/ \E c \in Clients : x \in G[c]
                       \/ \E k \in Keys : \E i \in 1..Len(L[k]) : L[k][i] = x

\* r is q with x in front or at the end.
Ext(q, r, x) ==
    \E d \in {0, 1} : /\ Len(r) = Len(q) + 1 /\ r[IF d = 1 THEN 1 ELSE Len(r)] = x
                      /\ \A i \in 1..Len(q) : r[i + d] = q[i]

\* x is at p in r, the others d places behind where they are in q.
Shifted(q, r, x, p, d) ==
    /\ Len(r) = Len(q) + 1 /\ r[p] = x /\ p \in 1..Len(r) /\ d \in Int
    /\ \A i \in 1..Len(q) : i + d \in 1..Len(r) /\ i + d # p /\ r[i + d] = q[i]
    /\ \A i \in 1..Len(r) : i = p \/ (i - d \in 1..Len(q) /\ r[i] = q[i - d])

\* The places in q and in r.
LEMMA ExtPlaces ==
    ASSUME NEW q, NEW r, NEW x, Len(q) \in Nat, Ext(q, r, x)
    PROVE  \E p, d : Shifted(q, r, x, p, d)
  <1>1. PICK d \in {0, 1} : /\ Len(r) = Len(q) + 1 /\ r[IF d = 1 THEN 1 ELSE Len(r)] = x
                            /\ \A i \in 1..Len(q) : r[i + d] = q[i]
    BY DEF Ext
  <1> DEFINE p == IF d = 1 THEN 1 ELSE Len(r)
  <1>2. p \in 1..Len(r) /\ r[p] = x BY <1>1
  <1>3. \A i \in 1..Len(q) : i + d \in 1..Len(r) /\ i + d # p /\ r[i + d] = q[i] BY <1>1
  <1>4. ASSUME NEW i \in 1..Len(r), i # p PROVE i - d \in 1..Len(q) /\ r[i] = q[i - d]
    <2>1. i - d \in 1..Len(q) BY <1>1, <1>4
    <2>2. r[(i - d) + d] = q[i - d] BY <1>1, <2>1
    <2>3. (i - d) + d = i BY <1>1
    <2> QED BY <2>1, <2>2, <2>3
  <1>5. d \in Int /\ Len(r) = Len(q) + 1 BY <1>1
  <1> HIDE DEF p
  <1>6. Shifted(q, r, x, p, d) BY <1>2, <1>3, <1>4, <1>5 DEF Shifted
  <1> QED BY <1>6

\* An element that was on its way is put into a list.
LEMMA OncePut ==
    ASSUME NEW L, NEW M, NEW G, NEW P, NEW n \in Nat, NEW x, x \notin P, Once(L, G, P \cup {x}, n),
           NEW k \in Keys, Ext(L[k], M[k], x), M[k] \in Seq(1..n), \A j \in Keys : j # k => M[j] = L[j]
    PROVE  Once(M, G, P, n)
  <1>1. L[k] \in Seq(1..n) /\ Len(L[k]) \in Nat /\ Len(M[k]) \in Nat BY DEF Once
  <1>a. PICK p, d : Shifted(L[k], M[k], x, p, d) BY <1>1, ExtPlaces
  <1>2. /\ p \in 1..Len(M[k]) /\ d \in Int /\ Len(M[k]) = Len(L[k]) + 1 /\ M[k][p] = x
        /\ \A i \in 1..Len(L[k]) : i + d \in 1..Len(M[k]) /\ i + d # p /\ M[k][i + d] = L[k][i]
        /\ \A i \in 1..Len(M[k]) : i = p \/ (i - d \in 1..Len(L[k]) /\ M[k][i] = L[k][i - d])
    BY <1>a DEF Shifted
  <1>b. \A j, l \in Keys : \A a \in 1..Len(L[j]), b \in 1..Len(L[l]) : L[j][a] = L[l][b] => j = l /\ a = b
    BY DEF Once
  <1>3. ASSUME NEW j \in Keys, NEW i \in 1..Len(M[j])
        PROVE  \/ j = k /\ i = p /\ M[j][i] = x
               \/ \E m \in 1..Len(L[j]) : M[j][i] = L[j][m] /\ (i = m \/ (j = k /\ i = m + d))
                                          /\ (j = k => i = m + d /\ i # p)
    <2>1. CASE j # k BY <2>1
    <2>2. CASE j = k /\ i # p
      <3>1. i - d \in 1..Len(L[k]) /\ M[k][i] = L[k][i - d] BY <1>2, <2>2
      <3>2. (i - d) + d = i BY <1>1, <1>2, <2>2
      <3> QED BY <2>2, <3>1, <3>2
    <2>3. CASE j = k /\ i = p BY <1>2, <2>3
    <2> QED BY <2>1, <2>2, <2>3
  <1>4. \A j \in Keys : \A m \in 1..Len(L[j]) : L[j][m] # x /\ L[j][m] \notin P BY DEF Once
  <1>5. \A c \in Clients : x \notin G[c] /\ \A y \in G[c] : y \notin P BY DEF Once
  <1>6. \A j \in Keys : M[j] \in Seq(1..n) BY DEF Once
  <1>7. ASSUME NEW j \in Keys, NEW l \in Keys, NEW a \in 1..Len(M[j]), NEW b \in 1..Len(M[l]),
               M[j][a] = M[l][b]
        PROVE  j = l /\ a = b
    <2>1. CASE j = k /\ a = p
      <3>0. M[l][b] = x BY <1>2, <1>7, <2>1
      <3>1. \/ l = k /\ b = p /\ M[l][b] = x
            \/ \E m \in 1..Len(L[l]) : M[l][b] = L[l][m] /\ (b = m \/ (l = k /\ b = m + d))
                                       /\ (l = k => b = m + d /\ b # p)
        BY <1>3
      <3>2. \A m \in 1..Len(L[l]) : L[l][m] # x BY <1>4
      <3>3. l = k /\ b = p BY <3>0, <3>1, <3>2
      <3> QED BY <2>1, <3>3
    <2>2. CASE ~ (j = k /\ a = p)
      <3>1. PICK m \in 1..Len(L[j]) : M[j][a] = L[j][m] /\ (j # k => a = m) /\ (j = k => a = m + d)
        BY <1>3, <2>2
      <3>a. M[j][a] # x BY <1>4, <3>1
      <3>2. ~ (l = k /\ b = p) BY <1>2, <1>7, <3>a
      <3>3. PICK o \in 1..Len(L[l]) : M[l][b] = L[l][o] /\ (l # k => b = o) /\ (l = k => b = o + d)
        BY <1>3, <3>2
      <3>4. L[j][m] = L[l][o] BY <1>7, <3>1, <3>3
      <3>5. j = l /\ m = o BY <1>b, <3>4
      <3> QED BY <1>1, <1>2, <3>1, <3>3, <3>5
    <2> QED BY <2>1, <2>2
  <1>8. ASSUME NEW y \in 1..n
        PROVE  \/ y \in P \/ \E c \in Clients : y \in G[c]
               \/ \E j \in Keys : \E i \in 1..Len(M[j]) : M[j][i] = y
    <2>1. CASE y = x BY <1>2, <2>1
    <2>2. CASE \E j \in Keys : \E i \in 1..Len(L[j]) : L[j][i] = y
      <3>0. PICK j \in Keys : \E i \in 1..Len(L[j]) : L[j][i] = y BY <2>2
      <3>1. PICK i \in 1..Len(L[j]) : L[j][i] = y BY <3>0
      <3>2. CASE j = k BY <1>2, <3>1, <3>2
      <3>3. CASE j # k BY <3>1, <3>3
      <3> QED BY <3>2, <3>3
    <2>3. CASE y # x /\ ~ (\E j \in Keys : \E i \in 1..Len(L[j]) : L[j][i] = y)
      <3>1. y \in P \cup {x} \/ \E c \in Clients : y \in G[c] BY <2>3 DEF Once
      <3> QED BY <2>3, <3>1
    <2> QED BY <2>1, <2>2, <2>3
  <1>9. \A j \in Keys : \A i \in 1..Len(M[j]) : M[j][i] \notin P /\ \A c \in Clients : M[j][i] \notin G[c]
    <2> SUFFICES ASSUME NEW j \in Keys, NEW i \in 1..Len(M[j])
                 PROVE  M[j][i] \notin P /\ \A c \in Clients : M[j][i] \notin G[c]
      OBVIOUS
    <2>1. CASE j = k /\ i = p BY <1>2, <1>5, <2>1
    <2>2. CASE ~ (j = k /\ i = p)
      <3>1. PICK m \in 1..Len(L[j]) : M[j][i] = L[j][m] BY <1>3, <2>2
      <3> QED BY <1>4, <3>1 DEF Once
    <2> QED BY <2>1, <2>2
  <1>10. P \subseteq 1..n /\ \A c \in Clients : G[c] \subseteq 1..n BY DEF Once
  <1>11. \A c, e \in Clients : \A y \in G[c] : y \in G[e] => c = e BY DEF Once
  <1> QED BY <1>5, <1>6, <1>7, <1>8, <1>9, <1>10, <1>11 DEF Once

\* An element is taken out of a list.
LEMMA OnceCut ==
    ASSUME NEW L, NEW M, NEW G, NEW P, NEW n \in Nat, NEW x, Once(L, G, P, n),
           NEW k \in Keys, Ext(M[k], L[k], x), M[k] \in Seq(1..n), \A j \in Keys : j # k => M[j] = L[j]
    PROVE  x \notin P /\ Once(M, G, P \cup {x}, n)
  <1>1. L[k] \in Seq(1..n) /\ Len(L[k]) \in Nat /\ Len(M[k]) \in Nat BY DEF Once
  <1>a. PICK p, d : Shifted(M[k], L[k], x, p, d) BY <1>1, ExtPlaces
  <1>2. /\ p \in 1..Len(L[k]) /\ d \in Int /\ Len(L[k]) = Len(M[k]) + 1 /\ L[k][p] = x
        /\ \A i \in 1..Len(M[k]) : i + d \in 1..Len(L[k]) /\ i + d # p /\ L[k][i + d] = M[k][i]
        /\ \A i \in 1..Len(L[k]) : i = p \/ (i - d \in 1..Len(M[k]) /\ L[k][i] = M[k][i - d])
    BY <1>a DEF Shifted
  <1>b. \A j, l \in Keys : \A a \in 1..Len(L[j]), b \in 1..Len(L[l]) : L[j][a] = L[l][b] => j = l /\ a = b
    BY DEF Once
  <1>3. ASSUME NEW j \in Keys, NEW i \in 1..Len(M[j])
        PROVE  \E m \in 1..Len(L[j]) : M[j][i] = L[j][m] /\ (j # k => i = m) /\ (j = k => m = i + d /\ m # p)
    <2>1. CASE j # k BY <2>1
    <2>2. CASE j = k
      <3>1. i + d \in 1..Len(L[k]) /\ i + d # p /\ L[k][i + d] = M[k][i] BY <1>2, <2>2
      <3> QED BY <2>2, <3>1
    <2> QED BY <2>1, <2>2
  <1>c. L[k][p] \in 1..n /\ L[k][p] \notin P /\ \A c \in Clients : L[k][p] \notin G[c]
    BY <1>1, <1>2 DEF Once
  <1>4. x \in 1..n /\ x \notin P /\ \A c \in Clients : x \notin G[c] BY <1>2, <1>c
  <1>5. \A j \in Keys : M[j] \in Seq(1..n) BY DEF Once
  <1>6. ASSUME NEW j \in Keys, NEW l \in Keys, NEW a \in 1..Len(M[j]), NEW b \in 1..Len(M[l]),
               M[j][a] = M[l][b]
        PROVE  j = l /\ a = b
    <2>1. PICK m \in 1..Len(L[j]) : M[j][a] = L[j][m] /\ (j # k => a = m) /\ (j = k => m = a + d)
      BY <1>3
    <2>2. PICK o \in 1..Len(L[l]) : M[l][b] = L[l][o] /\ (l # k => b = o) /\ (l = k => o = b + d)
      BY <1>3
    <2>3. L[j][m] = L[l][o] BY <1>6, <2>1, <2>2
    <2>4. j = l /\ m = o BY <1>b, <2>3
    <2> QED BY <1>1, <1>2, <2>1, <2>2, <2>4
  <1>7. \A j \in Keys : \A i \in 1..Len(M[j]) :
          M[j][i] \notin P \cup {x} /\ \A c \in Clients : M[j][i] \notin G[c]
    <2> SUFFICES ASSUME NEW j \in Keys, NEW i \in 1..Len(M[j])
                 PROVE  M[j][i] \notin P \cup {x} /\ \A c \in Clients : M[j][i] \notin G[c]
      OBVIOUS
    <2>1. PICK m \in 1..Len(L[j]) : M[j][i] = L[j][m] /\ (j = k => m # p) BY <1>3
    <2>2. L[j][m] # x BY <1>b, <1>2, <2>1
    <2> QED BY <2>1, <2>2 DEF Once
  <1>8. ASSUME NEW y \in 1..n
        PROVE  \/ y \in P \cup {x} \/ \E c \in Clients : y \in G[c]
               \/ \E j \in Keys : \E i \in 1..Len(M[j]) : M[j][i] = y
    <2>1. CASE y = x BY <2>1
    <2>2. CASE y # x /\ \E j \in Keys : \E i \in 1..Len(L[j]) : L[j][i] = y
      <3>0. PICK j \in Keys : \E i \in 1..Len(L[j]) : L[j][i] = y BY <2>2
      <3>1. PICK i \in 1..Len(L[j]) : L[j][i] = y BY <3>0
      <3>2. CASE j = k BY <1>2, <2>2, <3>1, <3>2
      <3>3. CASE j # k BY <3>1, <3>3
      <3> QED BY <3>2, <3>3
    <2>3. CASE ~ (\E j \in Keys : \E i \in 1..Len(L[j]) : L[j][i] = y)
      <3>1. y \in P \/ \E c \in Clients : y \in G[c] BY <2>3 DEF Once
      <3> QED BY <3>1
    <2> QED BY <2>1, <2>2, <2>3
  <1>9. P \cup {x} \subseteq 1..n /\ \A c \in Clients : G[c] \subseteq 1..n BY <1>4 DEF Once
  <1>10. \A c, e \in Clients : \A y \in G[c] : y \in G[e] => c = e BY DEF Once
  <1>11. \A c \in Clients : \A y \in G[c] : y \notin P \cup {x} BY <1>4 DEF Once
  <1> QED BY <1>4, <1>5, <1>6, <1>7, <1>8, <1>9, <1>10, <1>11 DEF Once

\* A client gets an element.
LEMMA OnceGot ==
    ASSUME NEW L, NEW G, NEW H, NEW P, NEW n \in Nat, NEW x, x \notin P, Once(L, G, P \cup {x}, n),
           NEW c \in Clients, H[c] = G[c] \cup {x}, \A d \in Clients : d # c => H[d] = G[d]
    PROVE  Once(L, H, P, n)
  <1>1. x \in 1..n /\ \A d \in Clients : x \notin G[d] BY DEF Once
  <1>2. \A d \in Clients : H[d] \subseteq 1..n /\ \A y \in H[d] : y \notin P BY <1>1, SeqMonotonic DEF Once
  <1>3. \A d, e \in Clients : \A y \in H[d] : y \in H[e] => d = e BY <1>1, SeqMonotonic DEF Once
  <1>4. \A k \in Keys : \A i \in 1..Len(L[k]) : L[k][i] \notin P /\ \A d \in Clients : L[k][i] \notin H[d]
    BY DEF Once
  <1>5. ASSUME NEW y \in 1..n
        PROVE  \/ y \in P \/ \E d \in Clients : y \in H[d]
               \/ \E k \in Keys : \E i \in 1..Len(L[k]) : L[k][i] = y
    BY DEF Once
  <1> QED BY <1>2, <1>3, <1>4, <1>5 DEF Once

\* A new element is on its way.
LEMMA OnceNew ==
    ASSUME NEW L, NEW G, NEW P, NEW n \in Nat, Once(L, G, P, n)
    PROVE  n + 1 \notin P /\ Once(L, G, P \cup {n + 1}, n + 1)
  <1>1. 1..n \subseteq 1..(n + 1) /\ n + 1 \notin 1..n /\ 1..(n + 1) = 1..n \cup {n + 1} OBVIOUS
  <1>2. n + 1 \notin P /\ P \cup {n + 1} \subseteq 1..(n + 1) BY <1>1, SeqMonotonic DEF Once
  <1>3. \A c \in Clients : G[c] \subseteq 1..(n + 1) /\ n + 1 \notin G[c] BY <1>1, SeqMonotonic DEF Once
  <1>4. \A k \in Keys : L[k] \in Seq(1..(n + 1)) BY <1>1, SeqMonotonic DEF Once
  <1>5. \A k \in Keys : \A i \in 1..Len(L[k]) : L[k][i] # n + 1 BY <1>1, SeqMonotonic DEF Once
  <1>6. \A c \in Clients : \A y \in G[c] : y \notin P \cup {n + 1} BY <1>3 DEF Once
  <1>7. \A k \in Keys : \A i \in 1..Len(L[k]) : L[k][i] \notin P \cup {n + 1} BY <1>5 DEF Once
  <1>8. ASSUME NEW y \in 1..(n + 1)
        PROVE  \/ y \in P \cup {n + 1} \/ \E d \in Clients : y \in G[d]
               \/ \E k \in Keys : \E i \in 1..Len(L[k]) : L[k][i] = y
    BY <1>1, SeqMonotonic DEF Once
  <1> QED BY <1>2, <1>3, <1>4, <1>6, <1>7, <1>8 DEF Once

\* The list of a key; what each client got.
Elems(s, k) == IF IsList(s, k) THEN s.val[k].v ELSE <<>>
ListsOf(s) == [k \in Keys |-> Elems(s, k)]
GotOf(s) == [c \in Clients |-> s.cl[c].got]

\* In a workload of lists: nothing is watched, subscribed to or refused ...
PlainClient(r) ==
    /\ r.watched = {} /\ r.exec = FALSE /\ r.channels = {} /\ r.patterns = {}
    /\ r.target \in Keys \cup {None} /\ r.head \in BOOLEAN

\* ... no key has an expire, and the strings are those of the beginning.
PlainKey(w, s, k) ==
    /\ s.ttl[k] = "none" /\ s.val[k] = [type |-> s.val[k].type, v |-> s.val[k].v]
    /\ s.val[k] = Absent \/ s.val[k].type = "list" \/ s.val[k].type = "string"
    /\ s.val[k].type = "string" <=> w.val[k].type = "string"

Plain(w, s) ==
    /\ IsServer(s) /\ \A k \in Keys : PlainKey(w, s, k)
    /\ \A c \in Clients : PlainClient(s.cl[c])

Flow(w, s, P, n) == Plain(w, s) /\ Once(ListsOf(s), GotOf(s), P, n)

\* t comes from s; the elements of P are now on their way.
Carries(w, s, t, P, n) ==
    /\ Flow(w, t, P, n)
    /\ \A c \in Clients : t.cl[c].queue = s.cl[c].queue /\ t.cl[c].multi = s.cl[c].multi
    /\ \A k \in Keys : IsList(s, k) => IsList(t, k)

\* Two steps.
LEMMA CarriesTrans ==
    ASSUME NEW w, NEW s, NEW t, NEW u, NEW P, NEW Q, NEW n, Carries(w, s, t, P, n), Carries(w, t, u, Q, n)
    PROVE  Carries(w, s, u, Q, n)
  BY DEF Carries

\* Nothing happens.
LEMMA CarriesSame ==
    ASSUME NEW w, NEW s, NEW P, NEW n, Flow(w, s, P, n)
    PROVE  Carries(w, s, s, P, n)
  BY DEF Carries

\* The clients are as they were, as far as a workload of lists is concerned.
Kept(s, t) ==
    \A c \in Clients : /\ PlainClient(t.cl[c]) /\ t.cl[c].got = s.cl[c].got
                       /\ t.cl[c].queue = s.cl[c].queue /\ t.cl[c].multi = s.cl[c].multi

\* A step that moves no element.
LEMMA FlowStill ==
    ASSUME NEW w, NEW s, NEW t, NEW P, NEW n, Flow(w, s, P, n), IsServer(t), Kept(s, t),
           NEW k \in Keys, \A j \in Keys : j # k => t.val[j] = s.val[j] /\ t.ttl[j] = s.ttl[j],
           PlainKey(w, t, k), Elems(t, k) = Elems(s, k), IsList(s, k) => IsList(t, k)
    PROVE  Carries(w, s, t, P, n)
  <1>1. \A j \in Keys : Elems(t, j) = Elems(s, j) /\ (IsList(s, j) => IsList(t, j)) BY DEF Elems, IsList
  <1>2. ListsOf(t) = ListsOf(s) BY <1>1 DEF ListsOf
  <1>3. GotOf(t) = GotOf(s) BY DEF GotOf, Kept
  <1>4. \A j \in Keys : PlainKey(w, t, j) BY DEF Flow, Plain, PlainKey
  <1>5. Flow(w, t, P, n) BY <1>2, <1>3, <1>4 DEF Flow, Plain, Kept
  <1> QED BY <1>1, <1>5 DEF Carries, Kept

\* A step that changes no key.
LEMMA FlowSame ==
    ASSUME NEW w, NEW s, NEW t, NEW P, NEW n, Flow(w, s, P, n), IsServer(t), Kept(s, t),
           t.val = s.val, t.ttl = s.ttl
    PROVE  Carries(w, s, t, P, n)
  <1>1. \A j \in Keys : Elems(t, j) = Elems(s, j) /\ (IsList(s, j) => IsList(t, j)) BY DEF Elems, IsList
  <1>2. ListsOf(t) = ListsOf(s) BY <1>1 DEF ListsOf
  <1>3. GotOf(t) = GotOf(s) BY DEF GotOf, Kept
  <1>4. \A j \in Keys : PlainKey(w, t, j) BY DEF Flow, Plain, PlainKey
  <1>5. Flow(w, t, P, n) BY <1>2, <1>3, <1>4 DEF Flow, Plain, Kept
  <1> QED BY <1>1, <1>5 DEF Carries, Kept

\* An element that was on its way is put into the list of k.
LEMMA FlowPut ==
    ASSUME NEW w, NEW s, NEW t, NEW P, NEW n \in Nat, NEW x, x \notin P, Flow(w, s, P \cup {x}, n),
           IsServer(t), Kept(s, t), NEW k \in Keys,
           \A j \in Keys : j # k => t.val[j] = s.val[j] /\ t.ttl[j] = s.ttl[j],
           PlainKey(w, t, k), IsList(t, k), t.val[k].v \in Seq(1..n), Ext(Elems(s, k), t.val[k].v, x)
    PROVE  Carries(w, s, t, P, n)
  <1>1. \A j \in Keys : j # k => Elems(t, j) = Elems(s, j) BY DEF Elems, IsList
  <1>2. \A j \in Keys : IsList(s, j) => IsList(t, j) BY DEF IsList
  <1>3. Elems(t, k) = t.val[k].v BY DEF Elems
  <1>4. Once(ListsOf(s), GotOf(s), P \cup {x}, n) BY DEF Flow
  <1>5. ListsOf(s)[k] = Elems(s, k) /\ ListsOf(t)[k] = Elems(t, k) BY DEF ListsOf
  <1>6. \A j \in Keys : j # k => ListsOf(t)[j] = ListsOf(s)[j] BY <1>1 DEF ListsOf
  <1>7. Once(ListsOf(t), GotOf(s), P, n) BY <1>3, <1>4, <1>5, <1>6, OncePut
  <1>8. GotOf(t) = GotOf(s) BY DEF GotOf, Kept
  <1>9. \A j \in Keys : PlainKey(w, t, j) BY DEF Flow, Plain, PlainKey
  <1>10. Flow(w, t, P, n) BY <1>7, <1>8, <1>9 DEF Flow, Plain, Kept
  <1> QED BY <1>2, <1>10 DEF Carries, Kept

\* An element is taken out of the list of k.
LEMMA FlowCut ==
    ASSUME NEW w, NEW s, NEW t, NEW P, NEW n \in Nat, NEW x, Flow(w, s, P, n),
           IsServer(t), Kept(s, t), NEW k \in Keys,
           \A j \in Keys : j # k => t.val[j] = s.val[j] /\ t.ttl[j] = s.ttl[j],
           PlainKey(w, t, k), IsList(t, k), t.val[k].v \in Seq(1..n), Ext(t.val[k].v, Elems(s, k), x)
    PROVE  x \notin P /\ Carries(w, s, t, P \cup {x}, n)
  <1>1. \A j \in Keys : j # k => Elems(t, j) = Elems(s, j) BY DEF Elems, IsList
  <1>2. \A j \in Keys : IsList(s, j) => IsList(t, j) BY DEF IsList
  <1>3. Elems(t, k) = t.val[k].v BY DEF Elems
  <1>4. Once(ListsOf(s), GotOf(s), P, n) BY DEF Flow
  <1>5. ListsOf(s)[k] = Elems(s, k) /\ ListsOf(t)[k] = Elems(t, k) BY DEF ListsOf
  <1>6. \A j \in Keys : j # k => ListsOf(t)[j] = ListsOf(s)[j] BY <1>1 DEF ListsOf
  <1>a. Ext(ListsOf(t)[k], ListsOf(s)[k], x) /\ ListsOf(t)[k] \in Seq(1..n) BY <1>3, <1>5
  <1>7. x \notin P /\ Once(ListsOf(t), GotOf(s), P \cup {x}, n)
    <2> DEFINE L == ListsOf(s)
               M == ListsOf(t)
               G == GotOf(s)
    <2>1. /\ Once(L, G, P, n) /\ Ext(M[k], L[k], x) /\ M[k] \in Seq(1..n)
          /\ \A j \in Keys : j # k => M[j] = L[j]
      BY <1>4, <1>6, <1>a
    <2> HIDE DEF L, M, G
    <2>2. x \notin P /\ Once(M, G, P \cup {x}, n) BY ONLY <2>1, n \in Nat, k \in Keys, OnceCut
    <2> QED BY <2>2 DEF L, M, G
  <1>8. GotOf(t) = GotOf(s) BY DEF GotOf, Kept
  <1>9. \A j \in Keys : PlainKey(w, t, j) BY DEF Flow, Plain, PlainKey
  <1>10. Flow(w, t, P \cup {x}, n) BY <1>7, <1>8, <1>9 DEF Flow, Plain, Kept
  <1> QED BY <1>2, <1>7, <1>10 DEF Carries, Kept

\* The books.
LEMMA FlowBooks ==
    ASSUME NEW w, NEW s, NEW t, NEW P, NEW n, Flow(w, s, P, n), DOMAIN t = DOMAIN s,
           t.val = s.val, t.ttl = s.ttl, t.cl = s.cl, DOMAIN t.watching = DOMAIN s.watching,
           DOMAIN t.blocking = DOMAIN s.blocking, DOMAIN t.channels = DOMAIN s.channels
    PROVE  Carries(w, s, t, P, n)
  <1>1. IsServer(s) /\ \A c \in Clients : PlainClient(s.cl[c]) BY DEF Flow, Plain
  <1>2. IsServer(t) BY <1>1 DEF IsServer
  <1>3. Kept(s, t) BY <1>1 DEF Kept
  <1> QED BY <1>2, <1>3, FlowSame

\* The counter of changes, what is propagated, the arguments, the ready keys and the cache.
LEMMA BooksCarry ==
    ASSUME NEW w, NEW s, NEW P, NEW n, Flow(w, s, P, n), NEW x, NEW y
    PROVE  /\ Carries(w, s, Dirty(s), P, n) /\ Carries(w, s, propagate(s, x), P, n)
           /\ Carries(w, s, [s EXCEPT !.argv = x], P, n)
           /\ Carries(w, s, [s EXCEPT !.argv = x, !.force = y], P, n)
           /\ Carries(w, s, [s EXCEPT !.ready = x], P, n) /\ Carries(w, s, [s EXCEPT !.cache = x], P, n)
  <1>1. IsServer(s) BY DEF Flow, Plain
  <1>2. Carries(w, s, Dirty(s), P, n)
    <2> DEFINE t == Dirty(s)
    <2>1. /\ DOMAIN t = DOMAIN s /\ t.val = s.val /\ t.ttl = s.ttl /\ t.cl = s.cl
          /\ t.watching = s.watching /\ t.blocking = s.blocking /\ t.channels = s.channels
      BY <1>1 DEF IsServer, Dirty
    <2> HIDE DEF t
    <2>2. Carries(w, s, t, P, n) BY <2>1, FlowBooks
    <2> QED BY <2>2 DEF t
  <1>3. Carries(w, s, propagate(s, x), P, n)
    <2> DEFINE t == propagate(s, x)
    <2>1. /\ DOMAIN t = DOMAIN s /\ t.val = s.val /\ t.ttl = s.ttl /\ t.cl = s.cl
          /\ t.watching = s.watching /\ t.blocking = s.blocking /\ t.channels = s.channels
      BY <1>1 DEF IsServer, propagate
    <2> HIDE DEF t
    <2>2. Carries(w, s, t, P, n) BY <2>1, FlowBooks
    <2> QED BY <2>2 DEF t
  <1>4. Carries(w, s, [s EXCEPT !.argv = x], P, n) BY <1>1, FlowBooks DEF IsServer
  <1>5. Carries(w, s, [s EXCEPT !.argv = x, !.force = y], P, n) BY <1>1, FlowBooks DEF IsServer
  <1>6. Carries(w, s, [s EXCEPT !.ready = x], P, n) BY <1>1, FlowBooks DEF IsServer
  <1>7. Carries(w, s, [s EXCEPT !.cache = x], P, n) BY <1>1, FlowBooks DEF IsServer
  <1> QED BY <1>2, <1>3, <1>4, <1>5, <1>6, <1>7

\* touchWatchedKey, signalListAsReady, and the expire that no key has.
LEMMA SignalCarries ==
    ASSUME NEW w, NEW s, NEW P, NEW n, Flow(w, s, P, n), NEW k \in Keys
    PROVE  /\ Carries(w, s, signalModifiedKey(s, k), P, n) /\ Carries(w, s, signalListAsReady(s, k), P, n)
           /\ signalListAsReady(s, k).val = s.val
           /\ expireIfNeeded(s, k) = s /\ lookupKeyRead(s, k) = s /\ lookupKeyWrite(s, k) = s
  <1>1. IsServer(s) /\ s.ttl[k] = "none" /\ \A c \in Clients : PlainClient(s.cl[c])
    BY DEF Flow, Plain, PlainKey
  <1>2. Carries(w, s, signalModifiedKey(s, k), P, n)
    <2> DEFINE t == touchWatchedKey(s, k)
    <2>1. /\ DOMAIN t = DOMAIN s /\ t.val = s.val /\ t.ttl = s.ttl
          /\ t.watching = s.watching /\ t.blocking = s.blocking /\ t.channels = s.channels
          /\ t.cl = [c \in Clients |-> IF Contains(s.watching[k], c)
                                       THEN [s.cl[c] EXCEPT !.cas = TRUE] ELSE s.cl[c]]
      BY <1>1 DEF IsServer, touchWatchedKey
    <2> HIDE DEF t
    <2>2. ASSUME NEW c \in Clients
          PROVE  /\ IsClient(t.cl[c]) /\ PlainClient(t.cl[c]) /\ t.cl[c].got = s.cl[c].got
                 /\ t.cl[c].queue = s.cl[c].queue /\ t.cl[c].multi = s.cl[c].multi
      <3>1. IsClient(s.cl[c]) /\ PlainClient(s.cl[c]) BY <1>1 DEF IsServer
      <3>2. t.cl[c] = s.cl[c] \/ t.cl[c] = [s.cl[c] EXCEPT !.cas = TRUE] BY <2>1
      <3> QED BY <3>1, <3>2 DEF IsClient, PlainClient
    <2>3. IsServer(t) BY <1>1, <2>1, <2>2 DEF IsServer
    <2>4. Kept(s, t) BY <2>2 DEF Kept
    <2>5. Carries(w, s, t, P, n) BY <2>1, <2>3, <2>4, FlowSame
    <2> QED BY <2>5 DEF t, signalModifiedKey
  <1>3. Carries(w, s, signalListAsReady(s, k), P, n) /\ signalListAsReady(s, k).val = s.val
    <2>1. CASE signalListAsReady(s, k) = s BY <2>1, CarriesSame
    <2>2. CASE signalListAsReady(s, k) = [s EXCEPT !.ready = Append(s.ready, k)]
      <3> DEFINE q == Append(s.ready, k)
      <3> HIDE DEF q
      <3>1. Carries(w, s, [s EXCEPT !.ready = q], P, n) BY BooksCarry, Zenon
      <3>2. [s EXCEPT !.ready = q].val = s.val BY <1>1 DEF IsServer
      <3> QED BY <2>2, <3>1, <3>2 DEF q
    <2> QED BY <2>1, <2>2 DEF signalListAsReady
  <1>4. expireIfNeeded(s, k) = s BY <1>1 DEF expireIfNeeded
  <1> QED BY <1>2, <1>3, <1>4 DEF lookupKeyRead, lookupKeyWrite

\* A step at one client.
LEMMA FlowOwn ==
    ASSUME NEW w, NEW s, NEW t, NEW P, NEW n, Flow(w, s, P, n), NEW c \in Clients, NEW q,
           DOMAIN t = DOMAIN s, t.val = s.val, t.ttl = s.ttl, t.cl = [s.cl EXCEPT ![c] = q],
           DOMAIN t.watching = Keys, DOMAIN t.blocking = Keys, DOMAIN t.channels = Channels,
           IsClient(q), PlainClient(q), q.got = s.cl[c].got, q.queue = s.cl[c].queue,
           q.multi = s.cl[c].multi
    PROVE  Carries(w, s, t, P, n)
  <1>1. IsServer(s) /\ \A d \in Clients : PlainClient(s.cl[d]) BY DEF Flow, Plain
  <1>2. \A d \in Clients : t.cl[d] = IF d = c THEN q ELSE s.cl[d] BY <1>1 DEF IsServer
  <1>3. IsServer(t) BY <1>1, <1>2 DEF IsServer
  <1>4. Kept(s, t) BY <1>1, <1>2 DEF Kept
  <1> QED BY <1>3, <1>4, FlowSame

\* unblockClient
LEMMA UnblockCarries ==
    ASSUME NEW w, NEW s, NEW P, NEW n, Flow(w, s, P, n), NEW c \in Clients
    PROVE  Carries(w, s, unblockClient(s, c), P, n)
  <1> DEFINE r == s.cl[c]
             t == unblockClient(s, c)
             q == [[[r EXCEPT !.keys = {}] EXCEPT !.target = None] EXCEPT !.blocked = FALSE]
             y == [k \in Keys |-> IF k \in r.keys THEN RemoveFirst(s.blocking[k], c) ELSE s.blocking[k]]
  <1>1. IsServer(s) /\ IsClient(r) /\ PlainClient(r) BY DEF Flow, Plain, IsServer
  <1>2. IsClient(q) /\ PlainClient(q) /\ q.got = r.got /\ q.queue = r.queue /\ q.multi = r.multi
    <2> HIDE DEF r
    <2> QED BY <1>1 DEF IsClient, PlainClient
  <1>3. /\ DOMAIN t = DOMAIN s /\ t.val = s.val /\ t.ttl = s.ttl /\ t.watching = s.watching
        /\ t.channels = s.channels /\ t.blocking = y /\ t.cl = [s.cl EXCEPT ![c] = q]
    <2>1. t = [s EXCEPT !.blocking = y, !.cl[c].keys = {}, !.cl[c].target = None,
                        !.cl[c].blocked = FALSE]
      BY <1>1 DEF unblockClient, IsServer
    <2> HIDE DEF t, y
    <2> QED BY <1>1, <2>1 DEF IsServer
  <1>4. DOMAIN t.watching = Keys /\ DOMAIN t.blocking = Keys /\ DOMAIN t.channels = Channels
    BY <1>1, <1>3 DEF IsServer
  <1> HIDE DEF q, t, y
  <1>5. Carries(w, s, t, P, n) BY <1>2, <1>3, <1>4, FlowOwn
  <1> QED BY <1>5 DEF t

\* blockForKeys
LEMMA BlockCarries ==
    ASSUME NEW w, NEW s, NEW P, NEW n, Flow(w, s, P, n), NEW c \in Clients, NEW D,
           NEW dst \in Keys \cup {None}, NEW head \in BOOLEAN
    PROVE  Carries(w, s, blockForKeys(s, c, D, dst, head), P, n)
  <1> DEFINE r == s.cl[c]
             t == blockForKeys(s, c, D, dst, head)
             q == [[[[r EXCEPT !.keys = D] EXCEPT !.target = dst] EXCEPT !.head = head]
                      EXCEPT !.blocked = TRUE]
             y == [k \in Keys |-> IF k \in D THEN Append(s.blocking[k], c) ELSE s.blocking[k]]
  <1>1. IsServer(s) /\ IsClient(r) /\ PlainClient(r) BY DEF Flow, Plain, IsServer
  <1>2. IsClient(q) /\ PlainClient(q) /\ q.got = r.got /\ q.queue = r.queue /\ q.multi = r.multi
    <2> HIDE DEF r
    <2> QED BY <1>1 DEF IsClient, PlainClient
  <1>3. /\ DOMAIN t = DOMAIN s /\ t.val = s.val /\ t.ttl = s.ttl /\ t.watching = s.watching
        /\ t.channels = s.channels /\ t.blocking = y /\ t.cl = [s.cl EXCEPT ![c] = q]
    <2>1. t = [s EXCEPT !.blocking = y, !.cl[c].keys = D, !.cl[c].target = dst, !.cl[c].head = head,
                        !.cl[c].blocked = TRUE]
      BY <1>1 DEF blockForKeys, IsServer
    <2> HIDE DEF t, y
    <2> QED BY <1>1, <2>1 DEF IsServer
  <1>4. DOMAIN t.watching = Keys /\ DOMAIN t.blocking = Keys /\ DOMAIN t.channels = Channels
    BY <1>1, <1>3 DEF IsServer
  <1> HIDE DEF q, t, y
  <1>5. Carries(w, s, t, P, n) BY <1>2, <1>3, <1>4, FlowOwn
  <1> QED BY <1>5 DEF t

\* Got: an element that was on its way is at its client.
LEMMA GotCarries ==
    ASSUME NEW w, NEW s, NEW P, NEW n \in Nat, NEW x, x \notin P, Flow(w, s, P \cup {x}, n),
           NEW c \in Clients
    PROVE  Carries(w, s, Got(s, c, x), P, n)
  <1> DEFINE t == Got(s, c, x)
  <1>1. IsServer(s) /\ \A d \in Clients : PlainClient(s.cl[d]) BY DEF Flow, Plain
  <1>2. /\ DOMAIN t = DOMAIN s /\ t.watching = s.watching
        /\ t.blocking = s.blocking /\ t.channels = s.channels /\ t.val = s.val /\ t.ttl = s.ttl
        /\ t.cl = [s.cl EXCEPT ![c].got = s.cl[c].got \cup {x}]
    BY <1>1 DEF Got, IsServer
  <1> HIDE DEF t
  <1>3. ASSUME NEW d \in Clients
        PROVE  /\ IsClient(t.cl[d]) /\ PlainClient(t.cl[d]) /\ t.cl[d].queue = s.cl[d].queue
               /\ t.cl[d].multi = s.cl[d].multi
               /\ t.cl[d].got = IF d = c THEN s.cl[d].got \cup {x} ELSE s.cl[d].got
    <2>1. IsClient(s.cl[d]) /\ PlainClient(s.cl[d]) BY <1>1 DEF IsServer
    <2>2. t.cl[d] = IF d = c THEN [s.cl[d] EXCEPT !.got = s.cl[d].got \cup {x}] ELSE s.cl[d]
      BY <1>1, <1>2 DEF IsServer
    <2> QED BY <2>1, <2>2 DEF IsClient, PlainClient
  <1>4. IsServer(t) BY <1>1, <1>2, <1>3 DEF IsServer
  <1>5. \A k \in Keys : PlainKey(w, t, k) /\ Elems(t, k) = Elems(s, k) /\ (IsList(s, k) => IsList(t, k))
    BY <1>2 DEF Flow, Plain, PlainKey, Elems, IsList
  <1>6. ListsOf(t) = ListsOf(s) BY <1>5 DEF ListsOf
  <1>7. GotOf(t)[c] = GotOf(s)[c] \cup {x} /\ \A d \in Clients : d # c => GotOf(t)[d] = GotOf(s)[d]
    BY <1>3 DEF GotOf
  <1>8. Once(ListsOf(s), GotOf(s), P \cup {x}, n) BY DEF Flow
  <1>9. Once(ListsOf(s), GotOf(t), P, n) BY <1>7, <1>8, OnceGot
  <1>10. Flow(w, t, P, n) BY <1>3, <1>4, <1>5, <1>6, <1>9 DEF Flow, Plain
  <1>11. Carries(w, s, t, P, n) BY <1>3, <1>5, <1>10 DEF Carries
  <1> QED BY <1>11 DEF t

\* A list and its two ends.
LEMMA ExtPush ==
    ASSUME NEW S, NEW q \in Seq(S), NEW x \in S, NEW head \in BOOLEAN
    PROVE  LET r == IF head THEN <<x>> \o q ELSE Append(q, x) IN r \in Seq(S) /\ Ext(q, r, x)
  <1>1. Len(q) \in Nat BY LenProperties
  <1>2. CASE head = TRUE
    <2> DEFINE r == <<x>> \o q
    <2>1. <<x>> \in Seq(S) /\ Len(<<x>>) = 1 /\ <<x>>[1] = x OBVIOUS
    <2>2. r \in Seq(S) /\ Len(r) = 1 + Len(q) BY <2>1, ConcatProperties
    <2>3. r[1] = x /\ \A i \in 1..Len(q) : r[i + 1] = q[i] BY <1>1, <2>1, ConcatProperties
    <2> HIDE DEF r
    <2>4. Len(r) = Len(q) + 1 BY <1>1, <2>2
    <2>5. Ext(q, r, x) BY <2>3, <2>4 DEF Ext
    <2> QED BY <1>2, <2>2, <2>5 DEF r
  <1>3. CASE head = FALSE
    <2> DEFINE r == Append(q, x)
    <2>1. r \in Seq(S) /\ Len(r) = Len(q) + 1 /\ r[Len(q) + 1] = x /\ \A i \in 1..Len(q) : r[i] = q[i]
      BY AppendProperties
    <2> HIDE DEF r
    <2>2. r[Len(r)] = x /\ \A i \in 1..Len(q) : r[i + 0] = q[i] BY <1>1, <2>1
    <2>3. Ext(q, r, x) BY <2>1, <2>2 DEF Ext
    <2> QED BY <1>3, <2>1, <2>3 DEF r
  <1> QED BY <1>2, <1>3

\* Popped from either end.
LEMMA ExtPop ==
    ASSUME NEW S, NEW q \in Seq(S), q # <<>>, NEW head \in BOOLEAN
    PROVE  LET r == IF head THEN Tail(q) ELSE Front(q) IN r \in Seq(S) /\ Ext(r, q, FirstOf(q, head))
  <1>1. Len(q) \in Nat /\ Len(q) # 0 BY LenProperties, EmptySeq
  <1>2. CASE head = TRUE
    <2> DEFINE r == Tail(q)
    <2>1. r \in Seq(S) /\ Len(r) = Len(q) - 1 /\ Head(q) = q[1] /\ \A i \in 1..Len(r) : r[i] = q[i + 1]
      BY <1>1, HeadTailProperties
    <2> HIDE DEF r
    <2>2. Len(q) = Len(r) + 1 /\ q[1] = Head(q) BY <1>1, <2>1
    <2>3. Ext(r, q, Head(q)) BY <2>1, <2>2 DEF Ext
    <2> QED BY <1>2, <2>1, <2>3 DEF r, FirstOf
  <1>3. CASE head = FALSE
    <2> DEFINE r == Front(q)
    <2>1. r = SubSeq(q, 1, Len(q) - 1) BY DEF Front
    <2>2. 1 \in Int /\ Len(q) - 1 \in Int /\ \A i \in 1..(Len(q) - 1) : q[i] \in S
      BY <1>1, ElementOfSeq
    <2> HIDE DEF r
    <2>6. /\ r \in Seq(S)
          /\ Len(r) = IF 1 <= Len(q) - 1 THEN (Len(q) - 1) - 1 + 1 ELSE 0
          /\ \A i \in 1..((Len(q) - 1) - 1 + 1) : r[i] = q[1 + i - 1]
      <3> DEFINE e == Len(q) - 1
      <3>1. \A m, p \in Int : (\A i \in m..p : q[i] \in S) =>
              /\ SubSeq(q, m, p) \in Seq(S) /\ Len(SubSeq(q, m, p)) = IF m <= p THEN p - m + 1 ELSE 0
              /\ \A i \in 1..(p - m + 1) : SubSeq(q, m, p)[i] = q[m + i - 1]
        BY SubSeqProperties
      <3>2. 1 \in Int /\ e \in Int /\ \A i \in 1..e : q[i] \in S BY <2>2
      <3>3. r = SubSeq(q, 1, e) BY <2>1
      <3> HIDE DEF e
      <3>4. /\ r \in Seq(S) /\ Len(r) = IF 1 <= e THEN e - 1 + 1 ELSE 0
            /\ \A i \in 1..(e - 1 + 1) : r[i] = q[1 + i - 1]
        BY ONLY <3>1, <3>2, <3>3
      <3> QED BY <3>4 DEF e
    <2>3. r \in Seq(S) /\ Len(r) = Len(q) - 1 /\ \A i \in 1..Len(r) : r[i] = q[i]
      <3>1. Len(r) = Len(q) - 1
        <4> DEFINE a == Len(q)
                   b == Len(r)
        <4>1. a \in Nat /\ a # 0 /\ b = IF 1 <= a - 1 THEN (a - 1) - 1 + 1 ELSE 0 BY <1>1, <2>6
        <4> HIDE DEF a, b
        <4>2. b = a - 1 BY ONLY <4>1
        <4> QED BY <4>2 DEF a, b
      <3>2. ASSUME NEW i \in 1..Len(r) PROVE r[i] = q[i]
        <4>1. i \in 1..((Len(q) - 1) - 1 + 1) /\ 1 + i - 1 = i BY <1>1, <3>1
        <4>2. r[i] = q[1 + i - 1] BY <2>6, <4>1
        <4> QED BY <4>1, <4>2
      <3> QED BY <2>6, <3>1, <3>2
    <2>4. Len(q) = Len(r) + 1 /\ \A i \in 1..Len(r) : q[i + 0] = r[i] BY <1>1, <2>3
    <2>5. Ext(r, q, q[Len(q)]) BY <2>4 DEF Ext
    <2> QED BY <1>3, <2>3, <2>5 DEF r, FirstOf
  <1> QED BY <1>2, <1>3

\* The value of a key that is a list.
LEMMA PlainList ==
    ASSUME NEW w, NEW s, NEW P, NEW n, Flow(w, s, P, n), NEW k \in Keys
    PROVE  /\ IsList(s, k) => /\ s.val[k] = List(s.val[k].v) /\ s.val[k].v \in Seq(1..n)
                              /\ Elems(s, k) = s.val[k].v /\ w.val[k].type # "string" /\ Exists(s, k)
           /\ Elems(s, k) \in Seq(1..n)
           /\ ~ Exists(s, k) => /\ Elems(s, k) = <<>> /\ ~ IsList(s, k) /\ w.val[k].type # "string"
           /\ w.val[k].type # "string" => ~ WrongType(s, k)
  <1>1. PlainKey(w, s, k) BY DEF Flow, Plain
  <1>2. ListsOf(s)[k] \in Seq(1..n) BY DEF Flow, Once
  <1>3. ListsOf(s)[k] = Elems(s, k) BY DEF ListsOf
  <1>4. IsList(s, k) => s.val[k] = List(s.val[k].v) /\ w.val[k].type # "string"
    BY <1>1 DEF IsList, PlainKey, List
  <1>5. IsList(s, k) => Exists(s, k) BY ValueFacts DEF IsList, Exists
  <1>6. ~ Exists(s, k) => ~ IsList(s, k) /\ w.val[k].type # "string"
    BY <1>1, ValueFacts DEF IsList, Exists, PlainKey
  <1>7. w.val[k].type # "string" => ~ WrongType(s, k) BY <1>1 DEF PlainKey, WrongType, Exists, IsList
  <1> QED BY <1>2, <1>3, <1>4, <1>5, <1>6, <1>7 DEF Elems

\* dbOverwrite and dbDelete, and all that they leave alone.
LEMMA StoreKeeps ==
    ASSUME NEW w, NEW s, NEW P, NEW n, Flow(w, s, P, n), NEW k \in Keys, NEW v
    PROVE  /\ LET t == dbOverwrite(s, k, v)
              IN  IsServer(t) /\ Kept(s, t) /\ IsAt(t, k, v, "none") /\ Elsewhere(s, t, k)
           /\ LET t == dbDelete(s, k)
              IN  IsServer(t) /\ Kept(s, t) /\ IsAt(t, k, Absent, "none") /\ Elsewhere(s, t, k)
  <1>1. IsServer(s) /\ s.ttl[k] = "none" /\ \A c \in Clients : PlainClient(s.cl[c])
    BY DEF Flow, Plain, PlainKey
  <1>2. LET t == dbOverwrite(s, k, v)
        IN  IsServer(t) /\ Kept(s, t) /\ IsAt(t, k, v, "none") /\ Elsewhere(s, t, k)
    <2> DEFINE t == dbOverwrite(s, k, v)
    <2>1. /\ DOMAIN t = DOMAIN s /\ t.ttl = s.ttl /\ t.watching = s.watching /\ t.cl = s.cl
          /\ t.blocking = s.blocking /\ t.channels = s.channels /\ t.val = [s.val EXCEPT ![k] = v]
      BY <1>1 DEF IsServer, dbOverwrite
    <2> HIDE DEF t
    <2>2. IsServer(t) /\ IsAt(t, k, v, "none") /\ Elsewhere(s, t, k)
      BY <1>1, <2>1 DEF IsServer, IsAt, Elsewhere
    <2>3. Kept(s, t) BY <1>1, <2>1 DEF Kept
    <2> QED BY <2>2, <2>3 DEF t
  <1>3. LET t == dbDelete(s, k)
        IN  IsServer(t) /\ Kept(s, t) /\ IsAt(t, k, Absent, "none") /\ Elsewhere(s, t, k)
    <2> DEFINE t == dbDelete(s, k)
    <2>1. /\ DOMAIN t = DOMAIN s /\ t.watching = s.watching /\ t.cl = s.cl
          /\ t.blocking = s.blocking /\ t.channels = s.channels /\ t.val = [s.val EXCEPT ![k] = Absent]
          /\ t.ttl = [s.ttl EXCEPT ![k] = "none"]
      BY <1>1 DEF IsServer, dbDelete
    <2> HIDE DEF t
    <2>2. IsServer(t) /\ IsAt(t, k, Absent, "none") /\ Elsewhere(s, t, k)
      BY <1>1, <2>1 DEF IsServer, IsAt, Elsewhere
    <2>3. Kept(s, t) BY <1>1, <2>1 DEF Kept
    <2> QED BY <2>2, <2>3 DEF t
  <1> QED BY <1>2, <1>3

\* A new list, that is empty.
LEMMA AddCarries ==
    ASSUME NEW w, NEW s, NEW P, NEW n, Flow(w, s, P, n), NEW k \in Keys, w.val[k].type # "string"
    PROVE  LET t == IF Exists(s, k) THEN s ELSE dbAdd(s, k, List(<<>>))
           IN  Carries(w, s, t, P, n) /\ IsList(t, k)
  <1>1. CASE Exists(s, k)
    <2>1. IsList(s, k) BY <1>1, PlainList DEF WrongType
    <2> QED BY <1>1, <2>1, CarriesSame
  <1>2. CASE ~ Exists(s, k)
    <2> DEFINE v == List(<<>>)
               u == dbOverwrite(s, k, v)
    <2>1. v.type = "list" /\ v.v = <<>> BY ValueFacts
    <2>2. v = [type |-> v.type, v |-> v.v] BY <2>1 DEF List
    <2> HIDE DEF v
    <2>3. IsServer(u) /\ Kept(s, u) /\ IsAt(u, k, v, "none") /\ Elsewhere(s, u, k) BY StoreKeeps
    <2>4. dbAdd(s, k, v) = signalListAsReady(u, k) BY <2>1 DEF dbAdd, dbOverwrite
    <2> HIDE DEF u
    <2>5. PlainKey(w, u, k) BY <2>1, <2>2, <2>3 DEF PlainKey, IsAt
    <2>6. Elems(u, k) = Elems(s, k) /\ IsList(u, k)
      BY <1>2, <2>1, <2>3, PlainList DEF Elems, IsAt, IsList
    <2>7. Carries(w, s, u, P, n) BY <2>3, <2>5, <2>6, FlowStill DEF Elsewhere
    <2>8. Flow(w, u, P, n) BY <2>7 DEF Carries
    <2> DEFINE t == signalListAsReady(u, k)
    <2>9. Carries(w, u, t, P, n) /\ t.val = u.val BY <2>8, SignalCarries
    <2> HIDE DEF t
    <2>10. Carries(w, s, t, P, n) BY <2>7, <2>9, CarriesTrans
    <2>11. IsList(t, k) BY <2>6, <2>9 DEF IsList
    <2> QED BY <1>2, <2>4, <2>10, <2>11 DEF t, v
  <1> QED BY <1>1, <1>2

\* Pushed: an element that was on its way is in the list.
LEMMA PushCarries ==
    ASSUME NEW w, NEW s, NEW P, NEW n \in Nat, NEW x, x \notin P, Flow(w, s, P \cup {x}, n),
           NEW k \in Keys, IsList(s, k), NEW head \in BOOLEAN
    PROVE  Carries(w, s, Pushed(s, k, x, head), P, n) /\ Pushed(s, k, x, head).val[k].v # <<>>
  <1> DEFINE q == s.val[k].v
             r == IF head THEN <<x>> \o q ELSE Append(q, x)
             t == dbOverwrite(s, k, List(r))
  <1>1. Pushed(s, k, x, head) = t BY DEF Pushed, dbOverwrite
  <1>2. q \in Seq(1..n) /\ Elems(s, k) = q /\ w.val[k].type # "string" BY PlainList
  <1>3. x \in 1..n BY DEF Flow, Once
  <1>4. r \in Seq(1..n) /\ Ext(q, r, x)
    <2> DEFINE S == 1..n
    <2>1. q \in Seq(S) /\ x \in S BY <1>2, <1>3
    <2> HIDE DEF S, q
    <2>2. r \in Seq(S) /\ Ext(q, r, x) BY <2>1, ExtPush
    <2> QED BY <2>2 DEF S
  <1>a. r # <<>>
    <2>1. Len(r) = Len(q) + 1 /\ Len(q) \in Nat BY <1>2, <1>4 DEF Ext
    <2> HIDE DEF r
    <2> QED BY <2>1
  <1> HIDE DEF r
  <1>5. List(r).type = "list" /\ List(r).v = r /\ List(r) = [type |-> "list", v |-> r]
    BY DEF List
  <1> DEFINE v == List(r)
  <1> HIDE DEF v
  <1>6. IsServer(t) /\ Kept(s, t) /\ IsAt(t, k, v, "none") /\ Elsewhere(s, t, k)
    BY StoreKeeps DEF v
  <1> HIDE DEF t
  <1>7. PlainKey(w, t, k) /\ IsList(t, k) /\ t.val[k].v = r
    BY <1>2, <1>5, <1>6 DEF PlainKey, IsAt, IsList, v
  <1>8. Ext(Elems(s, k), t.val[k].v, x) /\ t.val[k].v \in Seq(1..n) BY <1>2, <1>4, <1>7
  <1>9. Carries(w, s, t, P, n) BY <1>6, <1>7, <1>8, FlowPut DEF Elsewhere
  <1> QED BY <1>1, <1>7, <1>9, <1>a

\* Popped: an element of the list is on its way.
LEMMA PopCarries ==
    ASSUME NEW w, NEW s, NEW P, NEW n \in Nat, Flow(w, s, P, n), NEW k \in Keys, IsList(s, k),
           s.val[k].v # <<>>, NEW head \in BOOLEAN
    PROVE  LET x == FirstOf(s.val[k].v, head)
           IN  x \notin P /\ Carries(w, s, Popped(s, k, head), P \cup {x}, n)
  <1> DEFINE q == s.val[k].v
             r == IF head THEN Tail(q) ELSE Front(q)
             x == FirstOf(q, head)
             t == dbOverwrite(s, k, List(r))
  <1>2. q \in Seq(1..n) /\ q # <<>> /\ Elems(s, k) = q /\ w.val[k].type # "string" /\ s.val[k] = List(q)
    BY PlainList
  <1>1. Popped(s, k, head) = t
    <2>1. [s.val[k] EXCEPT !.v = r] = List(r)
      <3>1. \A a, b : [List(a) EXCEPT !.v = b] = List(b) BY DEF List
      <3> HIDE DEF r, q
      <3> QED BY <1>2, <3>1
    <2>2. Popped(s, k, head) = [s EXCEPT !.val = [s.val EXCEPT ![k] = [s.val[k] EXCEPT !.v = r]]]
      BY DEF Popped
    <2> HIDE DEF r
    <2> QED BY <2>1, <2>2 DEF dbOverwrite
  <1>4. r \in Seq(1..n) /\ Ext(r, q, x)
    <2> DEFINE S == 1..n
    <2>1. q \in Seq(S) BY <1>2
    <2> HIDE DEF S, q
    <2>2. r \in Seq(S) /\ Ext(r, q, x) BY <1>2, <2>1, ExtPop
    <2> QED BY <2>2 DEF S
  <1> HIDE DEF r, x
  <1>5. List(r).type = "list" /\ List(r).v = r /\ List(r) = [type |-> "list", v |-> r]
    BY DEF List
  <1> DEFINE v == List(r)
  <1> HIDE DEF v
  <1>6. IsServer(t) /\ Kept(s, t) /\ IsAt(t, k, v, "none") /\ Elsewhere(s, t, k)
    BY StoreKeeps DEF v
  <1> HIDE DEF t
  <1>7. PlainKey(w, t, k) /\ IsList(t, k) /\ t.val[k].v = r
    BY <1>2, <1>5, <1>6 DEF PlainKey, IsAt, IsList, v
  <1>8. Ext(t.val[k].v, Elems(s, k), x) /\ t.val[k].v \in Seq(1..n) BY <1>2, <1>4, <1>7
  <1>9. x \notin P /\ Carries(w, s, t, P \cup {x}, n) BY <1>6, <1>7, <1>8, FlowCut DEF Elsewhere
  <1> QED BY <1>1, <1>9 DEF x

\* The same, where a key may go with its last element.
Moves(w, s, t, P, n) ==
    /\ Flow(w, t, P, n)
    /\ \A c \in Clients : t.cl[c].queue = s.cl[c].queue /\ t.cl[c].multi = s.cl[c].multi

\* Two steps.
LEMMA MovesTrans ==
    ASSUME NEW w, NEW s, NEW t, NEW u, NEW P, NEW Q, NEW n
    PROVE  /\ Moves(w, s, t, P, n) /\ Moves(w, t, u, Q, n) => Moves(w, s, u, Q, n)
           /\ Carries(w, s, t, P, n) => Moves(w, s, t, P, n) /\ Flow(w, t, P, n)
           /\ Moves(w, s, t, P, n) => Flow(w, t, P, n)
           /\ Flow(w, s, P, n) => Moves(w, s, s, P, n)
  BY DEF Moves, Carries

\* DeleteIfEmpty
LEMMA EmptyMoves ==
    ASSUME NEW w, NEW s, NEW P, NEW n, Flow(w, s, P, n), NEW k \in Keys
    PROVE  Moves(w, s, DeleteIfEmpty(s, k), P, n)
  <1>1. CASE IsList(s, k) /\ s.val[k].v = <<>>
    <2> DEFINE t == dbDelete(s, k)
    <2>1. IsServer(t) /\ Kept(s, t) /\ IsAt(t, k, Absent, "none") /\ Elsewhere(s, t, k) BY StoreKeeps
    <2>2. DeleteIfEmpty(s, k) = t BY <1>1 DEF DeleteIfEmpty
    <2> HIDE DEF t
    <2>3. Elems(s, k) = <<>> /\ w.val[k].type # "string" BY <1>1, PlainList
    <2>4. PlainKey(w, t, k) /\ Elems(t, k) = <<>>
      <3>1. Absent.type = "none" /\ Absent = [type |-> Absent.type, v |-> Absent.v] BY DEF Absent
      <3> QED BY <2>1, <2>3, <3>1 DEF PlainKey, Elems, IsAt, IsList
    <2>5. \A j \in Keys : Elems(t, j) = Elems(s, j) BY <2>1, <2>3, <2>4 DEF Elsewhere, Elems, IsList
    <2>6. ListsOf(t) = ListsOf(s) BY <2>5 DEF ListsOf
    <2>7. GotOf(t) = GotOf(s) BY <2>1 DEF GotOf, Kept
    <2>8. \A j \in Keys : PlainKey(w, t, j) BY <2>1, <2>4 DEF Flow, Plain, PlainKey, Elsewhere
    <2>9. Flow(w, t, P, n) BY <2>1, <2>6, <2>7, <2>8 DEF Flow, Plain, Kept
    <2> QED BY <2>1, <2>2, <2>9 DEF Moves, Kept
  <1>2. CASE ~ (IsList(s, k) /\ s.val[k].v = <<>>) BY <1>2, MovesTrans DEF DeleteIfEmpty
  <1> QED BY <1>1, <1>2

\* rpoplpushHandlePush
LEMMA HandlePushCarries ==
    ASSUME NEW w, NEW s, NEW P, NEW n \in Nat, NEW x, x \notin P, Flow(w, s, P \cup {x}, n),
           NEW k \in Keys, w.val[k].type # "string"
    PROVE  Carries(w, s, rpoplpushHandlePush(s, k, x), P, n)
  <1> DEFINE t == IF Exists(s, k) THEN s ELSE dbAdd(s, k, List(<<>>))
             u == signalModifiedKey(t, k)
             v == Pushed(u, k, x, TRUE)
             Q == P \cup {x}
  <1>1. Carries(w, s, t, Q, n) /\ IsList(t, k) BY AddCarries
  <1>2. rpoplpushHandlePush(s, k, x) = v BY DEF rpoplpushHandlePush
  <1> HIDE DEF t
  <1>3. Carries(w, t, u, Q, n) BY <1>1, SignalCarries DEF Carries
  <1> HIDE DEF u
  <1>4. IsList(u, k) /\ Flow(w, u, P \cup {x}, n) BY <1>1, <1>3 DEF Carries
  <1>5. Carries(w, u, v, P, n) BY <1>4, PushCarries
  <1> HIDE DEF v, Q
  <1> QED BY <1>1, <1>2, <1>3, <1>5, CarriesTrans

\* Between two commands no list is empty.
NoEmpty(s) == \A k \in Keys : IsList(s, k) => s.val[k].v # <<>>

\* A command of a workload of lists.
OfLists(w, cmd) ==
    /\ IsCommand(cmd) /\ cmd.op \in ListOps
    /\ cmd.op \in {"lpush", "rpush"} => w.val[cmd.k].type # "string"

\* What is on its way before cmd if P is when it is over: the element that it pushes, too.
Before(cmd, Q, P) ==
    IF cmd.op \in {"lpush", "rpush"} THEN cmd.x \notin P /\ Q = P \cup {cmd.x} ELSE Q = P

\* LPUSH and RPUSH
LEMMA PushMoves ==
    ASSUME NEW w, NEW s, NEW P, NEW n \in Nat, NEW cmd, cmd.x \notin P, Flow(w, s, P \cup {cmd.x}, n),
           cmd.k \in Keys, w.val[cmd.k].type # "string", NEW head \in BOOLEAN
    PROVE  Moves(w, s, pushGenericCommand(s, cmd, head), P, n)
  <1> DEFINE k == cmd.k
             x == cmd.x
             Q == P \cup {x}
             u == IF Exists(s, k) THEN s ELSE dbAdd(s, k, List(<<>>))
             v == Pushed(u, k, x, head)
             y == signalModifiedKey(v, k)
  <1>1. Carries(w, s, u, Q, n) /\ IsList(u, k) BY AddCarries
  <1>2. lookupKeyWrite(s, k) = s BY SignalCarries
  <1>3. ~ WrongType(s, k) BY PlainList
  <1>4. pushGenericCommand(s, cmd, head) = Dirty(y) BY <1>2, <1>3 DEF pushGenericCommand
  <1> HIDE DEF u
  <1>5. Flow(w, u, P \cup {x}, n) BY <1>1 DEF Carries
  <1>6. Carries(w, u, v, P, n) BY <1>1, <1>5, PushCarries
  <1> HIDE DEF v
  <1>7. Carries(w, v, y, P, n) BY <1>6, SignalCarries DEF Carries
  <1> HIDE DEF y
  <1>a. Flow(w, y, P, n) BY <1>7, MovesTrans
  <1>8. Carries(w, y, Dirty(y), P, n) BY <1>a, BooksCarry, Zenon
  <1> DEFINE z == Dirty(y)
  <1> HIDE DEF z, Q
  <1>9. Carries(w, y, z, P, n) BY <1>8 DEF z
  <1>10. Moves(w, s, u, Q, n) /\ Moves(w, u, v, P, n) /\ Moves(w, v, y, P, n) /\ Moves(w, y, z, P, n)
    BY <1>1, <1>6, <1>7, <1>9, MovesTrans
  <1>11. Moves(w, s, v, P, n) BY <1>10, MovesTrans
  <1>12. Moves(w, s, y, P, n) BY <1>10, <1>11, MovesTrans
  <1>13. Moves(w, s, z, P, n) BY <1>10, <1>12, MovesTrans
  <1> QED BY <1>4, <1>13 DEF z

\* A key is told, and the counter of changes is raised.
LEMMA ToldMoves ==
    ASSUME NEW w, NEW s, NEW t, NEW P, NEW n, NEW k \in Keys, Moves(w, s, t, P, n)
    PROVE  Moves(w, s, Dirty(signalModifiedKey(t, k)), P, n)
  <1> DEFINE y == signalModifiedKey(t, k)
             z == Dirty(y)
  <1>1. Carries(w, t, y, P, n) BY SignalCarries, MovesTrans
  <1> HIDE DEF y
  <1>a. Flow(w, y, P, n) BY <1>1, MovesTrans
  <1>2. Carries(w, y, z, P, n) BY <1>a, BooksCarry, Zenon
  <1> HIDE DEF z
  <1>3. Moves(w, t, y, P, n) /\ Moves(w, y, z, P, n) BY <1>1, <1>2, MovesTrans
  <1>4. Moves(w, s, y, P, n) BY <1>3, MovesTrans
  <1>5. Moves(w, s, z, P, n) BY <1>3, <1>4, MovesTrans
  <1> QED BY <1>5 DEF z, y

\* What the pop of a client finds is what it gets: Got is before Popped.
LEMMA GotPopped ==
    ASSUME NEW s, IsServer(s), NEW c \in Clients, NEW x, NEW k \in Keys, NEW head \in BOOLEAN
    PROVE  Popped(Got(s, c, x), k, head) = Got(Popped(s, k, head), c, x)
  BY DEF IsServer, Popped, Got

\* LPOP and RPOP
LEMMA PopMoves ==
    ASSUME NEW w, NEW s, NEW P, NEW n \in Nat, Flow(w, s, P, n), NoEmpty(s), NEW c \in Clients,
           NEW cmd, cmd.k \in Keys, NEW head \in BOOLEAN
    PROVE  Moves(w, s, popGenericCommand(s, c, cmd, head), P, n)
  <1> DEFINE k == cmd.k
             x == FirstOf(s.val[k].v, head)
             u == Popped(s, k, head)
             v == Got(u, c, x)
             y == DeleteIfEmpty(v, k)
  <1>1. lookupKeyWrite(s, k) = s BY SignalCarries
  <1>2. CASE ~ IsList(s, k)
    <2>1. popGenericCommand(s, c, cmd, head) = s BY <1>1, <1>2 DEF popGenericCommand
    <2> QED BY <2>1, MovesTrans
  <1>3. CASE IsList(s, k)
    <2>0. IsServer(s) BY DEF Flow, Plain
    <2>1. Popped(Got(s, c, x), k, head) = v
      <3> HIDE DEF x
      <3> QED BY <2>0, GotPopped
    <2>2. popGenericCommand(s, c, cmd, head) = Dirty(signalModifiedKey(y, k))
      BY <1>1, <1>3, <2>1 DEF popGenericCommand
    <2>3. x \notin P /\ Carries(w, s, u, P \cup {x}, n) BY <1>3, PopCarries DEF NoEmpty
    <2> HIDE DEF x, u
    <2>4. Carries(w, u, v, P, n) BY <2>3, GotCarries DEF Carries
    <2> HIDE DEF v
    <2>5. Moves(w, v, y, P, n) BY <2>4, EmptyMoves DEF Carries
    <2> HIDE DEF y
    <2> DEFINE Q == P \cup {x}
    <2> HIDE DEF Q
    <2>6. Moves(w, s, u, Q, n) /\ Moves(w, u, v, P, n) BY <2>3, <2>4, MovesTrans DEF Q
    <2>7. Moves(w, s, v, P, n) BY <2>6, MovesTrans
    <2>8. Moves(w, s, y, P, n) BY <2>5, <2>7, MovesTrans
    <2> QED BY <2>2, <2>8, ToldMoves
  <1> QED BY <1>2, <1>3

\* RPOPLPUSH
LEMMA RpoplpushMoves ==
    ASSUME NEW w, NEW s, NEW P, NEW n \in Nat, Flow(w, s, P, n), NoEmpty(s),
           NEW cmd, cmd.k \in Keys, cmd.k2 \in Keys
    PROVE  Moves(w, s, rpoplpushCommand(s, cmd), P, n)
  <1> DEFINE k == cmd.k
             d == cmd.k2
             x == FirstOf(s.val[k].v, FALSE)
             u == Popped(s, k, FALSE)
             v == rpoplpushHandlePush(u, d, x)
             y == DeleteIfEmpty(v, k)
  <1>1. lookupKeyWrite(s, k) = s /\ lookupKeyWrite(s, d) = s BY SignalCarries
  <1>2. CASE ~ IsList(s, k) \/ WrongType(s, d)
    <2>1. rpoplpushCommand(s, cmd) = s BY <1>1, <1>2 DEF rpoplpushCommand
    <2> QED BY <2>1, MovesTrans
  <1>3. CASE IsList(s, k) /\ ~ WrongType(s, d)
    <2>1. rpoplpushCommand(s, cmd) = Dirty(signalModifiedKey(y, k))
      BY <1>1, <1>3 DEF rpoplpushCommand
    <2>2. w.val[d].type # "string" BY <1>3, PlainList DEF WrongType
    <2>3. x \notin P /\ Carries(w, s, u, P \cup {x}, n) BY <1>3, PopCarries DEF NoEmpty
    <2> HIDE DEF x, u
    <2>4. Carries(w, u, v, P, n) BY <2>2, <2>3, HandlePushCarries DEF Carries
    <2> HIDE DEF v
    <2>5. Moves(w, v, y, P, n) BY <2>4, EmptyMoves DEF Carries
    <2> HIDE DEF y
    <2> DEFINE Q == P \cup {x}
    <2> HIDE DEF Q
    <2>6. Moves(w, s, u, Q, n) /\ Moves(w, u, v, P, n) BY <2>3, <2>4, MovesTrans DEF Q
    <2>7. Moves(w, s, v, P, n) BY <2>6, MovesTrans
    <2>8. Moves(w, s, y, P, n) BY <2>5, <2>7, MovesTrans
    <2> QED BY <2>1, <2>8, ToldMoves
  <1> QED BY <1>2, <1>3

\* BLPOP and BRPOP
LEMMA BlockingPopMoves ==
    ASSUME NEW w, NEW s, NEW P, NEW n \in Nat, Flow(w, s, P, n), NoEmpty(s), NEW c \in Clients,
           NEW cmd, cmd.k \in Keys, cmd.k2 \in Keys \cup {None}, NEW head \in BOOLEAN
    PROVE  Moves(w, s, blockingPopGenericCommand(s, c, cmd, head), P, n)
  <1> DEFINE next == ~ Exists(s, cmd.k) /\ cmd.k2 # None
             k == IF next THEN cmd.k2 ELSE cmd.k
             pop == Command(IF head THEN "lpop" ELSE "rpop", k, None, 0)
             t == popGenericCommand(s, c, pop, head)
  <1>1. lookupKeyWrite(s, cmd.k) = s /\ (next => lookupKeyWrite(s, cmd.k2) = s) /\ k \in Keys
    BY SignalCarries
  <1> HIDE DEF next
  <1>2. blockingPopGenericCommand(s, c, cmd, head) =
          IF WrongType(s, k) THEN s
          ELSE IF Exists(s, k) THEN [t EXCEPT !.argv = pop]
          ELSE IF s.cl[c].multi THEN s
          ELSE blockForKeys(s, c, {cmd.k, cmd.k2} \ {None}, None, head)
    BY <1>1 DEF blockingPopGenericCommand, next
  <1>3. pop.k \in Keys BY <1>1 DEF Command
  <1> HIDE DEF pop
  <1>4. Moves(w, s, t, P, n) BY <1>3, PopMoves
  <1> HIDE DEF t
  <1>5. Carries(w, t, [t EXCEPT !.argv = pop], P, n) BY <1>4, BooksCarry, Zenon DEF Moves
  <1>6. Moves(w, s, [t EXCEPT !.argv = pop], P, n) BY <1>4, <1>5, MovesTrans
  <1>7. Carries(w, s, blockForKeys(s, c, {cmd.k, cmd.k2} \ {None}, None, head), P, n) BY BlockCarries
  <1>8. Moves(w, s, blockForKeys(s, c, {cmd.k, cmd.k2} \ {None}, None, head), P, n) BY <1>7, MovesTrans
  <1>9. Moves(w, s, s, P, n) BY MovesTrans
  <1> QED BY <1>2, <1>6, <1>8, <1>9

\* BRPOPLPUSH
LEMMA BrpoplpushMoves ==
    ASSUME NEW w, NEW s, NEW P, NEW n \in Nat, Flow(w, s, P, n), NoEmpty(s), NEW c \in Clients,
           NEW cmd, cmd.k \in Keys, cmd.k2 \in Keys
    PROVE  Moves(w, s, brpoplpushCommand(s, c, cmd), P, n)
  <1>1. lookupKeyWrite(s, cmd.k) = s BY SignalCarries
  <1>2. Moves(w, s, rpoplpushCommand(s, cmd), P, n) BY RpoplpushMoves
  <1>3. Carries(w, s, blockForKeys(s, c, {cmd.k}, cmd.k2, FALSE), P, n) BY BlockCarries
  <1>4. Moves(w, s, blockForKeys(s, c, {cmd.k}, cmd.k2, FALSE), P, n) BY <1>3, MovesTrans
  <1>5. Moves(w, s, s, P, n) BY MovesTrans
  <1> QED BY <1>1, <1>2, <1>4, <1>5 DEF brpoplpushCommand

\* A command of a workload of lists, but MULTI and EXEC.
LEMMA ProcMoves ==
    ASSUME NEW w, NEW s, NEW P, NEW Q, NEW n \in Nat, NEW cmd, OfLists(w, cmd),
           cmd.op \notin {"multi", "exec"}, Before(cmd, Q, P), Flow(w, s, Q, n), NoEmpty(s),
           NEW c \in Clients, NEW env
    PROVE  Moves(w, s, CallProc(s, c, cmd, env), P, n)
  <1>1. /\ cmd.k \in Keys /\ cmd.k2 \in Keys \cup {None}
        /\ cmd.op \in {"rpoplpush", "brpoplpush"} => cmd.k2 \in Keys
    BY DEF OfLists, IsCommand, ListOps
  <1>2. CallProc(s, c, cmd, env) = Proc(s, c, cmd) BY DEF CallProc, OfLists, ListOps
  <1>3. CASE cmd.op = "get"
    <2>1. Proc(s, c, cmd) = getCommand(s, cmd) BY <1>3 DEF Proc
    <2>2. getCommand(s, cmd) = s BY <1>1, SignalCarries DEF getCommand
    <2>3. Q = P BY <1>3 DEF Before
    <2> QED BY <1>2, <2>1, <2>2, <2>3, MovesTrans
  <1>4. CASE cmd.op \in {"lpush", "rpush"}
    <2> DEFINE head == cmd.op = "lpush"
    <2>1. Proc(s, c, cmd) = pushGenericCommand(s, cmd, head) BY <1>4 DEF Proc
    <2>2. Q = P \cup {cmd.x} /\ cmd.x \notin P /\ w.val[cmd.k].type # "string"
      BY <1>4 DEF Before, OfLists
    <2>3. head \in BOOLEAN OBVIOUS
    <2> HIDE DEF head
    <2> QED BY <1>1, <1>2, <2>1, <2>2, <2>3, PushMoves
  <1>5. CASE cmd.op \in {"lpop", "rpop"}
    <2> DEFINE head == cmd.op = "lpop"
    <2>1. Proc(s, c, cmd) = popGenericCommand(s, c, cmd, head) BY <1>5 DEF Proc
    <2>2. Q = P BY <1>5 DEF Before
    <2>3. head \in BOOLEAN OBVIOUS
    <2> HIDE DEF head
    <2> QED BY <1>1, <1>2, <2>1, <2>2, <2>3, PopMoves
  <1>6. CASE cmd.op = "rpoplpush"
    <2>1. Proc(s, c, cmd) = rpoplpushCommand(s, cmd) BY <1>6 DEF Proc
    <2>2. Q = P BY <1>6 DEF Before
    <2> QED BY <1>1, <1>2, <1>6, <2>1, <2>2, RpoplpushMoves
  <1>7. CASE cmd.op \in {"blpop", "brpop"}
    <2> DEFINE head == cmd.op = "blpop"
    <2>1. Proc(s, c, cmd) = blockingPopGenericCommand(s, c, cmd, head) BY <1>7 DEF Proc
    <2>2. Q = P BY <1>7 DEF Before
    <2>3. head \in BOOLEAN OBVIOUS
    <2> HIDE DEF head
    <2> QED BY <1>1, <1>2, <2>1, <2>2, <2>3, BlockingPopMoves
  <1>8. CASE cmd.op = "brpoplpush"
    <2>1. Proc(s, c, cmd) = brpoplpushCommand(s, c, cmd) BY <1>8 DEF Proc
    <2>2. Q = P BY <1>8 DEF Before
    <2> QED BY <1>1, <1>2, <1>8, <2>1, <2>2, BrpoplpushMoves
  <1> QED BY <1>3, <1>4, <1>5, <1>6, <1>7, <1>8 DEF OfLists, ListOps

\* What call does besides.
LEMMA PropagatedMoves ==
    ASSUME NEW w, NEW s, NEW t, NEW P, NEW n, Flow(w, t, P, n)
    PROVE  Moves(w, t, Propagated(s, t), P, n)
  <1> DEFINE u == IF t.dirty > s.dirty \/ t.force THEN propagate(t, t.argv) ELSE t
  <1>1. Moves(w, t, u, P, n)
    <2>1. Carries(w, t, propagate(t, t.argv), P, n) BY BooksCarry, Zenon
    <2>2. Moves(w, t, propagate(t, t.argv), P, n) /\ Moves(w, t, t, P, n) BY <2>1, MovesTrans
    <2> QED BY <2>2
  <1>2. Propagated(s, t) = [u EXCEPT !.argv = s.argv, !.force = s.force] BY DEF Propagated
  <1> HIDE DEF u
  <1>3. Carries(w, u, [u EXCEPT !.argv = s.argv, !.force = s.force], P, n)
    BY <1>1, BooksCarry, Zenon DEF Moves
  <1> DEFINE v == [u EXCEPT !.argv = s.argv, !.force = s.force]
  <1> HIDE DEF v
  <1>4. Moves(w, u, v, P, n) BY <1>3, MovesTrans DEF v
  <1>5. Moves(w, t, v, P, n) BY <1>1, <1>4, MovesTrans
  <1> QED BY <1>2, <1>5 DEF v

\* call
LEMMA CallMoves ==
    ASSUME NEW w, NEW s, NEW P, NEW Q, NEW n \in Nat, NEW cmd, OfLists(w, cmd),
           cmd.op \notin {"multi", "exec"}, Before(cmd, Q, P), Flow(w, s, Q, n), NoEmpty(s),
           NEW c \in Clients, NEW env
    PROVE  Moves(w, s, call(s, c, cmd, env), P, n)
  <1> DEFINE t == [s EXCEPT !.argv = cmd, !.force = FALSE]
             u == CallProc(t, c, cmd, env)
  <1>1. Carries(w, s, t, Q, n) BY BooksCarry, Zenon
  <1>2. IsServer(s) BY DEF Flow, Plain
  <1>3. NoEmpty(t)
    <2>1. t.val = s.val BY <1>2 DEF IsServer
    <2> HIDE DEF t
    <2> QED BY <2>1 DEF NoEmpty, IsList
  <1>4. call(s, c, cmd, env) = Propagated(s, u) BY DEF call
  <1> HIDE DEF t
  <1>5. Moves(w, t, u, P, n) BY <1>1, <1>3, ProcMoves DEF Carries
  <1> HIDE DEF u
  <1>a. Flow(w, u, P, n) BY <1>5, MovesTrans
  <1>6. Moves(w, u, Propagated(s, u), P, n) BY <1>a, PropagatedMoves
  <1> DEFINE v == Propagated(s, u)
  <1> HIDE DEF v
  <1>7. Moves(w, u, v, P, n) BY <1>6 DEF v
  <1>8. Moves(w, s, t, Q, n) BY <1>1, MovesTrans
  <1>9. Moves(w, s, u, P, n) BY <1>5, <1>8, MovesTrans
  <1>10. Moves(w, s, v, P, n) BY <1>7, <1>9, MovesTrans
  <1> QED BY <1>4, <1>10 DEF v

\* A step at one client, that may change its transaction.
LEMMA FlowClient ==
    ASSUME NEW w, NEW s, NEW t, NEW P, NEW n, Flow(w, s, P, n), NEW c \in Clients, NEW q,
           DOMAIN t = DOMAIN s, t.val = s.val, t.ttl = s.ttl, t.cl = [s.cl EXCEPT ![c] = q],
           DOMAIN t.watching = Keys, DOMAIN t.blocking = Keys, DOMAIN t.channels = Channels,
           IsClient(q), PlainClient(q), q.got = s.cl[c].got
    PROVE  Flow(w, t, P, n)
  <1>1. IsServer(s) /\ \A d \in Clients : PlainClient(s.cl[d]) BY DEF Flow, Plain
  <1>2. \A d \in Clients : t.cl[d] = IF d = c THEN q ELSE s.cl[d] BY <1>1 DEF IsServer
  <1>3. IsServer(t) BY <1>1, <1>2 DEF IsServer
  <1>4. \A d \in Clients : PlainClient(t.cl[d]) /\ t.cl[d].got = s.cl[d].got BY <1>1, <1>2
  <1>5. \A j \in Keys : Elems(t, j) = Elems(s, j) BY DEF Elems, IsList
  <1>6. ListsOf(t) = ListsOf(s) BY <1>5 DEF ListsOf
  <1>7. GotOf(t) = GotOf(s) BY <1>4 DEF GotOf
  <1>8. \A j \in Keys : PlainKey(w, t, j) BY DEF Flow, Plain, PlainKey
  <1>9. Flow(w, t, P, n) BY <1>3, <1>4, <1>6, <1>7, <1>8 DEF Flow, Plain
  <1> QED BY <1>9

\* unwatchAllKeys
LEMMA UnwatchFlow ==
    ASSUME NEW w, NEW s, NEW P, NEW n, Flow(w, s, P, n), NEW c \in Clients
    PROVE  /\ Carries(w, s, unwatchAllKeys(s, c), P, n)
           /\ \A d \in Clients : d # c => unwatchAllKeys(s, c).cl[d] = s.cl[d]
  <1> DEFINE r == s.cl[c]
             t == unwatchAllKeys(s, c)
             q == [[r EXCEPT !.watched = {}] EXCEPT !.stale = FALSE]
             y == [k \in Keys |-> IF k \in r.watched THEN RemoveFirst(s.watching[k], c) ELSE s.watching[k]]
  <1>1. IsServer(s) /\ IsClient(r) /\ PlainClient(r) BY DEF Flow, Plain, IsServer
  <1>2. IsClient(q) /\ PlainClient(q) /\ q.got = r.got /\ q.queue = r.queue /\ q.multi = r.multi
    <2> HIDE DEF r
    <2> QED BY <1>1 DEF IsClient, PlainClient
  <1>3. /\ DOMAIN t = DOMAIN s /\ t.val = s.val /\ t.ttl = s.ttl /\ t.watching = y
        /\ t.channels = s.channels /\ t.blocking = s.blocking /\ t.cl = [s.cl EXCEPT ![c] = q]
    <2>1. t = [s EXCEPT !.watching = y, !.cl[c].watched = {}, !.cl[c].stale = FALSE]
      BY <1>1 DEF unwatchAllKeys, IsServer
    <2> HIDE DEF t, y
    <2> QED BY <1>1, <2>1 DEF IsServer
  <1>4. DOMAIN t.watching = Keys /\ DOMAIN t.blocking = Keys /\ DOMAIN t.channels = Channels
    BY <1>1, <1>3 DEF IsServer
  <1> HIDE DEF q, t, y
  <1>5. Carries(w, s, t, P, n) BY <1>2, <1>3, <1>4, FlowOwn
  <1>6. \A d \in Clients : d # c => t.cl[d] = s.cl[d] BY <1>1, <1>3 DEF IsServer
  <1> QED BY <1>5, <1>6 DEF t

\* discardTransaction
LEMMA DiscardFlow ==
    ASSUME NEW w, NEW s, NEW P, NEW n, Flow(w, s, P, n), NEW c \in Clients
    PROVE  LET t == discardTransaction(s, c)
           IN  /\ Flow(w, t, P, n) /\ t.cl[c].queue = <<>> /\ t.cl[c].multi = FALSE
               /\ \A d \in Clients : d # c => t.cl[d] = s.cl[d]
  <1> DEFINE r == s.cl[c]
             q == [[[[r EXCEPT !.multi = FALSE] EXCEPT !.cas = FALSE] EXCEPT !.exec = FALSE]
                      EXCEPT !.queue = <<>>]
             u == [s EXCEPT !.cl[c].multi = FALSE, !.cl[c].cas = FALSE, !.cl[c].exec = FALSE,
                            !.cl[c].queue = <<>>]
             t == unwatchAllKeys(u, c)
  <1>1. IsServer(s) /\ IsClient(r) /\ PlainClient(r) BY DEF Flow, Plain, IsServer
  <1>2. IsClient(q) /\ PlainClient(q) /\ q.got = r.got /\ q.queue = <<>> /\ q.multi = FALSE
    <2> HIDE DEF r
    <2> QED BY <1>1 DEF IsClient, PlainClient
  <1>3. /\ DOMAIN u = DOMAIN s /\ u.val = s.val /\ u.ttl = s.ttl /\ u.watching = s.watching
        /\ u.channels = s.channels /\ u.blocking = s.blocking /\ u.cl = [s.cl EXCEPT ![c] = q]
    <2>1. u.cl = [s.cl EXCEPT ![c] = q] BY <1>1 DEF IsServer
    <2>2. /\ DOMAIN u = DOMAIN s /\ u.val = s.val /\ u.ttl = s.ttl /\ u.watching = s.watching
          /\ u.channels = s.channels /\ u.blocking = s.blocking
      BY <1>1 DEF IsServer
    <2> QED BY <2>1, <2>2
  <1>4. DOMAIN u.watching = Keys /\ DOMAIN u.blocking = Keys /\ DOMAIN u.channels = Channels
    BY <1>1, <1>3 DEF IsServer
  <1>5. discardTransaction(s, c) = t BY DEF discardTransaction
  <1> HIDE DEF q, u
  <1>6. Flow(w, u, P, n) /\ \A d \in Clients : u.cl[d] = IF d = c THEN q ELSE s.cl[d]
    <2>1. Flow(w, u, P, n) BY <1>2, <1>3, <1>4, FlowClient
    <2>2. \A d \in Clients : u.cl[d] = IF d = c THEN q ELSE s.cl[d] BY <1>1, <1>3 DEF IsServer
    <2> QED BY <2>1, <2>2
  <1>7. Carries(w, u, t, P, n) /\ \A d \in Clients : d # c => t.cl[d] = u.cl[d] BY <1>6, UnwatchFlow
  <1> HIDE DEF t
  <1> QED BY <1>2, <1>5, <1>6, <1>7 DEF Carries

(***************************************************************************)
(* The elements that are queued.  Z has the queue of each client.          *)
(***************************************************************************)

IsPush(cmd) == cmd.op \in {"lpush", "rpush"}

\* Those that are still on their way when i commands of c have been executed.
Rest(Z, c, i) ==
    {y \in Nat : \E d \in Clients : \E j \in 1..Len(Z[d]) :
        IsPush(Z[d][j]) /\ Z[d][j].x = y /\ (d = c => j > i)}
Pend(Z) == {y \in Nat : \E d \in Clients : \E j \in 1..Len(Z[d]) : IsPush(Z[d][j]) /\ Z[d][j].x = y}

\* Queues of a workload of lists; no two pushes have the same element.
QueuesOK(w, Z) ==
    /\ \A c \in Clients : Len(Z[c]) \in Nat
    /\ \A c \in Clients : \A i \in 1..Len(Z[c]) :
         /\ OfLists(w, Z[c][i]) /\ Z[c][i].op \notin {"multi", "exec"}
         /\ IsPush(Z[c][i]) => Z[c][i].x \in Nat
    /\ \A c, d \in Clients : \A i \in 1..Len(Z[c]), j \in 1..Len(Z[d]) :
         IsPush(Z[c][i]) /\ IsPush(Z[d][j]) /\ Z[c][i].x = Z[d][j].x => c = d /\ i = j

\* At first all.
LEMMA RestFirst ==
    ASSUME NEW Z, NEW c \in Clients, \A d \in Clients : Len(Z[d]) \in Nat
    PROVE  Rest(Z, c, 0) = Pend(Z)
  BY DEF Rest, Pend

\* A command of c takes its element.
LEMMA RestNext ==
    ASSUME NEW w, NEW Z, QueuesOK(w, Z), NEW c \in Clients, NEW i \in 1..Len(Z[c])
    PROVE  Before(Z[c][i], Rest(Z, c, i - 1), Rest(Z, c, i))
  <1> DEFINE cmd == Z[c][i]
             Q == Rest(Z, c, i - 1)
             R == Rest(Z, c, i)
  <1>0. Len(Z[c]) \in Nat BY DEF QueuesOK
  <1>1. ASSUME NEW y \in R PROVE y \in Q
    <2>1. PICK d \in Clients : \E j \in 1..Len(Z[d]) :
            IsPush(Z[d][j]) /\ Z[d][j].x = y /\ (d = c => j > i)
      BY DEF Rest
    <2>2. PICK j \in 1..Len(Z[d]) : IsPush(Z[d][j]) /\ Z[d][j].x = y /\ (d = c => j > i) BY <2>1
    <2>3. y \in Nat BY DEF Rest
    <2>4. d = c => j > i - 1 BY <1>0, <2>2
    <2> QED BY <2>2, <2>3, <2>4 DEF Rest
  <1>2. ASSUME NEW y \in Q, y \notin R PROVE IsPush(cmd) /\ cmd.x = y
    <2>1. PICK d \in Clients : \E j \in 1..Len(Z[d]) :
            IsPush(Z[d][j]) /\ Z[d][j].x = y /\ (d = c => j > i - 1)
      BY DEF Rest
    <2>2. PICK j \in 1..Len(Z[d]) : IsPush(Z[d][j]) /\ Z[d][j].x = y /\ (d = c => j > i - 1) BY <2>1
    <2>3. y \in Nat BY DEF Rest
    <2>4. d = c /\ ~ (j > i) BY <1>2, <2>2, <2>3 DEF Rest
    <2>5. j = i BY <1>0, <2>2, <2>4
    <2> QED BY <2>2, <2>4, <2>5
  <1>3. ASSUME IsPush(cmd) PROVE cmd.x \in Q /\ cmd.x \notin R
    <2>1. cmd.x \in Nat BY <1>3 DEF QueuesOK
    <2>2. cmd.x \in Q BY <1>0, <1>3, <2>1 DEF Rest
    <2>3. \A d \in Clients : \A j \in 1..Len(Z[d]) : IsPush(Z[d][j]) /\ Z[d][j].x = cmd.x => d = c /\ j = i
      BY <1>3 DEF QueuesOK
    <2>4. ASSUME cmd.x \in R PROVE FALSE
      <3>1. PICK d \in Clients : \E j \in 1..Len(Z[d]) :
              IsPush(Z[d][j]) /\ Z[d][j].x = cmd.x /\ (d = c => j > i)
        BY <2>4 DEF Rest
      <3>2. PICK j \in 1..Len(Z[d]) : IsPush(Z[d][j]) /\ Z[d][j].x = cmd.x /\ (d = c => j > i) BY <3>1
      <3>3. d = c /\ j = i BY <2>3, <3>2
      <3>4. j > i /\ i \in Int BY <1>0, <3>2, <3>3
      <3> QED BY <3>3, <3>4
    <2> QED BY <2>2, <2>4
  <1> HIDE DEF cmd, Q, R
  <1>4. IsPush(cmd) => cmd.x \notin R /\ Q = R \cup {cmd.x} BY <1>1, <1>2, <1>3
  <1>5. ~ IsPush(cmd) => Q = R BY <1>1, <1>2
  <1> QED BY <1>4, <1>5 DEF Before, IsPush, cmd, Q, R

\* When all commands of c have been executed its queue is thrown away.
LEMMA RestLast ==
    ASSUME NEW w, NEW Z, NEW Y, QueuesOK(w, Z), NEW c \in Clients, Y[c] = <<>>,
           \A d \in Clients : d # c => Y[d] = Z[d]
    PROVE  Pend(Y) = Rest(Z, c, Len(Z[c])) /\ QueuesOK(w, Y)
  <1>0. \A d \in Clients : Len(Z[d]) \in Nat BY DEF QueuesOK
  <1>1. Len(Y[c]) = 0 /\ \A d \in Clients : Len(Y[d]) \in Nat BY <1>0
  <1>2. \A d \in Clients : \A j \in 1..Len(Y[d]) : d # c /\ Y[d] = Z[d] BY <1>1
  <1>3. QueuesOK(w, Y) BY <1>1, <1>2 DEF QueuesOK
  <1>4. \A y : y \in Pend(Y) => y \in Rest(Z, c, Len(Z[c])) BY <1>2 DEF Pend, Rest
  <1>5. ASSUME NEW y \in Rest(Z, c, Len(Z[c])) PROVE y \in Pend(Y)
    <2>1. PICK d \in Clients : \E j \in 1..Len(Z[d]) :
            IsPush(Z[d][j]) /\ Z[d][j].x = y /\ (d = c => j > Len(Z[c]))
      BY DEF Rest
    <2>2. PICK j \in 1..Len(Z[d]) : IsPush(Z[d][j]) /\ Z[d][j].x = y /\ (d = c => j > Len(Z[c])) BY <2>1
    <2>3. d # c BY <1>0, <2>2
    <2>4. y \in Nat BY DEF Rest
    <2> QED BY <2>2, <2>3, <2>4 DEF Pend
  <1> QED BY <1>3, <1>4, <1>5

QueuesOf(s) == [c \in Clients |-> s.cl[c].queue]

\* Between two commands, and while one is executed when no element is in its hand.
AllOnce(w, s, n) ==
    /\ Flow(w, s, Pend(QueuesOf(s)), n) /\ QueuesOK(w, QueuesOf(s))
    /\ \A c \in Clients : c \in w.leave => s.cl[c].multi = FALSE

\* A step that changes no queue.
LEMMA MovesAllOnce ==
    ASSUME NEW w, NEW s, NEW t, NEW n, AllOnce(w, s, n), Moves(w, s, t, Pend(QueuesOf(s)), n)
    PROVE  AllOnce(w, t, n)
  <1>1. QueuesOf(t) = QueuesOf(s) BY DEF QueuesOf, Moves
  <1> QED BY <1>1 DEF AllOnce, Moves

\* In the middle of a command no list is empty.
LEMMA MidNoEmpty ==
    ASSUME NEW s0, NEW s, Mid(s0, s)
    PROVE  NoEmpty(s)
  <1>1. \A k \in Keys : KeyOK(s, k) BY DEF Mid, Sound, Keyed
  <1> QED BY <1>1, ListFacts DEF NoEmpty

\* A command that is queued.
LEMMA ListsQueueable ==
    ASSUME NEW w, NEW cmd, OfLists(w, cmd), cmd.op \notin {"multi", "exec"}
    PROVE  Queueable(cmd)
  BY DEF OfLists, ListOps, Queueable, Known, NotQueued

\* One command of a transaction.
LEMMA ExecStepMoves ==
    ASSUME NEW w, NEW a, NEW P, NEW Q, NEW n \in Nat, NEW cmd, OfLists(w, cmd),
           cmd.op \notin {"multi", "exec"}, Before(cmd, Q, P), Flow(w, a.s, Q, n), NoEmpty(a.s),
           NEW c \in Clients, NEW env
    PROVE  Moves(w, a.s, ExecStep(a, c, cmd, env).s, P, n)
  <1> DEFINE s == a.s
             m == Command("multi", None, None, 0)
             multi == ~ a.must /\ cmd.op \notin ReadOnly
             t == IF multi THEN propagate(s, m) ELSE s
             u == call(t, c, cmd, env)
  <1>1. ExecStep(a, c, cmd, env).s = u BY DEF ExecStep
  <1>2. Flow(w, s, Q, n) /\ NoEmpty(s) /\ IsServer(s) BY DEF Flow, Plain
  <1> HIDE DEF s, m
  <1>3. Moves(w, s, t, Q, n)
    <2>1. Carries(w, s, propagate(s, m), Q, n) BY <1>2, BooksCarry, Zenon
    <2> QED BY <1>2, <2>1, MovesTrans
  <1>4. NoEmpty(t)
    <2>1. propagate(s, m).val = s.val BY <1>2 DEF propagate, IsServer
    <2>2. t.val = s.val BY <2>1
    <2> HIDE DEF t
    <2> QED BY <1>2, <2>2 DEF NoEmpty, IsList
  <1> HIDE DEF t
  <1>5. Flow(w, t, Q, n) BY <1>3, MovesTrans
  <1>6. Moves(w, t, u, P, n) BY <1>4, <1>5, CallMoves
  <1> HIDE DEF u
  <1>7. Moves(w, s, u, P, n) BY <1>3, <1>6, MovesTrans
  <1> QED BY <1>1, <1>7 DEF s

\* All commands of a transaction.
LEMMA DoneMoves ==
    ASSUME NEW w, NEW s0, NEW a, NEW c \in Clients, Mid(s0, a.s), a.s.cl[c].multi = TRUE,
           NEW n \in Nat, NEW Z, QueuesOK(w, Z), Flow(w, a.s, Rest(Z, c, 0), n), NEW env, EnvOK(env)
    PROVE  LET m == Len(Z[c])
               t == (CHOOSE g : DoneFn(g, a, c, Z[c], env, m))[m].s
           IN  Moves(w, a.s, t, Rest(Z, c, m), n)
  <1> DEFINE q == Z[c]
             m == Len(q)
             f == CHOOSE g : DoneFn(g, a, c, q, env, m)
             H(i) == i <= m => /\ Mid(s0, f[i].s) /\ f[i].s.cl[c].multi = TRUE
                               /\ Moves(w, a.s, f[i].s, Rest(Z, c, i), n)
             U == {i \in Nat : H(i)}
  <1>0. m \in Nat /\ \A i \in 1..m : OfLists(w, q[i]) /\ q[i].op \notin {"multi", "exec"}
    BY DEF QueuesOK
  <1>1. f[0] = a /\ \A i \in 1..m : f[i] = ExecStep(f[i - 1], c, q[i], env)
    <2> HIDE DEF m, q
    <2>1. DoneIs(f, a, c, q, env, m) BY <1>0, DoneUnfold
    <2> HIDE DEF f
    <2> QED BY <2>1 DEF DoneIs
  <1>a. \A i \in 1..m : Before(q[i], Rest(Z, c, i - 1), Rest(Z, c, i)) BY RestNext
  <1> HIDE DEF f, m, q
  <1>2. H(0) BY <1>1, MovesTrans
  <1>3. ASSUME NEW i \in Nat, H(i) PROVE H(i + 1)
    <2> DEFINE k == i + 1
    <2>1. k \in Nat /\ k = i + 1 /\ k - 1 = i OBVIOUS
    <2> HIDE DEF k
    <2> SUFFICES ASSUME k <= m
                 PROVE  /\ Mid(s0, f[k].s) /\ f[k].s.cl[c].multi = TRUE
                        /\ Moves(w, a.s, f[k].s, Rest(Z, c, k), n)
      BY DEF k
    <2>2. /\ k \in 1..m /\ Mid(s0, f[i].s) /\ f[i].s.cl[c].multi = TRUE
          /\ Moves(w, a.s, f[i].s, Rest(Z, c, i), n)
      BY <1>0, <1>3, <2>1
    <2>3. /\ f[k] = ExecStep(f[i], c, q[k], env) /\ OfLists(w, q[k]) /\ q[k].op \notin {"multi", "exec"}
          /\ Before(q[k], Rest(Z, c, i), Rest(Z, c, k))
      BY <1>0, <1>1, <1>a, <2>1, <2>2
    <2>4. Queueable(q[k]) BY <2>3, ListsQueueable
    <2> DEFINE e == f[i]
               b == ExecStep(e, c, q[k], env)
    <2> HIDE DEF e
    <2>5. Mid(s0, e.s) /\ e.s.cl[c].multi = TRUE /\ Moves(w, a.s, e.s, Rest(Z, c, i), n) BY <2>2 DEF e
    <2>6. Mid(s0, b.s) /\ b.s.cl[c].multi = TRUE BY <2>4, <2>5, ExecStepGoes
    <2>7. NoEmpty(e.s) /\ Flow(w, e.s, Rest(Z, c, i), n) BY <2>5, MidNoEmpty, MovesTrans
    <2>8. Moves(w, e.s, b.s, Rest(Z, c, k), n) BY <2>3, <2>7, ExecStepMoves
    <2>9. f[k] = b BY <2>3 DEF e
    <2> HIDE DEF b
    <2>10. Moves(w, a.s, b.s, Rest(Z, c, k), n) BY <2>5, <2>8, MovesTrans
    <2> QED BY <2>6, <2>9, <2>10
  <1> HIDE DEF H
  <1>4. Nat \subseteq U
    <2>1. 0 \in U BY <1>2
    <2>2. \A i \in Nat : i \in U => i + 1 \in U BY <1>3
    <2> HIDE DEF U
    <2> QED BY <2>1, <2>2, NatSetInduction
  <1>5. H(m) BY <1>0, <1>4
  <1>6. Moves(w, a.s, f[m].s, Rest(Z, c, m), n) BY <1>0, <1>5 DEF H
  <1> QED BY <1>6 DEF f, m, q

\* EXEC
LEMMA ExecOnce ==
    ASSUME NEW w, NEW s0, NEW s, NEW c \in Clients, Mid(s0, s), NEW n \in Nat, AllOnce(w, s, n),
           NEW env, EnvOK(env)
    PROVE  AllOnce(w, execCommand(s, c, env), n)
  <1> DEFINE Z == QueuesOf(s)
             q == Z[c]
             m == Len(q)
             u == unwatchAllKeys(s, c)
             a == [s |-> u, must |-> FALSE]
             b == (CHOOSE g : DoneFn(g, a, c, q, env, m))[m]
             d == discardTransaction(b.s, c)
             e == execCommand(s, c, env)
  <1>1. e = IF ~ s.cl[c].multi THEN s
            ELSE IF s.cl[c].cas \/ s.cl[c].exec THEN discardTransaction(s, c)
            ELSE ExecDone(b, c)
    <2>1. q = s.cl[c].queue BY DEF QueuesOf
    <2> QED BY <2>1 DEF execCommand, DoneFn
  <1>2. CASE ~ s.cl[c].multi BY <1>1, <1>2
  <1>3. ~ s.cl[c].cas /\ ~ s.cl[c].exec
    <2>1. ClientOK(s.cl[c]) BY DEF Mid, Sound
    <2>2. PlainClient(s.cl[c]) BY DEF AllOnce, Flow, Plain
    <2> QED BY <2>1, <2>2 DEF ClientOK, FlagsOK, SetsOK, PlainClient
  <1>4. CASE s.cl[c].multi
    <2>1. e = ExecDone(b, c) BY <1>1, <1>3, <1>4
    <2>2. ClientOK(s.cl[c]) BY DEF Mid, Sound
    <2>3. s.cl[c].cas = FALSE /\ s.cl[c].multi = TRUE BY <1>3, <1>4, <2>2 DEF ClientOK, SetsOK
    <2>4. Mid(s0, u) /\ u.cl[c].multi = s.cl[c].multi BY <2>3, ExecUnwatchMid
    <2>5. QueuesOK(w, Z) /\ Flow(w, s, Rest(Z, c, 0), n) BY RestFirst DEF AllOnce, QueuesOK
    <2>6. Carries(w, s, u, Rest(Z, c, 0), n) BY <2>5, UnwatchFlow
    <2> HIDE DEF u
    <2>7. a.s = u OBVIOUS
    <2>8. Mid(s0, a.s) /\ a.s.cl[c].multi = TRUE /\ Flow(w, a.s, Rest(Z, c, 0), n)
      BY <2>3, <2>4, <2>6, <2>7 DEF Carries
    <2> HIDE DEF a, Z
    <2>9. Moves(w, a.s, b.s, Rest(Z, c, m), n) BY <2>5, <2>8, DoneMoves
    <2> HIDE DEF b
    <2>10. /\ Flow(w, d, Rest(Z, c, m), n) /\ d.cl[c].queue = <<>> /\ d.cl[c].multi = FALSE
           /\ \A k \in Clients : k # c => d.cl[k] = b.s.cl[k]
      <3> DEFINE g == b.s
      <3> HIDE DEF g
      <3>1. Flow(w, g, Rest(Z, c, m), n) BY <2>9, MovesTrans DEF g
      <3> DEFINE h == discardTransaction(g, c)
                 R == Rest(Z, c, m)
      <3> HIDE DEF R
      <3>2. /\ Flow(w, h, R, n) /\ h.cl[c].queue = <<>> /\ h.cl[c].multi = FALSE
            /\ \A k \in Clients : k # c => h.cl[k] = g.cl[k]
        BY <3>1, DiscardFlow DEF R
      <3> HIDE DEF h
      <3>3. d = h BY DEF g, h
      <3> QED BY <3>2, <3>3 DEF g, R
    <2> HIDE DEF d
    <2>11. \A k \in Clients : b.s.cl[k].queue = s.cl[k].queue /\ b.s.cl[k].multi = s.cl[k].multi
      BY <2>6, <2>7, <2>9 DEF Carries, Moves
    <2> DEFINE Y == QueuesOf(d)
    <2>12. Y[c] = <<>> /\ \A k \in Clients : k # c => Y[k] = Z[k] BY <2>10, <2>11 DEF QueuesOf, Z
    <2> HIDE DEF Y
    <2>13. Pend(Y) = Rest(Z, c, m) /\ QueuesOK(w, Y) BY <2>5, <2>12, RestLast
    <2>18. \A k \in Clients : k \in w.leave => d.cl[k].multi = FALSE BY <2>10, <2>11 DEF AllOnce
    <2>14. AllOnce(w, d, n) BY <2>10, <2>13, <2>18 DEF AllOnce, Y
    <2>15. e = d \/ e = Dirty(d) BY <2>1 DEF ExecDone, d
    <2>16. Carries(w, d, Dirty(d), Pend(QueuesOf(d)), n) BY <2>14, BooksCarry, Zenon DEF AllOnce
    <2>17. AllOnce(w, Dirty(d), n) BY <2>14, <2>16, MovesTrans, MovesAllOnce
    <2> HIDE DEF e
    <2> QED BY <2>14, <2>15, <2>17 DEF e
  <1> QED BY <1>2, <1>4

(***************************************************************************)
(* The clients that are served: the element is in the hand of the loop     *)
(* from the pop until the client, the destination or the list has it.      *)
(***************************************************************************)

\* serveClientBlockedOnList
LEMMA ServeClientCarries ==
    ASSUME NEW w, NEW s, NEW P, NEW n \in Nat, NEW x, x \notin P, Flow(w, s, P \cup {x}, n),
           NEW k \in Keys, IsList(s, k), NEW c \in Clients, NEW dst \in Keys \cup {None},
           NEW head \in BOOLEAN
    PROVE  Carries(w, s, serveClientBlockedOnList(s, c, k, dst, x, head), P, n)
  <1> DEFINE Q == P \cup {x}
             e == serveClientBlockedOnList(s, c, k, dst, x, head)
  <1>1. CASE dst = None
    <2> DEFINE m == Command(IF head THEN "lpop" ELSE "rpop", k, None, 0)
               t == propagate(s, m)
               u == Got(t, c, x)
    <2>1. e = u BY <1>1 DEF serveClientBlockedOnList
    <2> HIDE DEF m, e
    <2>2. Carries(w, s, t, Q, n) BY BooksCarry, Zenon
    <2> HIDE DEF t
    <2>3. Carries(w, t, u, P, n) BY <2>2, GotCarries DEF Carries
    <2> HIDE DEF u, Q
    <2>4. Carries(w, s, u, P, n) BY <2>2, <2>3, CarriesTrans
    <2> QED BY <2>1, <2>4 DEF e
  <1>2. CASE dst # None
    <2>1. dst \in Keys BY <1>2
    <2>2. lookupKeyWrite(s, dst) = s BY <2>1, SignalCarries
    <2>3. CASE WrongType(s, dst)
      <3>1. e = Pushed(s, k, x, head) BY <1>2, <2>2, <2>3 DEF serveClientBlockedOnList
      <3> HIDE DEF e
      <3>2. Carries(w, s, Pushed(s, k, x, head), P, n) BY PushCarries
      <3> QED BY <3>1, <3>2 DEF e
    <2>4. CASE ~ WrongType(s, dst)
      <3> DEFINE m == Command("rpop", k, None, 0)
                 o == Command("lpush", dst, None, x)
                 t == propagate(s, m)
                 u == rpoplpushHandlePush(t, dst, x)
                 v == propagate(u, o)
      <3>1. e = v BY <1>2, <2>2, <2>4 DEF serveClientBlockedOnList
      <3> HIDE DEF m, o, e
      <3>2. w.val[dst].type # "string" BY <2>1, <2>4, PlainList DEF WrongType
      <3>3. Carries(w, s, t, Q, n) BY BooksCarry, Zenon
      <3> HIDE DEF t
      <3>4. Flow(w, t, P \cup {x}, n) BY <3>3, MovesTrans
      <3>5. Carries(w, t, u, P, n) BY <2>1, <3>2, <3>4, HandlePushCarries
      <3> HIDE DEF u, Q
      <3>6. Flow(w, u, P, n) BY <3>5, MovesTrans
      <3>7. Carries(w, u, v, P, n) BY <3>6, BooksCarry, Zenon
      <3> HIDE DEF v
      <3>8. Carries(w, s, u, P, n) BY <3>3, <3>5, CarriesTrans
      <3>9. Carries(w, s, v, P, n) BY <3>7, <3>8, CarriesTrans
      <3> QED BY <3>1, <3>9 DEF e
    <2> QED BY <2>3, <2>4
  <1> QED BY <1>1, <1>2

\* One iteration.
LEMMA ServeOneCarries ==
    ASSUME NEW w, NEW s, NEW P, NEW n \in Nat, Flow(w, s, P, n), NEW k \in Keys, IsList(s, k),
           NEW c \in Clients
    PROVE  Carries(w, s, ServeOne(s, k, c), P, n)
  <1> DEFINE r == s.cl[c]
             head == r.head
             dst == r.target
             x == FirstOf(s.val[k].v, head)
             p == Popped(s, k, head)
             u == unblockClient(p, c)
             e == serveClientBlockedOnList(u, c, k, dst, x, head)
             Q == P \cup {x}
  <1>1. CASE s.val[k].v = <<>>
    <2>1. ServeOne(s, k, c) = s BY <1>1 DEF ServeOne
    <2> QED BY <2>1, CarriesSame
  <1>2. CASE s.val[k].v # <<>>
    <2>1. ServeOne(s, k, c) = e BY <1>2 DEF ServeOne
    <2>2. PlainClient(r) BY DEF Flow, Plain
    <2>3. head \in BOOLEAN /\ dst \in Keys \cup {None} BY <2>2 DEF PlainClient
    <2> HIDE DEF head, dst
    <2>4. x \notin P /\ Carries(w, s, p, Q, n) BY <1>2, <2>3, PopCarries
    <2> HIDE DEF x, p
    <2>5. Carries(w, p, u, Q, n) BY <2>4, UnblockCarries, MovesTrans
    <2> HIDE DEF u
    <2>6. Flow(w, u, P \cup {x}, n) /\ IsList(u, k) BY <2>4, <2>5 DEF Carries
    <2>7. Carries(w, u, e, P, n) BY <2>3, <2>4, <2>6, ServeClientCarries
    <2> HIDE DEF e, Q
    <2>8. Carries(w, s, u, Q, n) BY <2>4, <2>5, CarriesTrans
    <2>9. Carries(w, s, e, P, n) BY <2>7, <2>8, CarriesTrans
    <2> QED BY <2>1, <2>9
  <1> QED BY <1>1, <1>2

\* All clients that wait for k.
LEMMA ServedCarries ==
    ASSUME NEW w, NEW t, NEW P, NEW n \in Nat, Flow(w, t, P, n), NEW k \in Keys, IsList(t, k),
           NEW q, NEW m \in Nat, \A j \in 1..m : q[j] \in Clients
    PROVE  Carries(w, t, (CHOOSE g : ServedFn(g, t, k, q, m))[m], P, n)
  <1> DEFINE f == CHOOSE g : ServedFn(g, t, k, q, m)
             H(i) == i <= m => Carries(w, t, f[i], P, n)
             U == {i \in Nat : H(i)}
  <1>1. f[0] = t /\ \A i \in 1..m : f[i] = ServeOne(f[i - 1], k, q[i]) BY ServedUnfold
  <1> HIDE DEF f
  <1>2. H(0) BY <1>1, CarriesSame
  <1>3. ASSUME NEW i \in Nat, H(i) PROVE H(i + 1)
    <2> DEFINE j == i + 1
    <2>1. j \in Nat /\ j = i + 1 /\ j - 1 = i OBVIOUS
    <2> HIDE DEF j
    <2> SUFFICES ASSUME j <= m PROVE Carries(w, t, f[j], P, n) BY DEF j
    <2>2. j \in 1..m /\ Carries(w, t, f[i], P, n) BY <1>3, <2>1
    <2>3. f[j] = ServeOne(f[i], k, q[j]) /\ q[j] \in Clients BY <1>1, <2>1, <2>2
    <2> DEFINE s == f[i]
               c == q[j]
               e == ServeOne(s, k, c)
    <2>4. Carries(w, t, s, P, n) /\ c \in Clients /\ f[j] = e BY <2>2, <2>3
    <2> HIDE DEF s, c
    <2>5. Flow(w, s, P, n) /\ IsList(s, k) BY <2>4 DEF Carries
    <2>6. Carries(w, s, e, P, n) BY <2>4, <2>5, ServeOneCarries
    <2> HIDE DEF e
    <2> QED BY <2>4, <2>6, CarriesTrans
  <1> HIDE DEF H
  <1>4. Nat \subseteq U
    <2>1. 0 \in U BY <1>2
    <2>2. \A i \in Nat : i \in U => i + 1 \in U BY <1>3
    <2> HIDE DEF U
    <2> QED BY <2>1, <2>2, NatSetInduction
  <1>5. H(m) BY <1>4
  <1>6. Carries(w, t, f[m], P, n) BY <1>5 DEF H
  <1> QED BY <1>6 DEF f

\* The first of the ready keys.
LEMMA ServeKeyMoves ==
    ASSUME NEW w, NEW s0, NEW s, Mid(s0, s), s.ready # <<>>, NEW P, NEW n \in Nat, Flow(w, s, P, n)
    PROVE  Moves(w, s, ServeKey(s), P, n)
  <1> DEFINE k == Head(s.ready)
             u == [s EXCEPT !.ready = Tail(@)]
             t == lookupKeyWrite(u, k)
             q == t.blocking[k]
             m == Len(q)
             f == (CHOOSE g : ServedFn(g, t, k, q, m))[m]
             e == ServeKey(s)
  <1>1. e = IF ~ IsList(t, k) THEN t ELSE DeleteIfEmpty(f, k) BY DEF ServeKey, ServedFn
  <1>2. k \in Keys BY TakeFacts
  <1>3. Carries(w, s, u, P, n) BY BooksCarry, Zenon
  <1>4. IsServer(s) /\ WaitersOK(s) BY DEF Flow, Plain, Mid, Sound
  <1>5. u.blocking = s.blocking BY <1>4 DEF IsServer
  <1> HIDE DEF e, k, u
  <1>6. Flow(w, u, P, n) BY <1>3, MovesTrans
  <1>7. t = u BY <1>2, <1>6, SignalCarries
  <1>8. q \in Seq(Clients) BY <1>2, <1>4, <1>5, <1>7 DEF WaitersOK
  <1>9. m \in Nat /\ \A j \in 1..m : q[j] \in Clients BY <1>8, LenProperties, ElementOfSeq
  <1> HIDE DEF t, q, m
  <1>10. Moves(w, s, t, P, n) /\ Flow(w, t, P, n) BY <1>3, <1>6, <1>7, MovesTrans
  <1>11. CASE ~ IsList(t, k)
    <2>1. e = t BY <1>1, <1>11
    <2> QED BY <1>10, <2>1 DEF e
  <1>12. CASE IsList(t, k)
    <2>1. Carries(w, t, f, P, n) BY <1>2, <1>9, <1>10, <1>12, ServedCarries
    <2> DEFINE v == DeleteIfEmpty(f, k)
    <2>2. e = v BY <1>1, <1>12
    <2> HIDE DEF f
    <2>3. Moves(w, f, v, P, n) BY <1>2, <2>1, EmptyMoves, MovesTrans
    <2> HIDE DEF v
    <2>4. Moves(w, t, f, P, n) BY <2>1, MovesTrans
    <2>5. Moves(w, s, f, P, n) BY <1>10, <2>4, MovesTrans
    <2>6. Moves(w, s, v, P, n) BY <2>3, <2>5, MovesTrans
    <2> QED BY <2>2, <2>6 DEF e
  <1> QED BY <1>11, <1>12

\* handleClientsBlockedOnLists
LEMMA HandleMoves ==
    ASSUME NEW w, NEW s0, NEW s, Mid(s0, s), NEW P, NEW n \in Nat, Flow(w, s, P, n)
    PROVE  Moves(w, s, handleClientsBlockedOnLists(s), P, n)
  <1> DEFINE m == Cardinality(Keys) + Cardinality(Clients)
             f == CHOOSE g : RoundFn(g, s, m)
             H(i) == i <= m => Mid(s0, f[i]) /\ Moves(w, s, f[i], P, n)
             U == {i \in Nat : H(i)}
  <1>1. handleClientsBlockedOnLists(s) = f[m] BY DEF handleClientsBlockedOnLists, RoundFn, RoundStep
  <1>2. ReadySeq(s) BY DEF Mid, Sound, Keyed
  <1>3. m \in Nat BY <1>2, CountBound
  <1> HIDE DEF m
  <1>4. f[0] = s /\ \A i \in 1..m : f[i] = RoundStep(f[i - 1]) BY <1>3, RoundUnfold
  <1> HIDE DEF f
  <1>5. H(0) BY <1>3, <1>4, MovesTrans
  <1>6. ASSUME NEW i \in Nat, H(i) PROVE H(i + 1)
    <2> DEFINE j == i + 1
    <2>1. j \in Nat /\ j = i + 1 /\ j - 1 = i OBVIOUS
    <2> HIDE DEF j
    <2> SUFFICES ASSUME j <= m PROVE Mid(s0, f[j]) /\ Moves(w, s, f[j], P, n) BY DEF j
    <2>2. j \in 1..m /\ Mid(s0, f[i]) /\ Moves(w, s, f[i], P, n) BY <1>3, <1>6, <2>1
    <2>3. f[j] = RoundStep(f[i]) BY <1>4, <2>1, <2>2
    <2> DEFINE u == f[i]
    <2>4. Mid(s0, u) /\ Moves(w, s, u, P, n) /\ f[j] = RoundStep(u) BY <2>2, <2>3
    <2> HIDE DEF u
    <2>5. CASE u.ready = <<>> BY <2>4, <2>5 DEF RoundStep
    <2>6. CASE u.ready # <<>>
      <3> DEFINE v == ServeKey(u)
      <3>1. f[j] = v BY <2>4, <2>6 DEF RoundStep
      <3>2. KeyServed(s0, u, v) BY <2>4, <2>6, ServeKeyFacts
      <3>3. Flow(w, u, P, n) BY <2>4, MovesTrans
      <3>4. Moves(w, u, v, P, n) BY <2>4, <2>6, <3>3, ServeKeyMoves
      <3> HIDE DEF v
      <3>5. Moves(w, s, v, P, n) BY <2>4, <3>4, MovesTrans
      <3> QED BY <3>1, <3>2, <3>5 DEF KeyServed
    <2> QED BY <2>5, <2>6
  <1> HIDE DEF H
  <1>7. Nat \subseteq U
    <2>1. 0 \in U BY <1>5
    <2>2. \A i \in Nat : i \in U => i + 1 \in U BY <1>6
    <2> HIDE DEF U
    <2> QED BY <2>1, <2>2, NatSetInduction
  <1>8. H(m) BY <1>3, <1>7
  <1>9. Moves(w, s, f[m], P, n) BY <1>3, <1>8 DEF H
  <1> QED BY <1>1, <1>9

(***************************************************************************)
(* processCommand, freeClient and the timers, in a workload of lists.      *)
(***************************************************************************)

\* cmd is queued by c.
QueuedBy(w, Z, Y, c, cmd) ==
    /\ QueuesOK(w, Z) /\ c \in Clients /\ OfLists(w, cmd) /\ cmd.op \notin {"multi", "exec"}
    /\ IsPush(cmd) => cmd.x \in Nat
    /\ Len(Y[c]) = Len(Z[c]) + 1 /\ Y[c][Len(Z[c]) + 1] = cmd
    /\ \A i \in 1..Len(Z[c]) : Y[c][i] = Z[c][i]
    /\ \A d \in Clients : d # c => Y[d] = Z[d]

\* Its element, if it pushes one, is on its way, as it was.
LEMMA RestQueue ==
    ASSUME NEW w, NEW Z, NEW Y, NEW c, NEW cmd, NEW Q, QueuedBy(w, Z, Y, c, cmd), Before(cmd, Q, Pend(Z))
    PROVE  Pend(Y) = Q /\ QueuesOK(w, Y)
  <1> DEFINE m == Len(Z[c])
  <1>a. /\ QueuesOK(w, Z) /\ c \in Clients /\ OfLists(w, cmd) /\ cmd.op \notin {"multi", "exec"}
        /\ IsPush(cmd) => cmd.x \in Nat
        /\ \A d \in Clients : d # c => Y[d] = Z[d]
    BY DEF QueuedBy
  <1>1. m \in Nat /\ Len(Y[c]) = m + 1 /\ Y[c][m + 1] = cmd /\ \A i \in 1..m : Y[c][i] = Z[c][i]
    BY DEF QueuedBy, QueuesOK
  <1> USE <1>a
  <1>2. \A d \in Clients : Len(Z[d]) \in Nat /\ Len(Y[d]) \in Nat BY <1>1 DEF QueuesOK
  <1>3. ASSUME NEW d \in Clients, NEW i \in 1..Len(Y[d])
        PROVE  \/ d = c /\ i = m + 1 /\ Y[d][i] = cmd
               \/ i \in 1..Len(Z[d]) /\ Y[d][i] = Z[d][i]
    <2>1. CASE d # c BY <2>1
    <2>2. CASE d = c /\ i = m + 1 BY <1>1, <2>2
    <2>3. CASE d = c /\ i # m + 1
      <3>1. i \in 1..m BY <1>1, <2>3
      <3> QED BY <1>1, <2>3, <3>1
    <2> QED BY <2>1, <2>2, <2>3
  <1>4. \A d \in Clients : \A i \in 1..Len(Z[d]) : i \in 1..Len(Y[d]) /\ Y[d][i] = Z[d][i]
    <2> SUFFICES ASSUME NEW d \in Clients, NEW i \in 1..Len(Z[d])
                 PROVE  i \in 1..Len(Y[d]) /\ Y[d][i] = Z[d][i]
      OBVIOUS
    <2>1. CASE d = c BY <1>1, <2>1
    <2>2. CASE d # c BY <2>2
    <2> QED BY <2>1, <2>2
  <1> HIDE DEF m
  <1>5. \A d \in Clients : \A i \in 1..Len(Z[d]) : IsPush(Z[d][i]) => Z[d][i].x \in Pend(Z)
    BY DEF QueuesOK, Pend
  <1>6. IsPush(cmd) => cmd.x \notin Pend(Z) /\ Q = Pend(Z) \cup {cmd.x} BY DEF Before, IsPush
  <1>7. ~ IsPush(cmd) => Q = Pend(Z) BY DEF Before, IsPush
  <1>8. \A d \in Clients : \A i \in 1..Len(Y[d]) :
          /\ OfLists(w, Y[d][i]) /\ Y[d][i].op \notin {"multi", "exec"}
          /\ IsPush(Y[d][i]) => Y[d][i].x \in Nat
    BY <1>3 DEF QueuesOK
  <1>9. ASSUME NEW d \in Clients, NEW e \in Clients, NEW i \in 1..Len(Y[d]), NEW j \in 1..Len(Y[e]),
               IsPush(Y[d][i]), IsPush(Y[e][j]), Y[d][i].x = Y[e][j].x
        PROVE  d = e /\ i = j
    <2>1. CASE i \in 1..Len(Z[d]) /\ Y[d][i] = Z[d][i] /\ j \in 1..Len(Z[e]) /\ Y[e][j] = Z[e][j]
      BY <1>9, <2>1 DEF QueuesOK
    <2>2. CASE d = c /\ i = m + 1 /\ Y[d][i] = cmd /\ e = c /\ j = m + 1 /\ Y[e][j] = cmd BY <2>2
    <2>3. CASE d = c /\ i = m + 1 /\ Y[d][i] = cmd /\ j \in 1..Len(Z[e]) /\ Y[e][j] = Z[e][j]
      <3>1. Z[e][j].x \in Pend(Z) /\ cmd.x \notin Pend(Z) BY <1>5, <1>6, <1>9, <2>3
      <3> QED BY <1>9, <2>3, <3>1
    <2>4. CASE i \in 1..Len(Z[d]) /\ Y[d][i] = Z[d][i] /\ e = c /\ j = m + 1 /\ Y[e][j] = cmd
      <3>1. Z[d][i].x \in Pend(Z) /\ cmd.x \notin Pend(Z) BY <1>5, <1>6, <1>9, <2>4
      <3> QED BY <1>9, <2>4, <3>1
    <2> QED BY <1>3, <2>1, <2>2, <2>3, <2>4
  <1>10. QueuesOK(w, Y) BY <1>2, <1>8, <1>9 DEF QueuesOK
  <1>11. ASSUME NEW y \in Pend(Y) PROVE y \in Q
    <2>1. PICK d \in Clients : \E i \in 1..Len(Y[d]) : IsPush(Y[d][i]) /\ Y[d][i].x = y BY DEF Pend
    <2>2. PICK i \in 1..Len(Y[d]) : IsPush(Y[d][i]) /\ Y[d][i].x = y BY <2>1
    <2>3. CASE Y[d][i] = cmd BY <1>6, <2>2, <2>3
    <2>4. CASE i \in 1..Len(Z[d]) /\ Y[d][i] = Z[d][i]
      <3>1. y \in Pend(Z) BY <1>5, <2>2, <2>4
      <3> QED BY <1>6, <1>7, <3>1
    <2> QED BY <1>3, <2>3, <2>4
  <1>12. \A y \in Pend(Z) : y \in Pend(Y)
    <2> SUFFICES ASSUME NEW y \in Pend(Z) PROVE y \in Pend(Y) OBVIOUS
    <2>1. PICK d \in Clients : \E i \in 1..Len(Z[d]) : IsPush(Z[d][i]) /\ Z[d][i].x = y BY DEF Pend
    <2>2. PICK i \in 1..Len(Z[d]) : IsPush(Z[d][i]) /\ Z[d][i].x = y BY <2>1
    <2>3. y \in Nat /\ i \in 1..Len(Y[d]) /\ Y[d][i] = Z[d][i] BY <1>4 DEF Pend
    <2> QED BY <2>2, <2>3 DEF Pend
  <1>13. IsPush(cmd) => cmd.x \in Pend(Y)
    <2>1. m + 1 \in 1..Len(Y[c]) /\ Y[c][m + 1] = cmd BY <1>1
    <2> QED BY <2>1 DEF Pend
  <1>14. \A y \in Q : y \in Pend(Y) BY <1>6, <1>7, <1>12, <1>13
  <1> QED BY <1>10, <1>11, <1>14

\* MULTI
LEMMA MultiOnce ==
    ASSUME NEW w, NEW s, NEW n, AllOnce(w, s, n), NEW c \in Clients, c \notin w.leave
    PROVE  AllOnce(w, multiCommand(s, c), n)
  <1> DEFINE P == Pend(QueuesOf(s))
             r == s.cl[c]
             q == [r EXCEPT !.multi = TRUE]
             t == multiCommand(s, c)
  <1>1. Flow(w, s, P, n) /\ IsServer(s) /\ IsClient(r) /\ PlainClient(r)
    BY DEF AllOnce, Flow, Plain, IsServer
  <1>2. IsClient(q) /\ PlainClient(q) /\ q.got = r.got /\ q.queue = r.queue
    <2> HIDE DEF r
    <2> QED BY <1>1 DEF IsClient, PlainClient
  <1>3. /\ DOMAIN t = DOMAIN s /\ t.val = s.val /\ t.ttl = s.ttl /\ t.watching = s.watching
        /\ t.channels = s.channels /\ t.blocking = s.blocking /\ t.cl = [s.cl EXCEPT ![c] = q]
    BY <1>1 DEF IsServer, multiCommand
  <1>4. DOMAIN t.watching = Keys /\ DOMAIN t.blocking = Keys /\ DOMAIN t.channels = Channels
    BY <1>1, <1>3 DEF IsServer
  <1> HIDE DEF q, t, P
  <1>5. Flow(w, t, P, n) BY <1>1, <1>2, <1>3, <1>4, FlowClient
  <1>6. \A d \in Clients : t.cl[d] = IF d = c THEN q ELSE s.cl[d] BY <1>1, <1>3 DEF IsServer
  <1>7. QueuesOf(t) = QueuesOf(s) BY <1>2, <1>6 DEF QueuesOf
  <1>8. AllOnce(w, t, n) BY <1>5, <1>6, <1>7 DEF AllOnce, P
  <1> QED BY <1>8 DEF t

\* queueMultiCommand
LEMMA QueueOnce ==
    ASSUME NEW w, NEW s, NEW n, NEW c \in Clients, ClientOK(s.cl[c]), NEW cmd, OfLists(w, cmd),
           cmd.op \notin {"multi", "exec"}, IsPush(cmd) => cmd.x \in Nat, NEW Q,
           Before(cmd, Q, Pend(QueuesOf(s))), Flow(w, s, Q, n), QueuesOK(w, QueuesOf(s)),
           \A d \in Clients : d \in w.leave => s.cl[d].multi = FALSE
    PROVE  AllOnce(w, queueMultiCommand(s, c, cmd), n)
  <1> DEFINE r == s.cl[c]
             x == Append(s.cl[c].queue, cmd)
             q == [r EXCEPT !.queue = x]
             t == queueMultiCommand(s, c, cmd)
  <1>1. IsServer(s) /\ IsClient(r) /\ PlainClient(r) BY DEF Flow, Plain, IsServer
  <1>2. t = [s EXCEPT !.cl[c].queue = x] BY DEF queueMultiCommand
  <1>9. x = Append(r.queue, cmd) OBVIOUS
  <1> HIDE DEF x
  <1>3. IsClient(q) /\ PlainClient(q) /\ q.got = r.got /\ q.multi = r.multi /\ q.queue = x
    <2> HIDE DEF r
    <2> QED BY <1>1 DEF IsClient, PlainClient
  <1>4. /\ DOMAIN t = DOMAIN s /\ t.val = s.val /\ t.ttl = s.ttl /\ t.watching = s.watching
        /\ t.channels = s.channels /\ t.blocking = s.blocking /\ t.cl = [s.cl EXCEPT ![c] = q]
    BY <1>1, <1>2 DEF IsServer
  <1>5. DOMAIN t.watching = Keys /\ DOMAIN t.blocking = Keys /\ DOMAIN t.channels = Channels
    BY <1>1, <1>4 DEF IsServer
  <1> HIDE DEF q, t
  <1>6. Flow(w, t, Q, n) BY <1>3, <1>4, <1>5, FlowClient
  <1>7. \A d \in Clients : t.cl[d] = IF d = c THEN q ELSE s.cl[d] BY <1>1, <1>4 DEF IsServer
  <1>8. \A d \in Clients : d \in w.leave => t.cl[d].multi = FALSE BY <1>3, <1>7
  <1> DEFINE Z == QueuesOf(s)
             Y == QueuesOf(t)
             S == ToSet(r.queue) \cup {cmd}
  <1>10. Z[c] = r.queue /\ Y[c] = x /\ \A d \in Clients : d # c => Y[d] = Z[d]
    BY <1>3, <1>7 DEF QueuesOf
  <1>11. r.queue \in Seq(S) /\ cmd \in S
    <2>1. r.queue \in Seq(ToSet(r.queue)) BY DEF ClientOK, QueueOK
    <2> HIDE DEF r
    <2> QED BY <2>1, SeqMonotonic
  <1> HIDE DEF Y, S, r
  <1>12. /\ Len(Y[c]) = Len(Z[c]) + 1 /\ Y[c][Len(Z[c]) + 1] = cmd
         /\ \A i \in 1..Len(Z[c]) : Y[c][i] = Z[c][i]
    BY <1>9, <1>10, <1>11, AppendProperties
  <1>13. QueuedBy(w, Z, Y, c, cmd) BY <1>10, <1>12 DEF QueuedBy
  <1>16. Before(cmd, Q, Pend(Z)) OBVIOUS
  <1> HIDE DEF Z
  <1>14. Pend(Y) = Q /\ QueuesOK(w, Y) BY <1>13, <1>16, RestQueue
  <1>15. AllOnce(w, t, n) BY <1>6, <1>8, <1>14 DEF AllOnce, Y
  <1> QED BY <1>15 DEF t

\* Propagated
LEMMA PropagatedOnce ==
    ASSUME NEW w, NEW s, NEW t, NEW n, AllOnce(w, t, n)
    PROVE  AllOnce(w, Propagated(s, t), n)
  <1>1. Flow(w, t, Pend(QueuesOf(t)), n) BY DEF AllOnce
  <1>2. Moves(w, t, Propagated(s, t), Pend(QueuesOf(t)), n) BY <1>1, PropagatedMoves
  <1> QED BY <1>2, MovesAllOnce

\* A client sends cmd, and the elements of Q are on their way, the one that it pushes too.
Sends(w, s, c, cmd, Q, n) ==
    /\ OfLists(w, cmd) /\ (IsPush(cmd) => cmd.x \in Nat) /\ (cmd.op = "multi" => c \notin w.leave)
    /\ Before(cmd, Q, Pend(QueuesOf(s))) /\ Flow(w, s, Q, n) /\ QueuesOK(w, QueuesOf(s))
    /\ \A d \in Clients : d \in w.leave => s.cl[d].multi = FALSE

\* A client sends a command with a new element, or with none.
LEMMA SendsNew ==
    ASSUME NEW w, NEW s, NEW n \in Nat, AllOnce(w, s, n), NEW c, NEW cmd, OfLists(w, cmd),
           IsPush(cmd) => cmd.x = n + 1, cmd.op = "multi" => c \notin w.leave
    PROVE  \E Q : Sends(w, s, c, cmd, Q, IF IsPush(cmd) THEN n + 1 ELSE n)
  <1> DEFINE P == Pend(QueuesOf(s))
  <1>1. /\ Flow(w, s, P, n) /\ QueuesOK(w, QueuesOf(s))
        /\ \A d \in Clients : d \in w.leave => s.cl[d].multi = FALSE
    BY DEF AllOnce
  <1>2. CASE IsPush(cmd)
    <2> DEFINE L == ListsOf(s)
               G == GotOf(s)
    <2>1. Plain(w, s) /\ Once(L, G, P, n) BY <1>1 DEF Flow
    <2> HIDE DEF P, L, G
    <2>2. n + 1 \notin P /\ Once(L, G, P \cup {n + 1}, n + 1) BY <2>1, OnceNew
    <2>3. Flow(w, s, P \cup {n + 1}, n + 1) BY <2>1, <2>2 DEF Flow, L, G
    <2>4. Before(cmd, P \cup {n + 1}, P) BY <1>2, <2>2 DEF Before, IsPush
    <2>5. cmd.x \in Nat BY <1>2
    <2>6. Sends(w, s, c, cmd, P \cup {n + 1}, n + 1) BY <1>1, <2>3, <2>4, <2>5 DEF Sends, P
    <2> QED BY <1>2, <2>6
  <1>3. CASE ~ IsPush(cmd)
    <2>1. Before(cmd, P, P) BY <1>3 DEF Before, IsPush
    <2>2. Sends(w, s, c, cmd, P, n) BY <1>1, <1>3, <2>1 DEF Sends
    <2> QED BY <1>3, <2>2
  <1> QED BY <1>2, <1>3

\* The command has been called.
LEMMA SentOnce ==
    ASSUME NEW w, NEW s, NEW t, NEW n, NEW Q, NEW c, NEW cmd, Sends(w, s, c, cmd, Q, n),
           Moves(w, s, t, Pend(QueuesOf(s)), n)
    PROVE  AllOnce(w, t, n)
  <1>1. QueuesOf(t) = QueuesOf(s) BY DEF QueuesOf, Moves
  <1> QED BY <1>1 DEF AllOnce, Moves, Sends

\* call for the commands that are never queued.
LEMMA CallTopOnce ==
    ASSUME NEW w, NEW s0, NEW s, NEW c \in Clients, Mid(s0, s), NEW cmd, NEW env, EnvOK(env), NEW n \in Nat,
           NEW Q, Sends(w, s, c, cmd, Q, n)
    PROVE  AllOnce(w, CallTop(s, c, cmd, env), n)
  <1> DEFINE t == [s EXCEPT !.argv = cmd, !.force = FALSE]
             e == CallTop(s, c, cmd, env)
  <1>1. Good(s) BY DEF Mid, Sound, Keyed
  <1>2. Quiet(s, t) BY <1>1, BooksQuiet, Zenon
  <1>3. cmd.op = "multi" => e = Propagated(s, multiCommand(t, c)) BY DEF CallTop
  <1>4. cmd.op = "exec" => e = Propagated(s, execCommand(t, c, env)) BY DEF CallTop
  <1>5. cmd.op \notin {"multi", "exec"} => e = call(s, c, cmd, env)
    BY DEF CallTop, Sends, OfLists, ListOps
  <1>6. Flow(w, s, Q, n) BY DEF Sends
  <1>7. Carries(w, s, t, Q, n) BY <1>6, BooksCarry, Zenon
  <1> HIDE DEF t, e
  <1>8. Mid(s0, t) BY <1>2, QuietGoes DEF Goes
  <1>9. CASE cmd.op \in {"multi", "exec"}
    <2>1. Q = Pend(QueuesOf(s)) BY <1>9 DEF Sends, Before
    <2>2. AllOnce(w, t, n) BY <1>7, <2>1, MovesTrans, SentOnce
    <2>3. CASE cmd.op = "multi"
      <3>1. c \notin w.leave BY <2>3 DEF Sends
      <3>2. AllOnce(w, multiCommand(t, c), n) BY <2>2, <3>1, MultiOnce
      <3> QED BY <1>3, <2>3, <3>2, PropagatedOnce DEF e
    <2>4. CASE cmd.op = "exec"
      <3>1. AllOnce(w, execCommand(t, c, env), n) BY <1>8, <2>2, ExecOnce
      <3> QED BY <1>4, <2>4, <3>1, PropagatedOnce DEF e
    <2> QED BY <1>9, <2>3, <2>4
  <1>10. CASE cmd.op \notin {"multi", "exec"}
    <2> DEFINE P == Pend(QueuesOf(s))
               u == call(s, c, cmd, env)
    <2>1. OfLists(w, cmd) /\ Before(cmd, Q, P) BY DEF Sends
    <2>2. NoEmpty(s) BY MidNoEmpty
    <2> HIDE DEF P
    <2>3. Moves(w, s, u, P, n) BY <1>6, <1>10, <2>1, <2>2, CallMoves
    <2> HIDE DEF u
    <2>4. AllOnce(w, u, n) BY <2>3, SentOnce DEF P
    <2> QED BY <1>5, <1>10, <2>4 DEF e, u
  <1> QED BY <1>9, <1>10

\* processCommand
LEMMA ProcessOnce ==
    ASSUME NEW w, NEW s, NEW c \in Clients, Over(s, s), ~ s.cl[c].blocked, NEW cmd, NEW env, EnvOK(env),
           env.evict = None, env.oom = FALSE, env.deny = FALSE, NEW n \in Nat, NEW Q,
           Sends(w, s, c, cmd, Q, n)
    PROVE  AllOnce(w, processCommand(s, c, cmd, env), n)
  <1> DEFINE u == CallTop(s, c, cmd, env)
             h == handleClientsBlockedOnLists(u)
             e == processCommand(s, c, cmd, env)
  <1>1. /\ Mid(s, s) /\ s.ready = <<>> /\ ClientOK(s.cl[c]) BY DEF Over, Mid, Sound
  <1>2. OfLists(w, cmd) /\ cmd.op \in ListOps /\ PlainClient(s.cl[c]) BY DEF Sends, OfLists, Flow, Plain
  <1>3. ~ s.cl[c].pubsub
    <2> DEFINE r == s.cl[c]
    <2> HIDE DEF r
    <2>1. r.pubsub = (r.channels # {} \/ r.patterns # {}) /\ r.channels = {} /\ r.patterns = {}
      BY <1>1, <1>2 DEF r, ClientOK, FlagsOK, PlainClient
    <2>2. ~ r.pubsub BY <2>1
    <2> QED BY <2>2 DEF r
  <1>4. cmd.op # "bad" BY <1>2 DEF ListOps
  <1>5. e = IF s.cl[c].multi /\ cmd.op \notin NotQueued THEN queueMultiCommand(s, c, cmd) ELSE h
    BY <1>3, <1>4 DEF processCommand
  <1> HIDE DEF e
  <1>6. CASE s.cl[c].multi /\ cmd.op \notin NotQueued
    <2>1. cmd.op \notin {"multi", "exec"} BY <1>6 DEF NotQueued
    <2>2. e = queueMultiCommand(s, c, cmd) BY <1>5, <1>6
    <2>3. AllOnce(w, queueMultiCommand(s, c, cmd), n) BY <1>1, <2>1, QueueOnce DEF Sends
    <2> QED BY <2>2, <2>3 DEF e
  <1>7. CASE ~ (s.cl[c].multi /\ cmd.op \notin NotQueued)
    <2>1. e = h BY <1>5, <1>7
    <2>2. Known(cmd) BY <1>2 DEF OfLists, ListOps, Known
    <2>3. Mid(s, u) BY <1>1, <1>4, <2>2, CallTopMid
    <2>4. AllOnce(w, u, n) BY <1>1, CallTopOnce
    <2> HIDE DEF u
    <2>5. Flow(w, u, Pend(QueuesOf(u)), n) BY <2>4 DEF AllOnce
    <2>6. Moves(w, u, h, Pend(QueuesOf(u)), n) BY <2>3, <2>5, HandleMoves
    <2> HIDE DEF h
    <2>7. AllOnce(w, h, n) BY <2>4, <2>6, MovesAllOnce
    <2> QED BY <2>1, <2>7 DEF e
  <1> QED BY <1>6, <1>7

\* freeClient, for a client that is in no transaction.
LEMMA FreeOnce ==
    ASSUME NEW w, NEW s, NEW c \in Clients, Over(s, s), NEW n, AllOnce(w, s, n), c \in w.leave
    PROVE  AllOnce(w, freeClient(s, c), n)
  <1> DEFINE t == IF s.cl[c].blocked THEN unblockClient(s, c) ELSE s
             u == pubsubUnsubscribePatterns(
                      pubsubUnsubscribeChannels(unwatchAllKeys(t, c), c, t.cl[c].channels),
                      c, t.cl[c].patterns)
             q == [NoClient EXCEPT !.got = s.cl[c].got]
             e == freeClient(s, c)
             P == Pend(QueuesOf(s))
  <1>1. e = [u EXCEPT !.cl[c] = q] BY DEF freeClient
  <1>2. Sound(s) /\ IsServer(s) /\ ClientOK(s.cl[c]) BY DEF Over, Mid, Sound, Keyed, Good
  <1>3. Sound(t) /\ Own(s, t, c) /\ t.cl[c].keys = {}
    <2>1. CASE s.cl[c].blocked = TRUE
      <3>1. t = unblockClient(s, c) BY <2>1
      <3>2. Over(s, t) /\ Unblocked(s, t, c) BY <3>1, TimeoutOver
      <3> HIDE DEF t
      <3>3. t.cl[c].keys = {}
        <4>1. t.cl[c] = [[[s.cl[c] EXCEPT !.keys = {}] EXCEPT !.target = None] EXCEPT !.blocked = FALSE]
          BY <3>2 DEF Unblocked
        <4>2. IsClient(s.cl[c]) BY <1>2 DEF IsServer
        <4> DEFINE x == s.cl[c]
                   y == t.cl[c]
        <4>3. IsClient(x) /\ y = [[[x EXCEPT !.keys = {}] EXCEPT !.target = None] EXCEPT !.blocked = FALSE]
          BY <4>1, <4>2
        <4> HIDE DEF x, y
        <4>4. y.keys = {} BY <4>3 DEF IsClient
        <4> QED BY <4>4 DEF y
      <3> QED BY <3>2, <3>3 DEF Over, Mid, Unblocked
    <2>2. CASE s.cl[c].blocked = FALSE
      <3>1. t = s BY <2>2
      <3>2. s.cl[c].keys = {} BY <1>2, <2>2 DEF ClientOK, FlagsOK
      <3> QED BY <1>2, <3>1, <3>2 DEF Own
    <2> QED BY <1>2, <2>1, <2>2 DEF ClientOK, SetsOK
  <1> HIDE DEF t
  <1>4. Own(s, u, c)
    <2>1. /\ IsServer(t) /\ WatchersOK(t) /\ WaitersOK(t) /\ ChannelsOK(t) /\ PatternsOK(t)
          /\ t.cl[c].watched \subseteq Keys
      BY <1>3 DEF Sound, Keyed, Good, ClientOK, SetsOK
    <2>2. Alone(t, u, c) BY <1>3, <2>1, LeaveFacts
    <2> HIDE DEF u
    <2>3. Own(t, u, c) BY <2>2 DEF Alone
    <2> QED BY <1>3, <2>3, OwnTrans
  <1> HIDE DEF u
  <1>5. /\ IsClient(q) /\ PlainClient(q) /\ q.got = s.cl[c].got /\ q.queue = <<>> /\ q.multi = FALSE
    <2> DEFINE x == s.cl[c].got
    <2> HIDE DEF x
    <2>1. q = [NoClient EXCEPT !.got = x] BY DEF x
    <2> HIDE DEF q
    <2> QED BY <2>1 DEF NoClient, IsClient, PlainClient, x
  <1> HIDE DEF q
  <1>6. IsServer(u) /\ u.val = s.val /\ u.ttl = s.ttl /\ \A d \in Clients : d # c => u.cl[d] = s.cl[d]
    BY <1>4 DEF Own
  <1> HIDE DEF e
  <1>7. /\ DOMAIN e = DOMAIN u /\ e.val = s.val /\ e.ttl = s.ttl /\ e.cl = [u.cl EXCEPT ![c] = q]
        /\ e.watching = u.watching /\ e.blocking = u.blocking /\ e.channels = u.channels
    BY <1>1, <1>6 DEF IsServer
  <1>8. \A d \in Clients : e.cl[d] = IF d = c THEN q ELSE s.cl[d] BY <1>6, <1>7 DEF IsServer
  <1>9. Flow(w, s, P, n) /\ \A d \in Clients : IsClient(s.cl[d]) /\ PlainClient(s.cl[d])
    BY DEF AllOnce, Flow, Plain, IsServer
  <1>10. IsServer(e) BY <1>5, <1>6, <1>7, <1>8, <1>9 DEF IsServer
  <1>11. s.cl[c].multi = FALSE /\ s.cl[c].queue = <<>> BY <1>2 DEF AllOnce, ClientOK, FlagsOK
  <1>12. Kept(s, e) BY <1>5, <1>8, <1>9, <1>11 DEF Kept
  <1>13. Carries(w, s, e, P, n) BY <1>7, <1>9, <1>10, <1>12, FlowSame
  <1>14. AllOnce(w, e, n) BY <1>13, MovesTrans, MovesAllOnce
  <1> QED BY <1>14 DEF e

\* The end of a step.
LEMMA SettledOnce ==
    ASSUME NEW w, NEW s, NEW t, NEW n, AllOnce(w, t, n)
    PROVE  AllOnce(w, Settled(s, t), n)
  <1> DEFINE u == Settled(s, t)
             x == [c \in Clients |-> [t.cl[c] EXCEPT !.stale = t.cl[c].stale \/ Stale(s, t, c)]]
             P == Pend(QueuesOf(t))
  <1>1. Flow(w, t, P, n) /\ IsServer(t) /\ \A c \in Clients : IsClient(t.cl[c]) /\ PlainClient(t.cl[c])
    BY DEF AllOnce, Flow, Plain, IsServer
  <1>2. /\ DOMAIN u = DOMAIN t /\ u.val = t.val /\ u.ttl = t.ttl /\ u.cl = x
        /\ u.watching = t.watching /\ u.blocking = t.blocking /\ u.channels = t.channels
    <2> HIDE DEF x
    <2>1. u = [t EXCEPT !.out = <<>>, !.gone = {}, !.argv = None,
                        !.dirty = IF @ > MaxDirty THEN MaxDirty ELSE @, !.cl = x]
      BY <1>1 DEF Settled, IsServer, x
    <2> HIDE DEF u
    <2> QED BY <1>1, <2>1 DEF IsServer
  <1>3. ASSUME NEW c \in Clients
        PROVE  /\ IsClient(x[c]) /\ PlainClient(x[c]) /\ x[c].got = t.cl[c].got
               /\ x[c].queue = t.cl[c].queue /\ x[c].multi = t.cl[c].multi
    <2> DEFINE r == t.cl[c]
               b == t.cl[c].stale \/ Stale(s, t, c)
    <2>1. IsClient(r) /\ PlainClient(r) BY <1>1
    <2>2. x[c] = [r EXCEPT !.stale = b] OBVIOUS
    <2> HIDE DEF r, b, x
    <2>3. LET q == [r EXCEPT !.stale = b]
          IN  IsClient(q) /\ PlainClient(q) /\ q.got = r.got /\ q.queue = r.queue /\ q.multi = r.multi
      BY <2>1 DEF IsClient, PlainClient
    <2> QED BY <2>2, <2>3 DEF r
  <1>4. DOMAIN x = Clients OBVIOUS
  <1> HIDE DEF u, x, P
  <1>5. IsServer(u) BY <1>1, <1>2, <1>3, <1>4 DEF IsServer
  <1>6. Kept(t, u) BY <1>2, <1>3 DEF Kept
  <1>7. Carries(w, t, u, P, n) BY <1>1, <1>2, <1>5, <1>6, FlowSame
  <1>8. AllOnce(w, u, n) BY <1>7, MovesTrans, MovesAllOnce DEF P
  <1> QED BY <1>8 DEF u

\* At first all lists are empty.
LEMMA InitOnce ==
    ASSUME NEW w \in Workloads, OnlyLists(w)
    PROVE  AllOnce(w, [NewServer(FALSE, Clients) EXCEPT !.val = w.val], 0)
  <1> DEFINE s == [NewServer(FALSE, Clients) EXCEPT !.val = w.val]
  <1>1. /\ IsServer(s) /\ s.val = w.val /\ s.ttl = [k \in Keys |-> "none"]
        /\ s.cl = [c \in Clients |-> NoClient]
    <2> DEFINE v == w.val
    <2>1. v = [k \in Keys |-> v[k]] BY WorkloadAssumption
    <2>2. DOMAIN v = Keys
      <3> HIDE DEF v
      <3> QED BY <2>1
    <2> HIDE DEF v
    <2>3. s = [NewServer(FALSE, Clients) EXCEPT !.val = v] BY DEF v
    <2> HIDE DEF s
    <2>4. IsClient(NoClient) BY DEF IsClient, NoClient
    <2> QED BY <2>2, <2>3, <2>4 DEF NewServer, IsServer, v
  <1>2. \A k \in Keys : IsValue(s.val[k]) /\ w.val[k].type # "list"
    <2>1. \A k \in Keys : IsValue(w.val[k]) BY WorkloadAssumption
    <2> QED BY <1>1, <2>1 DEF OnlyLists
  <1> HIDE DEF s
  <1>3. \A k \in Keys : PlainKey(w, s, k) BY <1>1, <1>2 DEF PlainKey, IsValue
  <1>4. \A c \in Clients : /\ PlainClient(s.cl[c]) /\ s.cl[c].got = {} /\ s.cl[c].queue = <<>>
                           /\ s.cl[c].multi = FALSE
    <2>1. PlainClient(NoClient) /\ NoClient.got = {} /\ NoClient.queue = <<>> /\ NoClient.multi = FALSE
      BY DEF NoClient, PlainClient
    <2>2. \A c \in Clients : s.cl[c] = NoClient BY <1>1
    <2> QED BY <2>1, <2>2
  <1>5. \A k \in Keys : ListsOf(s)[k] = <<>> BY <1>1, <1>2 DEF ListsOf, Elems, IsList
  <1>6. \A c \in Clients : GotOf(s)[c] = {} /\ QueuesOf(s)[c] = <<>> BY <1>4 DEF GotOf, QueuesOf
  <1>7. Len(<<>>) = 0 /\ <<>> \in Seq(1..0) /\ 1..0 = {} OBVIOUS
  <1>8. Pend(QueuesOf(s)) = {} BY <1>6, <1>7 DEF Pend
  <1>9. QueuesOK(w, QueuesOf(s)) BY <1>6, <1>7 DEF QueuesOK
  <1>10. Once(ListsOf(s), GotOf(s), {}, 0) BY <1>5, <1>6, <1>7 DEF Once
  <1> QED BY <1>1, <1>3, <1>4, <1>8, <1>9, <1>10 DEF AllOnce, Flow, Plain, s

\* What a client of a workload of lists sends.
LEMMA SentOfLists ==
    ASSUME NEW w \in Workloads, OnlyLists(w), NEW c \in Clients, NEW cmd \in w.commands[c]
    PROVE  /\ OfLists(w, Written(cmd)) /\ Written(cmd).op = cmd.op /\ cmd.op # "set"
           /\ IsPush(Written(cmd)) => Written(cmd).x = writes + 1
           /\ cmd.op = "multi" => c \notin w.leave
  <1>1. /\ cmd.op \in ListOps /\ (cmd.op \in {"lpush", "rpush"} => w.val[cmd.k].type # "string")
        /\ (cmd.op = "multi" => c \notin w.leave)
    BY DEF OnlyLists
  <1>2. Known(Written(cmd)) BY SentKnown
  <1>3. IsCommand(Written(cmd)) BY <1>2 DEF Known
  <1>4. cmd.op # "set" BY <1>1 DEF ListOps
  <1>5. cmd = Command(cmd.op, cmd.k, cmd.k2, cmd.x) BY WorkloadAssumption DEF IsCommand
  <1> DEFINE d == Written(cmd)
             y == writes + 1
  <1>6. CASE IsPush(cmd)
    <2>1. d = [cmd EXCEPT !.x = y] BY <1>6 DEF Written, IsPush
    <2> HIDE DEF d, y
    <2>2. d.op = cmd.op /\ d.k = cmd.k /\ d.x = y BY <1>5, <2>1 DEF Command
    <2> QED BY <1>1, <1>3, <1>4, <2>2 DEF OfLists, d, y
  <1>7. CASE ~ IsPush(cmd)
    <2>1. d = cmd BY <1>4, <1>7 DEF Written, IsPush
    <2> HIDE DEF d
    <2> QED BY <1>1, <1>3, <1>4, <1>7, <2>1 DEF OfLists, IsPush, d
  <1> QED BY <1>6, <1>7

OnceInv == /\ writes \in Nat /\ (workload.lists => AllOnce(workload, sv, writes))

\* A step preserves it.
LEMMA OnceStep == Inv /\ OnceInv /\ [Next]_vars => OnceInv'
  <1> SUFFICES ASSUME Inv, OnceInv, [Next]_vars PROVE OnceInv' OBVIOUS
  <1> DEFINE w == workload
             P == Pend(QueuesOf(sv))
  <1>1. w \in Workloads /\ Over(sv, sv) /\ writes \in Nat BY RestsOver DEF Inv, OnceInv
  <1>2. w.lists => OnlyLists(w) /\ AllOnce(w, sv, writes) /\ Flow(w, sv, P, writes)
    BY <1>1, ListsAssumption DEF OnceInv, AllOnce
  <1>3. ASSUME NEW t, NEW n \in Nat, writes' = n, Local(t), w.lists => AllOnce(w, t, n) PROVE OnceInv'
    <2>1. sv' = Settled(sv, t) /\ workload' = w BY <1>3 DEF Local, Settled
    <2>2. w.lists => AllOnce(w, Settled(sv, t), n) BY <1>3, SettledOnce
    <2> QED BY <1>3, <2>1, <2>2 DEF OnceInv, AllOnce
  <1>4. ASSUME NEW c \in Clients, Request(c) PROVE OnceInv'
    <2>1. PICK cmd \in w.commands[c], env \in w.envs :
             /\ After(processCommand(sv, c, Written(cmd), env))
             /\ writes' = IF cmd.op \in {"set", "lpush", "rpush"} THEN writes + 1 ELSE writes
      BY <1>4 DEF Request
    <2>2. ~ sv.cl[c].blocked BY <1>4 DEF Request
    <2>3. EnvOK(env) BY <1>1, WorkloadAssumption DEF EnvOK
    <2> DEFINE t == processCommand(sv, c, Written(cmd), env)
               n == IF cmd.op \in {"set", "lpush", "rpush"} THEN writes + 1 ELSE writes
    <2>4. Local(t) BY <2>1 DEF After
    <2>5. n \in Nat /\ writes' = n BY <1>1, <2>1
    <2>6. ASSUME w.lists PROVE AllOnce(w, t, n)
      <3> DEFINE d == Written(cmd)
      <3>1. /\ OfLists(w, d) /\ d.op = cmd.op /\ cmd.op # "set" /\ (IsPush(d) => d.x = writes + 1)
            /\ (d.op = "multi" => c \notin w.leave)
        BY <1>1, <1>2, <2>6, SentOfLists
      <3>2. env.evict = None /\ env.oom = FALSE /\ env.deny = FALSE BY <1>2, <2>6 DEF OnlyLists
      <3>3. n = IF IsPush(d) THEN writes + 1 ELSE writes BY <3>1 DEF IsPush
      <3>4. t = processCommand(sv, c, d, env) OBVIOUS
      <3> HIDE DEF d, n, t
      <3>5. PICK Q : Sends(w, sv, c, d, Q, n) BY <1>1, <1>2, <2>6, <3>1, <3>3, SendsNew
      <3>6. AllOnce(w, processCommand(sv, c, d, env), n)
        BY <1>1, <2>2, <2>3, <2>5, <3>2, <3>5, ProcessOnce
      <3> QED BY <3>4, <3>6
    <2> HIDE DEF t, n
    <2> QED BY <1>3, <2>4, <2>5, <2>6
  <1>5. ASSUME NEW c \in Clients, BlockedTimeout(c) PROVE OnceInv'
    <2>1. Local(unblockClient(sv, c)) /\ writes' = writes BY <1>5 DEF BlockedTimeout
    <2>2. w.lists => AllOnce(w, unblockClient(sv, c), writes)
      BY <1>2, UnblockCarries, MovesTrans, MovesAllOnce
    <2> QED BY <1>1, <1>3, <2>1, <2>2
  <1>6. ASSUME NEW c \in Clients, Disconnect(c) PROVE OnceInv'
    <2>1. Local(freeClient(sv, c)) /\ writes' = writes /\ c \in w.leave BY <1>6 DEF Disconnect
    <2>2. w.lists => AllOnce(w, freeClient(sv, c), writes) BY <1>1, <1>2, <2>1, FreeOnce
    <2> QED BY <1>1, <1>3, <2>1, <2>2
  <1>7. ASSUME NEW k \in Keys, Tick(k) \/ ExpireCycle(k) PROVE OnceInv'
    <2>1. sv.ttl[k] # "none" /\ workload' = w /\ writes' = writes
      BY <1>7 DEF Tick, ExpireCycle, After, Local
    <2>2. ~ w.lists BY <1>2, <2>1 DEF Flow, Plain, PlainKey
    <2> QED BY <1>1, <2>1, <2>2 DEF OnceInv
  <1>8. ASSUME Resync PROVE OnceInv'
    <2>1. sv' = [sv EXCEPT !.cache = <<>>] /\ workload' = w /\ writes' = writes BY <1>8 DEF Resync
    <2>2. w.lists => AllOnce(w, [sv EXCEPT !.cache = <<>>], writes)
      BY <1>2, BooksCarry, MovesTrans, MovesAllOnce, Zenon
    <2> QED BY <1>1, <2>1, <2>2 DEF OnceInv, AllOnce
  <1>9. CASE UNCHANGED vars
    <2>1. sv' = sv /\ workload' = w /\ writes' = writes BY <1>9 DEF vars
    <2> QED BY <1>1, <1>2, <2>1 DEF OnceInv, AllOnce
  <1> QED BY <1>4, <1>5, <1>6, <1>7, <1>8, <1>9 DEF Next

\* It holds in every state.
LEMMA OnceInvariant == Spec => []OnceInv
  <1>1. Init => OnceInv
    <2> SUFFICES ASSUME Init PROVE OnceInv OBVIOUS
    <2>1. /\ workload \in Workloads /\ writes = 0
          /\ sv = [NewServer(FALSE, Clients) EXCEPT !.val = workload.val]
      BY DEF Init
    <2>2. workload.lists => AllOnce(workload, [NewServer(FALSE, Clients) EXCEPT !.val = workload.val], 0)
      BY <2>1, InitOnce, ListsAssumption
    <2> QED BY <2>1, <2>2 DEF OnceInv
  <1> QED BY <1>1, OnceStep, Invariant, PTL DEF Spec

\* A list without repetition has as many elements as places.
LEMMA DistinctCount ==
    ASSUME NEW S, NEW q \in Seq(S), \A i, j \in 1..Len(q) : q[i] = q[j] => i = j
    PROVE  Cardinality(ToSet(q)) = Len(q)
  <1> DEFINE n == Len(q)
             T == ToSet(q)
             f == [i \in 1..n |-> q[i]]
  <1>1. n \in Nat /\ DOMAIN q = 1..n OBVIOUS
  <1>2. T = {q[i] : i \in 1..n} BY <1>1 DEF ToSet
  <1>3. IsFiniteSet(1..n) /\ Cardinality(1..n) = n
    BY <1>1, FS_Interval
  <1> HIDE DEF n, T
  <1>4. f \in Bijection(1..n, T)
    <2>1. f \in [1..n -> T] BY <1>2
    <2>2. \A i, j \in 1..n : f[i] = f[j] => i = j BY DEF n
    <2>3. \A y \in T : \E i \in 1..n : f[i] = y BY <1>2
    <2> HIDE DEF f
    <2>4. f \in Injection(1..n, T) BY <2>1, <2>2 DEF Injection, IsInjective
    <2>5. f \in Surjection(1..n, T) BY <2>1, <2>3 DEF Surjection
    <2> QED BY <2>4, <2>5 DEF Bijection
  <1>5. Cardinality(T) = Cardinality(1..n) BY <1>3, <1>4, FS_Bijection DEF ExistsBijection
  <1> QED BY <1>3, <1>5 DEF n, T

\* In a workload of lists every element that was pushed is in one place: once in
\* one list, with one client that popped it, or queued in a transaction; none is
\* served twice, and none is lost, whatever the clients that wait, time out or
\* disconnect, transactions and chains of BRPOPLPUSH (serveClientBlockedOnList,
\* handleClientsBlockedOnLists, rpoplpushCommand, execCommand).
THEOREM DeliveredOnceHolds == Spec => []DeliveredOnce
  <1>1. Inv /\ OnceInv => DeliveredOnce
    <2> SUFFICES ASSUME Inv, OnceInv, workload.lists PROVE DeliveredOnce BY DEF DeliveredOnce
    <2> DEFINE L == ListsOf(sv)
               G == GotOf(sv)
               Z == QueuesOf(sv)
               P == Pend(Z)
               n == writes
               queued == UNION {{cmd.x : cmd \in ToSet(sv.cl[c].queue)} : c \in Clients}
    <2>1. n \in Nat /\ Once(L, G, P, n) BY DEF OnceInv, AllOnce, Flow
    <2>2. \A c \in Clients : G[c] = sv.cl[c].got BY DEF GotOf
    <2>3. \A k \in Keys : IsList(sv, k) => L[k] = sv.val[k].v BY DEF ListsOf, Elems
    <2>4. ASSUME NEW k \in Keys PROVE Held[k] = ToSet(L[k])
      <3>1. CASE IsList(sv, k) BY <2>3, <3>1 DEF Held
      <3>2. CASE ~ IsList(sv, k)
        <4>1. L[k] = <<>> BY <3>2 DEF ListsOf, Elems
        <4>2. ToSet(<<>>) = {} BY DEF ToSet
        <4> QED BY <3>2, <4>1, <4>2 DEF Held
      <3> QED BY <3>1, <3>2
    <2> HIDE DEF L, G, P
    <2>5. \A k \in Keys : L[k] \in Seq(1..n) BY <2>1 DEF Once
    <2>6. \A k \in Keys : \A x : x \in Held[k] <=> \E i \in 1..Len(L[k]) : L[k][i] = x
      BY <2>4, <2>5 DEF ToSet
    <2>7. ASSUME NEW k \in Keys PROVE Cardinality(ToSet(L[k])) = Len(L[k])
      <3> DEFINE q == L[k]
      <3>1. q \in Seq(1..n) /\ \A i, j \in 1..Len(q) : q[i] = q[j] => i = j BY <2>1, <2>5 DEF Once
      <3> HIDE DEF q
      <3>2. Cardinality(ToSet(q)) = Len(q) BY <3>1, DistinctCount
      <3> QED BY <3>2 DEF q
    <2>8. \A k \in Keys : IsList(sv, k) => Cardinality(Held[k]) = Len(sv.val[k].v) BY <2>3, <2>4, <2>7
    <2>9. ASSUME NEW k \in Keys, NEW l \in Keys, k # l PROVE Held[k] \cap Held[l] = {}
      <3> SUFFICES ASSUME NEW x, x \in Held[k], x \in Held[l] PROVE FALSE OBVIOUS
      <3>1. PICK i \in 1..Len(L[k]) : L[k][i] = x BY <2>6
      <3>2. PICK j \in 1..Len(L[l]) : L[l][j] = x BY <2>6
      <3> QED BY <2>1, <2>9, <3>1, <3>2 DEF Once
    <2>10. \A c, d \in Clients : c # d => sv.cl[c].got \cap sv.cl[d].got = {} BY <2>1, <2>2 DEF Once
    <2>11. \A k \in Keys, c \in Clients : Held[k] \cap sv.cl[c].got = {} BY <2>1, <2>2, <2>6 DEF Once
    <2>12. P \subseteq queued
      <3> SUFFICES ASSUME NEW x \in P PROVE x \in queued OBVIOUS
      <3>1. QueuesOK(workload, Z) BY DEF OnceInv, AllOnce
      <3>2. PICK c \in Clients : \E j \in 1..Len(Z[c]) : Z[c][j].x = x BY DEF P, Pend
      <3> DEFINE q == sv.cl[c].queue
      <3>3. Z[c] = q BY DEF QueuesOf
      <3>4. PICK j \in 1..Len(q) : q[j].x = x BY <3>2, <3>3
      <3>5. q[j] \in ToSet(q)
        <4>1. q \in Seq(ToSet(q)) BY DEF Inv, Rests, Sound, ClientOK, QueueOK
        <4> HIDE DEF q
        <4>2. DOMAIN q = 1..Len(q) BY <4>1
        <4> QED BY <3>4, <4>2 DEF ToSet
      <3>6. x \in {cmd.x : cmd \in ToSet(q)} BY <3>4, <3>5
      <3> QED BY <3>6
    <2>13. \A x \in 1..n : \/ x \in P \/ (\E c \in Clients : x \in sv.cl[c].got)
                            \/ \E k \in Keys : x \in Held[k]
      BY <2>1, <2>2, <2>6 DEF Once
    <2> HIDE DEF queued
    <2> DEFINE got == UNION {sv.cl[c].got : c \in Clients}
               held == UNION {Held[k] : k \in Keys}
    <2>14. got \cap held = {} BY <2>11
    <2>15. 1..n \subseteq got \cup held \cup queued BY <2>12, <2>13
    <2> HIDE DEF got, held
    <2> QED BY <2>8, <2>9, <2>10, <2>14, <2>15 DEF DeliveredOnce, got, held, queued
  <1> QED BY <1>1, Invariant, OnceInvariant, PTL
================================================================================
